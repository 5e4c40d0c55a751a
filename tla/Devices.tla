------------------------------ MODULE Devices ------------------------------
(***************************************************************************)
(* The PnP devices the daemon works on, and what the SetupAPI / CfgMgr32   *)
(* wrappers of device_windows.go return for them.                          *)
(*                                                                         *)
(* A device has an instance ID (the member of Device itself), a friendly   *)
(* name, a presence bit and a CfgMgr problem code.  The DN_HAS_PROBLEM bit *)
(* is kept together with the code: CfgMgr raises it exactly when the code  *)
(* is not 0.  Status words, DEVINST numbers and error texts are left out.  *)
(***************************************************************************)
EXTENDS Naturals

CONSTANTS
    Device,           \* instance IDs
    FriendlyName,     \* [Device -> name]
    Fault,            \* problem codes a driver or the hardware may report
    HostActs,         \* [Device -> acts]: what happens to it behind the daemon's back
    OpsMayFail,       \* BOOLEAN: the Windows calls that change state may fail
    ReadsMayFail      \* BOOLEAN: enumeration and status queries may fail

VARIABLES
    present,          \* [Device -> BOOLEAN]: listed by DIGCF_PRESENT
    code              \* [Device -> Code]: CfgMgr problem code of the node

deviceVars == <<present, code>>

Healthy == 0
CM_PROB_DISABLED == 22
Code == {Healthy, CM_PROB_DISABLED} \union Fault

ASSUME FaultAssumption == /\ Fault \subseteq Nat
                          /\ Healthy \notin Fault
                          /\ CM_PROB_DISABLED \notin Fault

ASSUME FailureAssumption == {OpsMayFail, ReadsMayFail} \subseteq BOOLEAN

(***************************************************************************)
(* DeviceInfo: the copy of a device's identity and state that the program  *)
(* carries around.  It is a snapshot, never a reference to the device.     *)
(***************************************************************************)
DeviceInfo == [id : Device, code : Code]

Info(d, c) == [id |-> d, code |-> c]

IsHealthy(info)  == info.code = Healthy
IsDisabled(info) == info.code = CM_PROB_DISABLED

(***************************************************************************)
(* Reads                                                                   *)
(***************************************************************************)

\* A CM_Get_DevNode_Status that fails leaves status and problem at 0.
Reported(d) == {code[d]} \union (IF ReadsMayFail THEN {Healthy} ELSE {})

Present == {d \in Device : present[d]}

\* SetupDiGetClassDevsW failing is the error return.
EnumerateFails == ReadsMayFail

\* Any list of the present devices with what was reported of each.
Enumerations == {f \in [Present -> Code] : \A d \in Present : f[d] \in Reported(d)}

\* CM_Locate_DevNodeW fails for a device that is not present: no result.
GetDeviceByInstanceID(d) ==
    IF present[d] THEN {Info(d, c) : c \in Reported(d)} ELSE {}

\* The first present device of that name, in an order Windows chooses.
FindDeviceByFriendlyName(n) ==
    UNION {GetDeviceByInstanceID(d) : d \in {e \in Device : FriendlyName[e] = n}}

(***************************************************************************)
(* State changes                                                           *)
(***************************************************************************)

DisableSucceeds(d) == /\ present[d]
                      /\ code' = [code EXCEPT ![d] = CM_PROB_DISABLED]
                      /\ UNCHANGED present

\* Both CM_Disable_DevNode and the DIF_PROPERTYCHANGE fallback failed; for a
\* device that is gone neither can succeed.
CallFails(d) == /\ OpsMayFail \/ ~present[d]
                /\ UNCHANGED deviceVars

DisableDevice(info) == DisableSucceeds(info.id) \/ CallFails(info.id)

\* Enabling restarts the driver: the fault may be gone, be back or be another
\* one.  A node that was not disabled is left as it was.
EnableSucceeds(d) ==
    /\ present[d]
    /\ \E c \in Code \ {CM_PROB_DISABLED} :
          code' = IF code[d] = CM_PROB_DISABLED THEN [code EXCEPT ![d] = c] ELSE code
    /\ UNCHANGED present

EnableDevice(info) == EnableSucceeds(info.id) \/ CallFails(info.id)

(***************************************************************************)
(* The host: drivers, the hardware and the user in Device Manager.  None   *)
(* of it is the program's, and none of it is ever assumed to happen.       *)
(***************************************************************************)
SetCode(d, from, to) == /\ present[d]
                        /\ code[d] \in from
                        /\ \E c \in to : c # code[d] /\ code' = [code EXCEPT ![d] = c]
                        /\ UNCHANGED present

Breaks(d) == "break" \in HostActs[d] /\ SetCode(d, Code \ {CM_PROB_DISABLED}, Fault)

Heals(d) == "heal" \in HostActs[d] /\ SetCode(d, Fault, {Healthy})

UserDisables(d) == "user" \in HostActs[d] /\ SetCode(d, Code, {CM_PROB_DISABLED})

UserEnables(d) ==
    "user" \in HostActs[d] /\ SetCode(d, {CM_PROB_DISABLED}, Code)

Unplugs(d) == /\ "plug" \in HostActs[d]
              /\ present[d]
              /\ present' = [present EXCEPT ![d] = FALSE]
              /\ UNCHANGED code

Plugs(d) == /\ "plug" \in HostActs[d]
            /\ ~present[d]
            /\ present' = [present EXCEPT ![d] = TRUE]
            /\ UNCHANGED code

Host == \E d \in Device :
            \/ Breaks(d)
            \/ Heals(d)
            \/ UserDisables(d)
            \/ UserEnables(d)
            \/ Unplugs(d)
            \/ Plugs(d)

DevicesTypeOK == /\ present \in [Device -> BOOLEAN]
                 /\ code \in [Device -> Code]

DevicesInit == /\ present \in [Device -> BOOLEAN]
               /\ \A d \in Device : "plug" \notin HostActs[d] => present[d]
               /\ code \in [Device -> {Healthy} \union Fault]
=============================================================================

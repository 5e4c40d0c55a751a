----------------------------- MODULE MCRecDelay -----------------------------
(***************************************************************************)
(* Small instances of RecDelay for TLC: a tick is a second, and the        *)
(* defaults are short.                                                     *)
(***************************************************************************)
EXTENDS RecDelay, TLC

CONSTANT d1

Number(n) == [kind |-> "number", sec |-> n]
Object(clock, exact, n) == [kind |-> "object", based |-> clock, exact |-> exact, sec |-> n]

Written == {Omitted, Number(0), Number(2), Number(3), Number(-1), [kind |-> "partial"],
            Object("uptime", FALSE, 3), Object("daemon", TRUE, 2), Object("daemon", FALSE, 1),
            Object("device", TRUE, 2), Object("device", FALSE, 3), Object("unknown", TRUE, 1)}

Config(delay, bypass, minUptime, poll, maxWait) ==
    [delay |-> delay, bypass |-> bypass, minUptime |-> minUptime, poll |-> poll,
     maxWait |-> maxWait]

\* Every rec_delay with and without the bypass, and every ready setting with a
\* device clock.
Files ==
    {Config(d1 :> w, b, 1, 1, 1) : w \in Written, b \in {Omitted, 0, 2}}
    \union {Config(d1 :> Object("device", TRUE, 1), 0, u, p, m) :
              u \in {Omitted, 0, 3}, p \in {0, 2}, m \in {Omitted, 0, 1, -1}}
=============================================================================

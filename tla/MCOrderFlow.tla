---------------------------- MODULE MCOrderFlow ----------------------------
\* Two requests: an order and its retry, which has the same intent.  Each may
\* as well turn out to be a cancellation or a balances request.
EXTENDS OrderFlow, TLC
CONSTANTS r1, r2

MCSingle == {r1}
MCPair == {r1, r2}
MCIntent == r1 :> "buy" @@ r2 :> "buy"

Wiring(c, st, sk, b) == [connector |-> c, store |-> st, sink |-> sk, bus |-> b]
MCWirings == {Wiring("dummy", "memory", "memory", "none"),
              Wiring("dummy", "memory", "memory", "kafka"),
              Wiring("dummy", "postgres", "kafka", "kafka"),
              Wiring("exchange", "postgres", "kafka", "kafka")}

\* The two requests have the same intent and are interchangeable.
RequestSymmetry == Permutations(MCPair)
=============================================================================

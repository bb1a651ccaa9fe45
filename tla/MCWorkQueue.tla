----------------------------- MODULE MCWorkQueue -----------------------------
(* Instances of WorkQueue for TLC. *)
EXTENDS WorkQueue, TLC

CONSTANTS c1, c2, i1, i2, a1, s1

Line(o, r) == [op |-> o, call |-> r]
Load2 == <<Line("create", c1), Line("enqueue", i1), Line("enqueue", i2)>>
LoadAndDrain == <<Line("create", c1), Line("enqueue", i1), Line("drain", a1)>>
CreateTwice == <<Line("create", c1), Line("delete", a1), Line("create", c2), Line("stats", s1)>>

SomeScripts == {Load2, LoadAndDrain, CreateTwice}
=============================================================================

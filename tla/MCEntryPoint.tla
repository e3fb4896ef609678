--------------------------- MODULE MCEntryPoint ---------------------------
(* An instance of EntryPoint for TLC. *)
EXTENDS EntryPoint, SequencesExt

AllTypes == DOMAIN KnownHandlers \cup {"Unknown"}

\* Values are made at a full second and at the end of one, by a clock that is
\* right, ahead (by less than a second, by the 10 s allowed, by more) or behind.
SomeMakings == {60000, 60999}
SomeSkews == {0, 700, 10000, 10700, -29500}

\* They are met at every boundary there is, and a millisecond off.
SomeAges == {-11000, -10999, -10000, -1000, -999, 0, 29001, 30000, 30001, 31000,
             120000, 120001, 120999, 121000}

\* Texts of up to two blocks, with and without a NUL.
AllTexts == UNION {[1..n -> {0, 1}] : n \in 0..5}
=============================================================================

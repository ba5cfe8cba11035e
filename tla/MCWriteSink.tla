------------------------------ MODULE MCWriteSink ------------------------------
(* Instances of WriteSink for TLC. *)
EXTENDS WriteSink

(* Micropartitions that are empty, need one batch or several, hold a value
   that cannot be serialized in a later batch, differ in their schema, or do
   not fit the table. *)
Part(n, s, c, b) == [rows |-> n, schema |-> s, compatible |-> c, bad |-> b]

Parts == {Part(n, "s1", TRUE, {}) : n \in {0, 1, 3}}
           \cup {Part(3, "s1", TRUE, {2}), Part(1, "s2", TRUE, {}),
                 Part(1, "s1", FALSE, {})}

Writes == {<<>>} \cup {<<p>> : p \in Parts}
            \cup {w \in Parts \X Parts : w[1].rows + w[2].rows <= MaxRequests}
===============================================================================

------------------------------ MODULE CreateTable ------------------------------
(***************************************************************************)
(* parse_create_table (write/metadata.py): the scanner that takes the     *)
(* data model, the key columns and the Merge-on-Write property out of the *)
(* text of SHOW CREATE TABLE.                                              *)
(*                                                                         *)
(* A text is a sequence of characters, in which a word counts as one      *)
(* character: a word of the syntax when it is outside quotes.  A scan is  *)
(* a function of the position, as the loops of the code are.  The place   *)
(* behind the text is one past its end; one more is Malformed, where an   *)
(* unterminated token ends, a DorisMetadataError.                          *)
(***************************************************************************)
EXTENDS Integers, Sequences, SequencesExt

Models == {"DUPLICATE KEY", "UNIQUE KEY", "AGGREGATE KEY"}
MowProperty == <<"enable_unique_key_merge_on_write">>
Quotes == {"tick", "quote", "double"}

Malformed(text) == Len(text) + 2
Places(text) == 1 .. Malformed(text)

(* The position after the quoted token that begins at start.  A doubled quote
   stays in it, and a literal's backslash takes the next character along. *)
QuotedEnd(text, start) ==
    LET end[i \in Places(text)] ==
          IF i > Len(text)                                   THEN Malformed(text)
          ELSE IF text[i] = "slash" /\ text[start] # "tick"   THEN end[i + 2]
          ELSE IF text[i] # text[start]                      THEN end[i + 1]
          ELSE IF i < Len(text) /\ text[i + 1] = text[start] THEN end[i + 2]
          ELSE i + 1
    IN  end[start + 1]

(* Mutated: quoted text is searched like any other. *)
FindAnywhere(text, start, quotes, words) ==
    LET found == {i \in start .. Len(text) : text[i] \in words}
    IN  IF found = {} THEN Len(text) + 1 ELSE CHOOSE i \in found : \A j \in found : i <= j

(* The first of the words from start on that is outside quotes, the position
   after the text when there is none. *)
FindOutside(text, start, quotes, words) ==
    LET find[i \in Places(text)] ==
          IF i > Len(text)           THEN i
          ELSE IF text[i] \in quotes THEN find[QuotedEnd(text, i)]
          ELSE IF text[i] \in words  THEN i
          ELSE find[i + 1]
    IN  find[start]

SkipOver(text, start, characters) ==
    LET skip[i \in Places(text)] ==
          IF i <= Len(text) /\ text[i] \in characters THEN skip[i + 1] ELSE i
    IN  skip[start]

SkipSpace(text, start) == SkipOver(text, start, {" "})

Strip(text) ==
    LET first == SkipSpace(text, 1)
        last == Len(text) + 1 - SkipSpace(Reverse(text), 1)
    IN  IF first > Len(text) THEN <<>> ELSE SubSeq(text, first, last)

(* The content of the parentheses that open after start, as the one member
   of a set, which is empty for malformed text. *)
Clause(text, start) ==
    LET open == SkipSpace(text, start)
        close[i \in Places(text)] == [depth \in Nat \ {0} |->
          IF i > Len(text)                   THEN Malformed(text)
          ELSE IF text[i] \in Quotes         THEN close[QuotedEnd(text, i)][depth]
          ELSE IF text[i] = "("              THEN close[i + 1][depth + 1]
          ELSE IF text[i] # ")"              THEN close[i + 1][depth]
          ELSE IF depth > 1                  THEN close[i + 1][depth - 1]
          ELSE i]
        end == close[open + 1][1]
    IN  IF open > Len(text) \/ text[open] # "(" \/ end > Len(text) THEN {}
        ELSE {SubSeq(text, open + 1, end - 1)}

(* The parts between the commas outside backticks; an unterminated backtick
   leaves an empty part, which is as bad. *)
SplitKeys(raw) ==
    LET split[from \in Places(raw)] ==
          LET comma == FindOutside(raw, from, {"tick"}, {","})
          IN  IF comma <= Len(raw) THEN <<SubSeq(raw, from, comma - 1)>> \o split[comma + 1]
              ELSE IF comma = Malformed(raw) THEN <<<<>>>>
              ELSE <<SubSeq(raw, from, Len(raw))>>
    IN  split[1]

(* str.replace of a doubled quote by one, from the left. *)
Undouble(text, quote) ==
    LET single[i \in Places(text)] ==
          IF i > Len(text) THEN <<>>
          ELSE IF text[i] = quote /\ i < Len(text) /\ text[i + 1] = quote
               THEN <<quote>> \o single[i + 2]
          ELSE <<text[i]>> \o single[i + 1]
    IN  single[1]

(* _parse_identifier: a whole part is one name. *)
ParseIdentifier(part) ==
    LET name == Strip(part)
    IN  IF name = <<>> THEN {}
        ELSE IF name[1] = "tick" THEN
          IF QuotedEnd(name, 1) # Len(name) + 1 \/ Len(name) = 2 THEN {}
          ELSE {Undouble(SubSeq(name, 2, Len(name) - 1), "tick")}
        ELSE IF ToSet(name) \cap Quotes # {} THEN {}
        ELSE {name}

(* The key columns, again as the member of a set. *)
KeyColumns(raw) ==
    LET parts == SplitKeys(raw)
    IN  IF \E part \in ToSet(parts) : ParseIdentifier(part) = {} THEN {}
        ELSE {[i \in 1 .. Len(parts) |->
                 CHOOSE name \in ParseIdentifier(parts[i]) : TRUE]}

(* A key or a value of PROPERTIES with the position after it. *)
PropertyToken(text, start) ==
    LET i == SkipSpace(text, start)
        end == IF text[i] \in Quotes THEN QuotedEnd(text, i)
               ELSE FindOutside(text, i, {}, {" ", "=", ","})
    IN  IF i > Len(text) THEN {}
        ELSE IF end \in {Malformed(text), i} THEN {}
        ELSE IF text[i] \notin Quotes THEN
          {[value |-> SubSeq(text, i, end - 1), end |-> end]}
        ELSE LET value == SubSeq(text, i + 1, end - 2)
             IN  {[value |-> IF text[i] = "tick" THEN value
                             ELSE Undouble(value, text[i]), end |-> end]}

(* A property from start on: whether it is Merge-on-Write, and the place of
   what follows it. *)
PropertyAt(text, start) ==
    UNION {LET equal == SkipSpace(text, key.end)
           IN  IF equal > Len(text) \/ text[equal] # "=" THEN {}
               ELSE {[mow |-> key.value = MowProperty /\ value.value = <<"true">>,
                      after |-> SkipSpace(text, value.end)]
                     : value \in PropertyToken(text, equal + 1)}
           : key \in PropertyToken(text, start)}

(* _has_true_mow_property. *)
TrueMow(text) ==
    LET scan[i \in Places(text)] ==
          LET start == SkipOver(text, i, {" ", ","})
          IN  IF start > Len(text) THEN {FALSE}
              ELSE UNION {IF p.after <= Len(text) /\ text[p.after] # "," THEN {}
                          ELSE {p.mow \/ found : found \in scan[p.after]}
                          : p \in PropertyAt(text, start)}
    IN  scan[1]

(* The table PROPERTIES, looked for behind the model clause. *)
MergeOnWrite(text, start) ==
    LET clause == FindOutside(text, start, Quotes, {"PROPERTIES"})
    IN  IF clause = Malformed(text) THEN {}
        ELSE IF clause > Len(text) THEN {FALSE}
        ELSE UNION {TrueMow(properties) : properties \in Clause(text, clause + 1)}

(* The metadata of a text, or none for a DorisMetadataError. *)
ParseCreateTable(text) ==
    LET model == FindOutside(text, 1, Quotes, Models)
    IN  IF model > Len(text) THEN {}
        ELSE LET keys == UNION {KeyColumns(raw) : raw \in Clause(text, model + 1)}
                 mows == MergeOnWrite(text, model + 1)
             IN  {[model |-> text[model], keys |-> k, mow |-> m] : k \in keys, m \in mows}

-------------------------------------------------------------------------------
(* External: what Doris writes *)

Doubled(name) ==
    FlattenSeq([i \in 1 .. Len(name) |->
                  IF name[i] = "tick" THEN <<"tick", "tick">> ELSE <<name[i]>>])

(* Doris 4.0.6 writes an embedded backtick as it is. *)
Identifier(name, escaped) ==
    <<"tick">> \o (IF escaped THEN Doubled(name) ELSE name) \o <<"tick">>

Literal(content) ==
    <<"quote">> \o FlattenSeq([i \in 1 .. Len(content) |->
                 IF content[i] \in {"quote", "slash"} THEN <<"slash", content[i]>>
                                               ELSE <<content[i]>>]) \o <<"quote">>

Property(key, value) ==
    <<"double">> \o key \o <<"double">> \o <<" ", "=", " ">>
    \o (<<"double">> \o value \o <<"double">>)

Separated(items) ==
    FlattenSeq([i \in 1 .. Len(items) |->
                  IF i = 1 THEN items[i] ELSE <<",", " ">> \o items[i]])

(* SHOW CREATE TABLE for a table of columns [name, ...], of which the first
   table.keys are the key, with a comment on every column. *)
ShowCreate(table, escaped) ==
    LET names == [i \in 1 .. Len(table.columns) |->
                    Identifier(table.columns[i].name, escaped)]
        columns == [i \in 1 .. Len(names) |->
                      names[i] \o <<" ", "TYPE", "(", "1", ")", " ", "COMMENT", " ">>
                      \o Literal(table.comment)]
        properties == <<Property(<<"replication_num">>, <<"1">>)>>
                      \o IF table.mow = "unset" THEN <<>>
                         ELSE <<Property(MowProperty, <<table.mow>>)>>
    IN  FlattenSeq(<<
            <<"CREATE TABLE", " ", "(">>, Separated(columns), <<")", "ENGINE", " ">>,
            <<table.model, "(">>, Separated(SubSeq(names, 1, table.keys)),
            <<")", "COMMENT", " ">>, Literal(table.comment),
            <<"HASH", "(">>, names[1], <<")">>,
            <<"PROPERTIES", " ", "(">>, Separated(properties), <<")">> >>)
===============================================================================

--------------------------- MODULE AcvpCapTables ---------------------------
(***************************************************************************)
(* What a capability is, and the rows in which the AcvpCap* modules say    *)
(* which calls of the capability API change it.                            *)
(*                                                                         *)
(* A capability is a set of settings: where in its structure (at: <<>>, or *)
(* the keys of a nested entry, such as a mode and a modulus), which field, *)
(* and a value.  Numbers and strings are left out: "v1" and "v2" are two   *)
(* values that make sense, "odd" is one outside of the range, "rev" a      *)
(* range whose minimum exceeds its maximum, "zero" a range whose increment *)
(* is 0, and other values have their names.  A list is a set, its order    *)
(* and repetitions in it are left out, unless its builder goes by them,    *)
(* as the one of ECDSA signatures does with the curves.                    *)
(***************************************************************************)
EXTENDS Naturals, Sequences, FiniteSets

Good == {"v1", "v2"}
Flag == {"yes", "no"}

Setting(at, field, value) == [at |-> at, field |-> field, value |-> value]

Values(cap, field) == {s.value : s \in {t \in cap : t.field = field}}
Has(cap, field)    == Values(cap, field) # {}
Is(cap, field, v)  == Values(cap, field) = {v}
Fields(cap, F)     == {s \in cap : s.field \in F}

\* A nested entry that exists, and all that are named at depth d.
Entry(at)       == Setting(at, "entry", "yes")
Entries(cap, d) == {s.at : s \in {t \in cap : t.field = "entry" /\ Len(t.at) = d}}

\* A parameter of a setter: the field it sets; how, by adding to a list or a
\* mask ("add"), assigning a field ("assign") or the three numbers of a range
\* ("range"), or making an entry ("entry"); the values that pass the checks; the
\* entries it may be set in;
\*   tries    values that do not pass, and are tried;
\*   unless   fields that must not be set, needs: settings that must be;
\*   under    the first key of the entry must exist already;
\*   fresh    the field must not be set yet;
\*   idle     values that are accepted and ignored, and
\*   onlyIf   settings without which every value is;
\*   early    how many keys of the entry are created before the checks;
\*   drops    settings that are gone after a call that gets past the entry, and
\*   leaves   settings a refused call leaves;
\*   loses    settings a refused call takes away;
\*   gives    settings that come with the value;
\*   alone    a new entry takes the place of those beside it;
\*   wide     the field belongs to the capability, whatever entry is named;
\*   counts   values that add to vs_count.
\* A call may meet one row or another, depending on the capability: given are
\* settings that are there, lacking ones that are not, if it meets this one.
Row(field, how, takes) ==
  [field |-> field, how |-> how, takes |-> takes,
   tries |-> IF how = "range" THEN {"odd", "rev", "zero"} ELSE {"odd"}, at |-> {<<>>}, unless |-> {}, needs |-> {},
   under |-> "no", fresh |-> "no", idle |-> {}, onlyIf |-> {}, early |-> 0, drops |-> {},
   leaves |-> {}, loses |-> {}, gives |-> {}, alone |-> "no", wide |-> "no", counts |-> {},
   given |-> {}, lacking |-> {}]

Applies(row, cap) == row.given \subseteq cap /\ row.lacking \cap cap = {}

\* The values an application may try.
Tries(row) == (row.takes \cup row.idle) \cup row.tries

Adds(F)    == {Row(f, "add", Good) : f \in F}
Assigns(F) == {Row(f, "assign", Good) : f \in F}
Flags(F)   == {Row(f, "assign", Flag) : f \in F}
Ranges(F)  == {Row(f, "range", Good) : f \in F}

\* Making entries, and trying to.
Makes(places)  == {[Row("entry", "entry", {"yes"}) EXCEPT !.at = places, !.tries = {}]}
Refuse(places) == {[Row("entry", "entry", {}) EXCEPT !.at = places, !.tries = {"yes"}]}

\* The rows with other values, with more that should not pass, but do, and with
\* other values to try in vain.
Taking(rows, takes)   == {[r EXCEPT !.takes = takes] : r \in rows}
AlsoTaking(rows, odd) == {[r EXCEPT !.takes = @ \cup odd] : r \in rows}
Trying(rows, tries)   == {[r EXCEPT !.tries = tries] : r \in rows}

\* The rows in nested entries; in nested entries whose first key must exist; and
\* in ones of which d keys are created before the checks.
In(places, rows)       == {[r EXCEPT !.at = places] : r \in rows}
Under(places, rows)    == {[r EXCEPT !.at = places, !.under = "yes"] : r \in rows}
Early(d, places, rows) == {[r EXCEPT !.at = places, !.early = d] : r \in rows}

Pairs(cap) == {<<s.field, s.value>> : s \in cap}

\* The call returns before it looks at its value.
Barred(row, cap, at) ==
  \/ \E f \in row.unless : Has(cap, f)
  \/ row.under = "yes" /\ Entry(<<at[1]>>) \notin cap

Ignored(row, cap, v) == v \in row.idle \/ ~(row.onlyIf \subseteq Pairs(cap))

\* Where the row's field is.
Place(row, at) == IF row.wide = "yes" THEN <<>> ELSE at

Passes(row, cap, at, v) ==
  /\ v \in row.takes
  /\ row.needs \subseteq cap
  /\ row.fresh = "yes" => \A s \in cap : ~(s.at = Place(row, at) /\ s.field = row.field)

Created(row, at) == IF row.early = 0 THEN {} ELSE {Entry(SubSeq(at, 1, row.early))}

\* What a new entry takes the place of.
Displaced(row, cap, at) ==
  IF row.alone = "yes" /\ Created(row, at) \cap cap = {}
  THEN {s \in cap : Len(s.at) >= row.early
                     /\ SubSeq(s.at, 1, row.early - 1) = SubSeq(at, 1, row.early - 1)}
  ELSE {}

Set(row, cap, at, v) ==
  LET p   == Place(row, at)
      old == IF row.how \in {"assign", "range"} THEN {s \in cap : s.at = p /\ s.field = row.field}
             ELSE {}
  IN  (cap \ (old \cup row.drops)) \cup (Created(row, at) \cup row.gives)
        \cup (IF at = <<>> THEN {} ELSE {Entry(at)}) \cup {Setting(p, row.field, v)}

\* What a call returns, and the capability after it.
Accepted(row, cap, at, v) ==
  ~Barred(row, cap, at) /\ (Ignored(row, cap, v) \/ Passes(row, cap, at, v))

After(row, cap, at, v) ==
  IF Barred(row, cap, at) \/ Ignored(row, cap, v) THEN cap
  ELSE LET base == cap \ Displaced(row, cap, at)
       IN  IF Passes(row, cap, at, v) THEN Set(row, base, at, v)
           ELSE (base \ row.loses) \cup (Created(row, at) \cup row.leaves)
============================================================================

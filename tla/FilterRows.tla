----------------------------- MODULE FilterRows -----------------------------
(***************************************************************************)
(* The selection of rows, from the client's arguments to the answer:        *)
(* _join_codes of the SDK's client, _parse_codes of src/app/main.py and      *)
(* filter_rows of src/app/snapshot_service.py.                              *)
(*                                                                         *)
(* A row is a record with its code, name and type.  A string of codes is    *)
(* the sequence of its parts between commas, in which Blank is white space;  *)
(* of the string that joins several, only the set of the parts is kept,      *)
(* since filter_rows makes them a set (snapshot_service.py 121).  Keyword k  *)
(* is contained in the texts Containing[k], in any case.                     *)
(***************************************************************************)
EXTENDS Integers, FiniteSets, SequencesExt

CONSTANTS
  Blank,      \* a part that is empty once stripped
  Containing  \* for each keyword, the codes and names that contain it

None == "none"

\* A code is blank if it is a single part that is; a comma is text.
IsBlank(code) == code = <<Blank>>

JoinCodes(codes) == UNION {ToSet(code) : code \in {c \in ToSet(codes) : ~IsBlank(c)}}

\* Faulty variant: blank parts are kept, so that no code at all means one.
ParseCodesKeepBlanks(text) == IF text = {} THEN {Blank} ELSE text

ParseCodes(text) == text \ {Blank}

\* A list comprehension: the rows at these places, in their order.
RowsAt(rows, places) ==
  [i \in 1..Cardinality(places) |->
     rows[CHOOSE n \in places : Cardinality(places \cap 1..n) = i]]

\* filter_rows, up to the total: an empty list or word filters nothing.  Only
\* the sectors' endpoint passes a type, and only the others pass codes.
ByCodes(rows, codes) ==
  IF codes = {} THEN rows
  ELSE RowsAt(rows, {n \in 1..Len(rows) : rows[n].code \in codes})

ByKeyword(rows, keyword) ==
  IF keyword = None THEN rows
  ELSE RowsAt(rows, {n \in 1..Len(rows) :
                       {rows[n].code, rows[n].name} \cap Containing[keyword] # {}})

ByType(rows, type) ==
  IF type = None THEN rows
  ELSE RowsAt(rows, {n \in 1..Len(rows) : rows[n].type = type})

Matching(rows, query) ==
  ByType(ByKeyword(ByCodes(rows, ParseCodes(JoinCodes(query.codes))), query.keyword),
         query.type)

AtLeast(low, n) == IF n < low THEN low ELSE n
AtMost(high, n) == IF n > high THEN high ELSE n

\* The slice of the answer; limit 0 stands for none given.
Slice(rows, offset, limit) ==
  SubSeq(rows, AtLeast(0, offset) + 1,
         IF limit = 0 THEN Len(rows) ELSE AtMost(Len(rows), AtLeast(0, offset) + limit))

\* What the caller of the SDK means: every filter given is met, and a list of
\* codes without any text is no filter.
Asked(row, query) ==
  LET parts == (UNION {ToSet(query.codes[i]) : i \in 1..Len(query.codes)}) \ {Blank}
  IN /\ parts # {} => row.code \in parts
     /\ query.keyword # None =>
          \E text \in Containing[query.keyword] : text \in {row.code, row.name}
     /\ query.type # None => row.type = query.type
=============================================================================

-------------------------- MODULE EventVocabulary --------------------------
(***************************************************************************)
(* The status vocabulary of one (source, event type) pair                  *)
(* (watchline/discovery/agent/vocab.py): a raw status of the graph read as *)
(* a canonical one, and the filter that selects, in the database, the raw  *)
(* statuses of a canonical one.                                            *)
(*                                                                         *)
(* Abstracted: a raw value is its word and what surrounds it: the case it  *)
(* is written in, blanks in front and behind, and a tail, mostly a date,   *)
(* that a blank sets apart from the word (and the punctuation after it) or *)
(* that is attached to it: 'DENIED , 10/31/2016' and 'DENIED,10/31/2016'.  *)
(***************************************************************************)
CONSTANTS
  Pairs,            \* (source, event type) pairs
  Litigation,       \* HPD-Litigations among them: a date follows the word
  Words,            \* words a status column may hold, none the start of another
  Writings,         \* how a column may write one
  StatusOf,         \* the status map of each pair: canonical statuses of words
  ListedRaw,        \* words of the raw values known to occur (_RAW_STATUSES)
  Concluded,        \* statuses besides the four the code treats by name
  Null,             \* the property is not recorded
  Blank             \* recorded, without a word

OPEN_STATUSES == {"OPEN", "PENDING"}
Mapped == OPEN_STATUSES \cup Concluded \cup {"UNKNOWN"}
Status == Mapped \cup {"NOT_RECORDED"}

Keys(pair) == DOMAIN StatusOf[pair]
Recorded == [word : Words, as : Writings]
Raw == Recorded \cup {Null, Blank}

\* Every word of a map is listed, except where prefixes are matched, and no
\* word means that there is none.
ASSUME VocabularyAssumption ==
  /\ \A pair \in Pairs :
       /\ Keys(pair) \subseteq Words
       /\ pair # Litigation => Keys(pair) \subseteq ListedRaw[pair]
       /\ StatusOf[pair] \in [Keys(pair) -> Mapped]
  /\ Writings \subseteq [shouted : BOOLEAN, led : BOOLEAN, trailed : BOOLEAN,
                        tail : {"none", "apart", "attached"}]
  /\ Recorded \cap {Null, Blank} = {}
  /\ "NOT_RECORDED" \notin Mapped

\* _status_key: blanks and case never matter; a tail does, except that court
\* filings are split at the first blank.
Known(pair, raw) ==
  /\ raw.word \in Keys(pair)
  /\ raw.as.tail = "none" \/ (raw.as.tail = "apart" /\ pair = Litigation)

canonical_status(pair, raw) ==
  IF raw \in {Null, Blank} THEN "NOT_RECORDED"
  ELSE IF Known(pair, raw) THEN StatusOf[pair][raw.word]
  ELSE "UNKNOWN"

\* status_filter: which words to look for, as whole values or as prefixes, and
\* whether a missing value counts.
status_filter(pair, wanted) ==
  LET keys == {k \in Keys(pair) : StatusOf[pair][k] \in wanted} IN
    [exact |-> IF pair = Litigation THEN {} ELSE ListedRaw[pair] \cap keys,
     prefixes |-> IF pair = Litigation THEN keys ELSE {},
     match_null |-> "NOT_RECORDED" \in wanted]

\* RawFilter.to_cypher, as the database evaluates it: case is folded on both
\* sides and blanks are not stripped.  IN compares the whole value, STARTS WITH
\* is content with the start of it, whatever follows.
IsWhole(raw) == ~raw.as.led /\ ~raw.as.trailed /\ raw.as.tail = "none"
Begins(raw) == ~raw.as.led

CaseMatters(filter, raw) ==        \* mutant: the column is compared as it is
  IF raw \in {Null, Blank} THEN raw = Null /\ filter.match_null
  ELSE ~raw.as.shouted /\ \/ raw.word \in filter.exact /\ IsWhole(raw)
                          \/ raw.word \in filter.prefixes /\ Begins(raw)

Selects(filter, raw) ==
  IF raw \in {Null, Blank} THEN raw = Null /\ filter.match_null
  ELSE \/ raw.word \in filter.exact /\ IsWhole(raw)
       \/ raw.word \in filter.prefixes /\ Begins(raw)

=============================================================================

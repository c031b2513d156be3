------------------------------- MODULE Names -------------------------------
(***************************************************************************)
(* Party names and the verdict on two of them                              *)
(* (watchline/discovery/agent/names.py).                                   *)
(*                                                                         *)
(* Abstracted: a raw name is the sequence of words between its blanks, and *)
(* TokensOf is what case folding and the two regular expressions make of a *)
(* word: nothing of a lone mark, several tokens of a hyphenated word, one  *)
(* of "L.L.C.".                                                            *)
(***************************************************************************)
EXTENDS Integers, Sequences

CONSTANTS
  Token,             \* case-folded runs of letters and digits
  Initial,           \* the single letters among them
  LegalForm,         \* LEGAL_FORM_TOKENS
  Word,              \* words of raw names
  TokensOf,          \* the tokens of each
  None               \* no name recorded

ASSUME NamesAssumption ==
  /\ Initial \subseteq Token
  /\ LegalForm \subseteq Token \ Initial
  /\ TokensOf \in [Word -> SUBSET Token]
  /\ None \notin Seq(Word)

Raw == Seq(Word) \cup {None}
OwnershipVerdict == {"agrees", "differs", "indeterminate", "not_comparable"}

normalize(raw) == IF raw = None THEN {} ELSE UNION {TokensOf[raw[i]] : i \in DOMAIN raw}

-----------------------------------------------------------------------------
LeftOnly(left, right) ==           \* mutant: an initial is dropped on the left only
  [left |-> IF right \cap Initial = {} /\ ~(left \subseteq Initial) THEN left \ Initial ELSE left,
   right |-> right]

\* _drop_one_sided_initials: what each side is compared by.
Kept(left, right) ==
  LET drop(side, other) ==
        side \cap Initial # {} /\ other \cap Initial = {} /\ side \ Initial # {}
  IN [left |-> IF drop(left, right) THEN left \ Initial ELSE left,
      right |-> IF drop(right, left) THEN right \ Initial ELSE right]

\* shared_distinguishing: what both sides carry and identity can rest on.
Distinguishing(kept) == (kept.left \cap kept.right) \ LegalForm

\* compare_names on token sets.
Verdict(left, right) ==
  LET kept == Kept(left, right)
  IN IF left = {} \/ right = {} THEN "not_comparable"
     ELSE IF kept.left = kept.right THEN "agrees"
     ELSE IF Distinguishing(kept) = {} THEN "differs" ELSE "indeterminate"

\* NameComparison, verbatim inputs and verdict.
compare_names(left, right) ==
  [left |-> left, right |-> right, verdict |-> Verdict(normalize(left), normalize(right))]

Comparison == [left : Raw, right : Raw, verdict : OwnershipVerdict]

=============================================================================

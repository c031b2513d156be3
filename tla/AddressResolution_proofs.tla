--------------------- MODULE AddressResolution_proofs ---------------------
(***************************************************************************)
(* For any number of calls, any dictionary and any caps: what an answer    *)
(* says was heard, a named building is confirmed, and a list of candidates *)
(* is the first spelling's.                                                *)
(***************************************************************************)
EXTENDS AddressResolution, SequenceTheorems, TLAPS

\* The attempt that counts is an outage, the last thing heard, or, when no
\* spelling got further than the street, the first.
Settled(c) ==
  \/ result[c] = Unavailable
  \/ /\ Len(heard[c]) > 0
     /\ \/ result[c] = Interpret(heard[c][Len(heard[c])]) /\ result[c].outcome \notin StreetFailures
        \/ result[c] = Interpret(heard[c][1]) /\ result[c].outcome \in StreetFailures

\* It is the first attempt, unless a house number was split off, that attempt
\* failed on the street, and the whole string did not.
Chosen(c) ==
  \/ result[c] = first[c]
  \/ /\ typed[c].house /\ result[c].outcome \notin StreetFailures
     /\ result[c] = Unavailable \/ Len(heard[c]) = 2

AnswerOf(r) == [status |-> Status(r), bbl |-> r.bbl, candidates |-> r.candidates,
                truncated |-> r.total > Len(r.candidates)]

CallInv(c) ==
  /\ Len(heard[c]) <= IF typed[c].house THEN 2 ELSE 1
  /\ first[c].candidates # <<>> => first[c].outcome = "street_ambiguous"
  /\ phase[c] \in {"idle", "first"} => heard[c] = <<>>
  /\ phase[c] \in {"first", "retry", "settled"} => Refusal(typed[c]) = "none"
  /\ phase[c] = "retry" => Len(heard[c]) = 1 /\ first[c] = Interpret(heard[c][1])
                           /\ first[c].outcome \in StreetFailures /\ typed[c].house
  /\ phase[c] = "settled" => Settled(c) /\ Chosen(c)
  /\ phase[c] = "done" /\ Refusal(typed[c]) = "none" =>
       Settled(c) /\ Chosen(c) /\ answer[c] = AnswerOf(result[c])

IInv == TypeOK /\ \A c \in Calls : CallInv(c)

-----------------------------------------------------------------------------
\* A list of names is a sequence, and its head is as long as the cap allows.
LEMMA ShownNames ==
  ASSUME NEW names \in Seq(Streets)
  PROVE  /\ Shown(names) \in Seq(Streets)
         /\ Len(Shown(names)) \in Nat /\ Len(names) \in Nat
         /\ Len(names) > Len(Shown(names)) <=> Len(names) > MAX_CANDIDATES
<1>1. Len(names) \in Nat /\ MAX_CANDIDATES \in Nat
  BY AddressAssumption, LenProperties
<1> DEFINE m == IF Len(names) < MAX_CANDIDATES THEN Len(names) ELSE MAX_CANDIDATES
<1>2. m \in Nat /\ m <= Len(names) /\ (Len(names) > m <=> Len(names) > MAX_CANDIDATES)
  BY <1>1
<1>3. Shown(names) = SubSeq(names, 1, m)
  BY DEF Shown
<1>4. SubSeq(names, 1, m) \in Seq(Streets) /\ Len(SubSeq(names, 1, m)) = m
  <2>1. \A k \in 1..m : names[k] \in Streets
    BY <1>1, <1>2, ElementOfSeq
  <2> HIDE DEF m
  <2> QED BY <1>1, <1>2, <2>1, SubSeqProperties
<1> HIDE DEF m
<1> QED BY <1>1, <1>2, <1>3, <1>4

\* A response is one of four kinds, each with its outcome.
LEMMA Interpreted ==
  ASSUME NEW response \in Response
  PROVE  /\ Interpret(response) \in Attempted
         /\ Interpret(response).outcome # "unavailable"
         /\ Interpret(response).candidates # <<>> => Interpret(response).outcome = "street_ambiguous"
         /\ Interpret(response).outcome = "resolved" => Interpret(response).bbl = response.bbl
         /\ Interpret(response).outcome = "street_ambiguous" =>
              /\ response.names \in Seq(Streets)
              /\ Interpret(response).candidates = Shown(response.names)
              /\ Interpret(response).total = Len(response.names)
<1>1. <<>> \in Seq(Streets) /\ 0 \in Nat /\ None \notin Lots
  BY EmptySeq, AddressAssumption
<1>2. ASSUME NEW o \in Outcomes
      PROVE  Outcome(o) \in Attempted /\ Outcome(o).outcome = o /\ Outcome(o).candidates = <<>>
  BY <1>1 DEF Outcome, Attempted
<1>3. CASE response \in [grc : {"00"}, bbl : Lots \cup {None, NULL_BBL}, names : {<<>>}]
  <2>1. response.grc = "00" /\ response.bbl \in Lots \cup {None, NULL_BBL}
    BY <1>3
  <2>2. CASE compose_bbl(response.bbl) # None
    <3>1. response.bbl \in Lots /\ compose_bbl(response.bbl) = response.bbl
      BY <2>1, <2>2 DEF compose_bbl
    <3>2. Interpret(response) = [outcome |-> "resolved", bbl |-> response.bbl, candidates |-> <<>>, total |-> 0]
      BY <2>1, <2>2, <3>1 DEF Interpret, Outcome
    <3> QED BY <1>1, <3>1, <3>2 DEF Attempted, Outcomes
  <2>3. CASE compose_bbl(response.bbl) = None
    <3>1. Interpret(response) = Outcome("no_tax_lot")
      BY <2>1, <2>3 DEF Interpret
    <3> QED BY <1>2, <3>1 DEF Outcomes
  <2> QED BY <2>2, <2>3
<1>4. CASE response \in [grc : {"EE"}, bbl : {None}, names : UNION {[1..n -> Streets] : n \in 0..MaxSimilar}]
  <2>1. response.grc = "EE" /\ response.names \in UNION {[1..n -> Streets] : n \in 0..MaxSimilar}
    BY <1>4
  <2>2. PICK n \in 0..MaxSimilar : response.names \in [1..n -> Streets]
    BY <2>1
  <2>3. response.names \in Seq(Streets)
    BY <2>2, AddressAssumption
  <2>4. CASE response.names = <<>>
    <3>1. Interpret(response) = Outcome("street_not_recognized")
      BY <2>1, <2>4 DEF Interpret
    <3> QED BY <1>2, <3>1 DEF Outcomes
  <2>5. CASE response.names # <<>>
    <3>1. Interpret(response) = [outcome |-> "street_ambiguous", bbl |-> None,
                                 candidates |-> Shown(response.names), total |-> Len(response.names)]
      BY <2>1, <2>5 DEF Interpret, Ambiguous, Outcome
    <3> QED BY <2>3, <3>1, ShownNames DEF Attempted, Outcomes
  <2> QED BY <2>4, <2>5
<1>5. CASE response \in [grc : {"13", "unclassified"}, bbl : {None}, names : {<<>>}]
  <2>1. Interpret(response) \in {Outcome("invalid_input"), Outcome("failed")}
    BY <1>5 DEF Interpret
  <2> QED BY <1>2, <2>1 DEF Outcomes
<1> QED BY <1>3, <1>4, <1>5 DEF Response

\* A request is an outage, or appends what it heard.
LEMMA AskingHears ==
  ASSUME TypeOK, NEW c \in Calls, NEW attempt, Asking(c, attempt)
  PROVE  /\ attempt \in Attempted
         /\ attempt.candidates # <<>> => attempt.outcome = "street_ambiguous"
         /\ heard' \in [Calls -> Seq(Response)]
         /\ \A d \in Calls \ {c} : heard'[d] = heard[d]
         /\ \/ attempt = Unavailable /\ heard'[c] = heard[c]
            \/ /\ attempt.outcome # "unavailable"
               /\ Len(heard[c]) \in Nat /\ Len(heard'[c]) = Len(heard[c]) + 1
               /\ attempt = Interpret(heard'[c][Len(heard'[c])])
               /\ \A i \in 1..Len(heard[c]) : heard'[c][i] = heard[c][i]
<1>1. heard \in [Calls -> Seq(Response)] /\ heard[c] \in Seq(Response)
  BY DEF TypeOK
<1>2. CASE attempt = Unavailable /\ UNCHANGED heard
  <2>1. <<>> \in Seq(Streets)
    BY EmptySeq
  <2>2. Unavailable \in Attempted /\ Unavailable.candidates = <<>>
    BY <2>1 DEF Unavailable, Outcome, Attempted, Outcomes
  <2> QED BY <1>1, <1>2, <2>2
<1>3. ASSUME NEW response \in Response, attempt = Interpret(response),
             heard' = [heard EXCEPT ![c] = Append(@, response)]
      PROVE  /\ attempt \in Attempted /\ attempt.outcome # "unavailable"
             /\ attempt.candidates # <<>> => attempt.outcome = "street_ambiguous"
             /\ heard' \in [Calls -> Seq(Response)]
             /\ \A d \in Calls \ {c} : heard'[d] = heard[d]
             /\ Len(heard[c]) \in Nat /\ Len(heard'[c]) = Len(heard[c]) + 1
             /\ attempt = Interpret(heard'[c][Len(heard'[c])])
             /\ \A i \in 1..Len(heard[c]) : heard'[c][i] = heard[c][i]
  <2>1. /\ attempt \in Attempted /\ attempt.outcome # "unavailable"
        /\ attempt.candidates # <<>> => attempt.outcome = "street_ambiguous"
    BY <1>3, Interpreted
  <2>2. heard'[c] = Append(heard[c], response)
    BY <1>1, <1>3
  <2>3. /\ heard'[c] \in Seq(Response) /\ Len(heard'[c]) = Len(heard[c]) + 1
        /\ heard'[c][Len(heard[c]) + 1] = response
        /\ \A i \in 1..Len(heard[c]) : heard'[c][i] = heard[c][i]
    BY <1>1, <2>2, AppendProperties
  <2>4. Len(heard[c]) \in Nat
    BY <1>1, LenProperties
  <2>5. heard' \in [Calls -> Seq(Response)] /\ \A d \in Calls \ {c} : heard'[d] = heard[d]
    BY <1>1, <1>3, <2>2, <2>3
  <2> QED BY <1>3, <2>1, <2>3, <2>4, <2>5
<1> QED BY <1>2, <1>3 DEF Asking

\* What an attempt comes to is a status the tool documents.
LEMMA StatusTyped ==
  ASSUME NEW r \in Attempted
  PROVE  AnswerOf(r) \in [status : Statuses, bbl : Lots \cup {None},
                          candidates : Seq(Streets), truncated : BOOLEAN]
<1>1. r.outcome \in Outcomes /\ r.bbl \in Lots \cup {None} /\ r.candidates \in Seq(Streets)
  BY DEF Attempted
<1>2. Status(r) \in Statuses
  BY <1>1 DEF Status, Statuses, Outcomes
<1> QED BY <1>1, <1>2 DEF AnswerOf

LEMMA InitInvariant == Init => IInv
<1> SUFFICES ASSUME Init PROVE IInv
  OBVIOUS
<1>1. <<>> \in Seq(Streets) /\ <<>> \in Seq(Response)
  BY EmptySeq
<1>2. Unavailable \in Attempted
  BY <1>1 DEF Unavailable, Outcome, Attempted, Outcomes
<1>3. NoAnswer \in [status : Statuses, bbl : Lots \cup {None}, candidates : Seq(Streets), truncated : BOOLEAN]
  BY <1>1 DEF NoAnswer, Statuses
<1>4. TypeOK
  BY <1>1, <1>2, <1>3 DEF Init, TypeOK, Phases, Typed
<1>5. \A c \in Calls : CallInv(c)
  <2>1. Len(<<>>) = 0 /\ Unavailable.candidates = <<>>
    BY DEF Unavailable, Outcome
  <2> QED BY <2>1 DEF Init, CallInv
<1> QED BY <1>4, <1>5 DEF IInv

\* A call that nothing touched stands as it stood.
LEMMA CallUntouched ==
  ASSUME NEW d \in Calls, CallInv(d),
         phase'[d] = phase[d], typed'[d] = typed[d], first'[d] = first[d],
         result'[d] = result[d], answer'[d] = answer[d], heard'[d] = heard[d]
  PROVE  CallInv(d)'
BY DEF CallInv, Settled, Chosen

LEMMA CallStep ==
  ASSUME IInv, NEW c \in Calls, Call(c)
  PROVE  IInv'
<1> USE DEF IInv
<1>1. PICK input \in Typed :
        /\ typed' = [typed EXCEPT ![c] = input]
        /\ IF Refusal(input) = "none"
           THEN Goto(c, "first") /\ UNCHANGED answer
           ELSE Return(c, [NoAnswer EXCEPT !.status = Refusal(input)])
  BY DEF Call
<1>2. phase[c] = "idle" /\ UNCHANGED <<sidecar, first, result, heard>>
  BY DEF Call
<1> DEFINE p == IF Refusal(input) = "none" THEN "first" ELSE "done"
<1>3. phase' = [phase EXCEPT ![c] = p] /\ p \in Phases
  BY <1>1 DEF Goto, Return, Phases
<1>4. <<>> \in Seq(Streets)
  BY EmptySeq
<1>5. [NoAnswer EXCEPT !.status = Refusal(input)]
        \in [status : Statuses, bbl : Lots \cup {None}, candidates : Seq(Streets), truncated : BOOLEAN]
  BY <1>4 DEF NoAnswer, Statuses, Refusal
<1>6. /\ answer' \in [Calls -> [status : Statuses, bbl : Lots \cup {None},
                                candidates : Seq(Streets), truncated : BOOLEAN]]
      /\ \A d \in Calls \ {c} : answer'[d] = answer[d]
  BY <1>1, <1>5 DEF TypeOK, Return
<1>7. typed' \in [Calls -> Typed] /\ phase' \in [Calls -> Phases]
  BY <1>1, <1>3 DEF TypeOK
<1>8. TypeOK'
  BY <1>2, <1>6, <1>7 DEF TypeOK
<1>9. ASSUME NEW d \in Calls, d # c PROVE CallInv(d)'
  BY <1>1, <1>2, <1>3, <1>6, <1>9, CallUntouched DEF TypeOK
<1>10. CallInv(c)'
  <2>1. phase'[c] = p /\ typed'[c] = input /\ heard'[c] = <<>> /\ first'[c] = first[c]
    BY <1>1, <1>2, <1>3 DEF TypeOK, CallInv
  <2>2. Len(heard'[c]) = 0
    BY <2>1
  <2> QED BY <2>1, <2>2 DEF CallInv
<1> QED BY <1>8, <1>9, <1>10

LEMMA FirstAttemptStep ==
  ASSUME IInv, NEW c \in Calls, FirstAttempt(c)
  PROVE  IInv'
<1> USE DEF IInv
<1>1. PICK attempt \in Attempts :
        /\ Asking(c, attempt)
        /\ first' = [first EXCEPT ![c] = attempt]
        /\ IF attempt.outcome \in StreetFailures /\ typed[c].house
           THEN Goto(c, "retry") /\ UNCHANGED result
           ELSE SettleOn(c, attempt)
  BY DEF FirstAttempt
<1>2. phase[c] = "first" /\ UNCHANGED <<sidecar, typed, answer>>
  BY DEF FirstAttempt
<1> DEFINE p == IF attempt.outcome \in StreetFailures /\ typed[c].house THEN "retry" ELSE "settled"
<1>3. phase' = [phase EXCEPT ![c] = p] /\ p \in {"retry", "settled"}
  BY <1>1 DEF Goto, SettleOn
<1>4. /\ attempt \in Attempted /\ heard' \in [Calls -> Seq(Response)]
      /\ attempt.candidates # <<>> => attempt.outcome = "street_ambiguous"
      /\ \A d \in Calls \ {c} : heard'[d] = heard[d]
      /\ \/ attempt = Unavailable /\ heard'[c] = heard[c]
         \/ /\ attempt.outcome # "unavailable"
            /\ Len(heard[c]) \in Nat /\ Len(heard'[c]) = Len(heard[c]) + 1
            /\ attempt = Interpret(heard'[c][Len(heard'[c])])
  BY <1>1, AskingHears
<1>5. /\ result' \in [Calls -> Attempted] /\ first' \in [Calls -> Attempted]
      /\ \A d \in Calls \ {c} : result'[d] = result[d] /\ first'[d] = first[d]
      /\ first'[c] = attempt /\ (p = "settled" => result'[c] = attempt)
  BY <1>1, <1>4 DEF TypeOK, SettleOn
<1>6. phase' \in [Calls -> Phases]
  BY <1>3 DEF TypeOK, Phases
<1>7. TypeOK'
  BY <1>2, <1>4, <1>5, <1>6 DEF TypeOK
<1>8. ASSUME NEW d \in Calls, d # c PROVE CallInv(d)'
  BY <1>2, <1>3, <1>4, <1>5, <1>8, CallUntouched DEF TypeOK
<1>9. CallInv(c)'
  <2>1. phase'[c] = p /\ Refusal(typed'[c]) = "none" /\ heard[c] = <<>>
    BY <1>2, <1>3 DEF TypeOK, CallInv
  <2>2. CASE attempt = Unavailable
    <3>1. p = "settled" /\ result'[c] = Unavailable /\ first'[c] = Unavailable
      BY <1>5, <2>2 DEF Unavailable, Outcome, StreetFailures
    <3>2. Len(heard'[c]) = 0 /\ Unavailable.candidates = <<>>
      BY <1>4, <2>1, <2>2 DEF Unavailable, Outcome
    <3> QED BY <2>1, <3>1, <3>2 DEF CallInv, Settled, Chosen
  <2>3. CASE attempt # Unavailable
    <3>1. Len(heard'[c]) = 1 /\ attempt = Interpret(heard'[c][1])
      BY <1>4, <2>1, <2>3
    <3>2. p = "retry" => attempt.outcome \in StreetFailures /\ typed'[c].house
      BY <1>2
    <3> HIDE DEF p
    <3> QED BY <1>3, <1>4, <1>5, <2>1, <3>1, <3>2 DEF CallInv, Settled, Chosen
  <2> QED BY <2>2, <2>3
<1> QED BY <1>7, <1>8, <1>9

LEMMA RetryStep ==
  ASSUME IInv, NEW c \in Calls, Retry(c)
  PROVE  IInv'
<1> USE DEF IInv
<1>1. PICK attempt \in Attempts : Asking(c, attempt) /\ SettleOn(c, Better(attempt, first[c]))
  BY DEF Retry
<1>2. phase[c] = "retry" /\ UNCHANGED <<sidecar, typed, first, answer>>
  BY DEF Retry
<1> DEFINE kept == Better(attempt, first[c])
<1>3. phase' = [phase EXCEPT ![c] = "settled"] /\ result' = [result EXCEPT ![c] = kept]
  BY <1>1 DEF Goto, SettleOn
<1>4. /\ attempt \in Attempted /\ heard' \in [Calls -> Seq(Response)]
      /\ attempt.candidates # <<>> => attempt.outcome = "street_ambiguous"
      /\ \A d \in Calls \ {c} : heard'[d] = heard[d]
      /\ \/ attempt = Unavailable /\ heard'[c] = heard[c]
         \/ /\ attempt.outcome # "unavailable"
            /\ Len(heard[c]) \in Nat /\ Len(heard'[c]) = Len(heard[c]) + 1
            /\ attempt = Interpret(heard'[c][Len(heard'[c])])
            /\ \A i \in 1..Len(heard[c]) : heard'[c][i] = heard[c][i]
  BY <1>1, AskingHears
<1>5. first[c] \in Attempted /\ kept \in Attempted
  BY <1>4 DEF TypeOK, Better
<1>6. /\ result' \in [Calls -> Attempted] /\ phase' \in [Calls -> Phases]
      /\ result'[c] = kept /\ phase'[c] = "settled"
      /\ \A d \in Calls \ {c} : result'[d] = result[d] /\ phase'[d] = phase[d]
  <2> HIDE DEF kept
  <2> QED BY <1>3, <1>5 DEF TypeOK, Phases
<1>7. TypeOK'
  BY <1>2, <1>4, <1>6 DEF TypeOK
<1>8. ASSUME NEW d \in Calls, d # c PROVE CallInv(d)'
  BY <1>2, <1>4, <1>6, <1>8, CallUntouched
<1>9. CallInv(c)'
  <2>1. /\ Refusal(typed'[c]) = "none" /\ Len(heard[c]) = 1 /\ typed'[c].house /\ first' = first
        /\ first[c].candidates # <<>> => first[c].outcome = "street_ambiguous"
        /\ first[c] = Interpret(heard[c][1]) /\ first[c].outcome \in StreetFailures
    BY <1>2 DEF CallInv
  <2>2. Len(heard[c]) \in Nat
    BY LenProperties DEF TypeOK
  <2>3. CASE attempt = Unavailable
    <3>1. kept = Unavailable /\ kept.outcome \notin StreetFailures
      BY <2>3 DEF Better, Unavailable, Outcome, StreetFailures
    <3>2. heard'[c] = heard[c]
      BY <1>4, <2>3 DEF Unavailable, Outcome
    <3>3. Len(heard'[c]) = 1
      BY <2>1, <3>2
    <3> HIDE DEF kept, IInv
    <3>4. Settled(c)' /\ Chosen(c)'
      BY <1>6, <2>1, <3>1 DEF Settled, Chosen
    <3> QED BY <1>6, <2>1, <3>3, <3>4 DEF CallInv
  <2>4. CASE attempt # Unavailable
    <3>1. /\ Len(heard'[c]) = 2 /\ heard'[c][1] = heard[c][1]
          /\ attempt = Interpret(heard'[c][Len(heard'[c])])
      BY <1>4, <2>1, <2>2, <2>4
    <3>2. \/ kept = attempt /\ attempt.outcome \notin StreetFailures
          \/ kept = first[c]
      BY DEF Better
    <3> HIDE DEF kept, IInv
    <3>3. Settled(c)'
      BY <1>6, <2>1, <3>1, <3>2 DEF Settled
    <3>4. Chosen(c)'
      BY <1>6, <2>1, <3>1, <3>2 DEF Chosen
    <3> QED BY <1>6, <2>1, <3>1, <3>3, <3>4 DEF CallInv
  <2> QED BY <2>3, <2>4
<1> QED BY <1>7, <1>8, <1>9

LEMMA AnswerStep ==
  ASSUME IInv, NEW c \in Calls, Answer(c)
  PROVE  IInv'
<1> USE DEF IInv
<1>1. /\ phase[c] = "settled" /\ UNCHANGED <<sidecar, attempts, heard>>
      /\ phase' = [phase EXCEPT ![c] = "done"]
      /\ answer' = [answer EXCEPT ![c] = AnswerOf(result[c])]
  BY DEF Answer, Return, Goto, AnswerOf
<1>2. result[c] \in Attempted
  BY DEF TypeOK
<1> HIDE DEF IInv
<1>3. AnswerOf(result[c]) \in [status : Statuses, bbl : Lots \cup {None},
                              candidates : Seq(Streets), truncated : BOOLEAN]
  BY <1>2, StatusTyped
<1>4. TypeOK /\ \A d \in Calls : CallInv(d)
  BY DEF IInv
<1>5. /\ phase' \in [Calls -> Phases] /\ phase'[c] = "done" /\ answer'[c] = AnswerOf(result[c])
      /\ \A d \in Calls \ {c} : phase'[d] = phase[d] /\ answer'[d] = answer[d]
  BY <1>1, <1>4 DEF TypeOK, Phases
<1>6. answer' \in [Calls -> [status : Statuses, bbl : Lots \cup {None},
                            candidates : Seq(Streets), truncated : BOOLEAN]]
  BY <1>1, <1>3, <1>4 DEF TypeOK
<1>7. TypeOK'
  BY <1>1, <1>4, <1>5, <1>6 DEF TypeOK, attempts
<1>8. ASSUME NEW d \in Calls, d # c PROVE CallInv(d)'
  BY <1>1, <1>4, <1>5, <1>8, CallUntouched DEF attempts
<1>9. CallInv(c)'
  <2>1. /\ Settled(c) /\ Chosen(c)
        /\ Len(heard[c]) <= IF typed[c].house THEN 2 ELSE 1
        /\ first[c].candidates # <<>> => first[c].outcome = "street_ambiguous"
    BY <1>1, <1>4 DEF CallInv
  <2>2. result' = result /\ heard' = heard /\ first' = first /\ typed' = typed
    BY <1>1 DEF attempts
  <2>3. Settled(c)' /\ Chosen(c)' /\ answer'[c] = AnswerOf(result'[c])
    BY <1>5, <2>1, <2>2 DEF Settled, Chosen
  <2> QED BY <1>5, <2>1, <2>2, <2>3 DEF CallInv, AnswerOf, Status
<1> QED BY <1>7, <1>8, <1>9 DEF IInv

LEMMA NextInvariant == IInv /\ [Next]_vars => IInv'
<1> SUFFICES ASSUME IInv, [Next]_vars PROVE IInv'
  OBVIOUS
<1>1. CASE SidecarFlips
  <2>1. TypeOK'
    BY <1>1 DEF SidecarFlips, attempts, IInv, TypeOK
  <2>2. ASSUME NEW d \in Calls PROVE CallInv(d)'
    BY <1>1, <2>2, CallUntouched DEF SidecarFlips, attempts, IInv
  <2> QED BY <2>1, <2>2 DEF IInv
<1>2. ASSUME NEW c \in Calls, Raise(c) PROVE IInv'
  <2>1. UNCHANGED <<sidecar, typed, first, result, answer, heard>> /\ phase' = [phase EXCEPT ![c] = "raised"]
    BY <1>2 DEF Raise, Goto, attempts
  <2>2. TypeOK'
    BY <2>1 DEF IInv, TypeOK, Phases
  <2>3. ASSUME NEW d \in Calls \ {c} PROVE CallInv(d)'
    <3>1. phase'[d] = phase[d]
      BY <2>1, <2>3 DEF IInv, TypeOK
    <3> QED BY <2>1, <2>3, <3>1, CallUntouched DEF IInv
  <2>4. CallInv(c)'
    <3>1. phase'[c] = "raised"
      BY <2>1 DEF IInv, TypeOK
    <3> QED BY <2>1, <3>1 DEF CallInv, IInv
  <2> QED BY <2>2, <2>3, <2>4 DEF IInv
<1>3. CASE UNCHANGED vars
  <2>1. TypeOK'
    BY <1>3 DEF vars, attempts, IInv, TypeOK
  <2>2. ASSUME NEW d \in Calls PROVE CallInv(d)'
    BY <1>3, <2>2, CallUntouched DEF vars, attempts, IInv
  <2> QED BY <2>1, <2>2 DEF IInv
<1> QED BY <1>1, <1>2, <1>3, CallStep, FirstAttemptStep, RetryStep, AnswerStep DEF Next, Step

LEMMA Invariance == Spec => []IInv
BY InitInvariant, NextInvariant, PTL DEF Spec

-----------------------------------------------------------------------------
\* Types, for any number of calls, lots, streets and names.
THEOREM TypeCorrect == Spec => []TypeOK
<1>1. IInv => TypeOK
  BY DEF IInv
<1> QED BY <1>1, Invariance, PTL

\* What an answered call was settled on, and that what it heard are responses.
LEMMA AnsweredCall ==
  ASSUME IInv, NEW c \in Calls, Answered(c)
  PROVE  /\ Settled(c) /\ Chosen(c) /\ answer[c] = AnswerOf(result[c])
         /\ Len(heard[c]) \in Nat
         /\ \A i \in 1..Len(heard[c]) : heard[c][i] \in Response /\ heard[c][i] \in Heard(c)
<1>1. Settled(c) /\ Chosen(c) /\ answer[c] = AnswerOf(result[c])
  BY DEF IInv, CallInv, Answered
<1>2. heard[c] \in Seq(Response)
  BY DEF IInv, TypeOK
<1>3. \A i \in 1..Len(heard[c]) : heard[c][i] \in Response
  BY <1>2, ElementOfSeq
<1> QED BY <1>1, <1>2, <1>3, LenProperties DEF Heard

\* No outage is reported as a verdict on the address.
THEOREM OutageIsNoVerdict == Spec => []VerdictWasHeard
<1>1. IInv => VerdictWasHeard
  <2> SUFFICES ASSUME IInv, NEW c \in Calls, Answered(c)
               PROVE  \/ answer[c].status = "geocoder_unavailable"
                      \/ \E response \in Heard(c) : answer[c].status = Status(Interpret(response))
    BY DEF VerdictWasHeard
  <2>0. answer[c] = AnswerOf(result[c])
    BY AnsweredCall
  <2>1. answer[c].status = Status(result[c])
    BY <2>0 DEF AnswerOf
  <2>2. CASE result[c] = Unavailable
    BY <2>1, <2>2 DEF Status, Unavailable, Outcome
  <2>3. CASE result[c] # Unavailable
    <3>1. PICK i \in 1..Len(heard[c]) : result[c] = Interpret(heard[c][i])
      BY <2>3, AnsweredCall DEF Settled
    <3> QED BY <2>1, <3>1, AnsweredCall
  <2> QED BY <2>2, <2>3
<1> QED BY <1>1, Invariance, PTL

\* A building that is named is the last lot heard, and the graph holds it.
THEOREM NamedBuildingConfirmed == Spec => []NamedIsConfirmed
<1>1. IInv => NamedIsConfirmed
  <2> SUFFICES ASSUME IInv, NEW c \in Calls, Answered(c), answer[c].status = "resolved"
               PROVE  answer[c].bbl \in Buildings /\ answer[c].bbl = heard[c][Len(heard[c])].bbl
    BY DEF NamedIsConfirmed
  <2>0. answer[c] = AnswerOf(result[c])
    BY AnsweredCall
  <2>1. answer[c].bbl = result[c].bbl /\ Status(result[c]) = "resolved"
    BY <2>0 DEF AnswerOf
  <2>2. result[c].outcome = "resolved" /\ result[c].bbl \in Buildings
    BY <2>1 DEF Status
  <2>3. result[c] = Interpret(heard[c][Len(heard[c])]) /\ Len(heard[c]) \in 1..Len(heard[c])
    BY <2>2, AnsweredCall DEF Settled, StreetFailures, Unavailable, Outcome
  <2>4. heard[c][Len(heard[c])] \in Response
    BY <2>3, AnsweredCall
  <2> QED BY <2>1, <2>2, <2>3, <2>4, Interpreted
<1> QED BY <1>1, Invariance, PTL

\* A list of candidates is the head of what the first spelling brought back.
THEOREM CandidatesFromFirst == Spec => []CandidatesHonest
<1>1. IInv => CandidatesHonest
  <2> SUFFICES ASSUME IInv, NEW c \in Calls, Answered(c), answer[c].status = "street_ambiguous"
               PROVE  /\ answer[c].candidates = Shown(heard[c][1].names)
                      /\ answer[c].truncated <=> Len(heard[c][1].names) > MAX_CANDIDATES
    BY DEF CandidatesHonest
  <2>0. answer[c] = AnswerOf(result[c])
    BY AnsweredCall
  <2>1. /\ answer[c].candidates = result[c].candidates
        /\ answer[c].truncated = (result[c].total > Len(result[c].candidates))
        /\ Status(result[c]) = "street_ambiguous"
    BY <2>0 DEF AnswerOf
  <2>2. result[c].outcome = "street_ambiguous"
    BY <2>1 DEF Status
  <2>3. result[c] = Interpret(heard[c][1]) /\ 1 \in 1..Len(heard[c])
    BY <2>2, AnsweredCall DEF Settled, StreetFailures, Unavailable, Outcome
  <2>4. heard[c][1] \in Response
    BY <2>3, AnsweredCall
  <2>5. /\ heard[c][1].names \in Seq(Streets)
        /\ result[c].candidates = Shown(heard[c][1].names)
        /\ result[c].total = Len(heard[c][1].names)
    BY <2>2, <2>3, <2>4, Interpreted
  <2> QED BY <2>1, <2>5, ShownNames
<1> QED BY <1>1, Invariance, PTL

\* When candidates are lost: an answer that is still about the street hands
\* over the first spelling's list, and any other answer was given after a house
\* number had been split off, by a second response or by an outage in its place.
CandidatesGiveWay ==
  \A c \in Calls : Answered(c) /\ first[c].candidates # <<>> =>
    \/ answer[c].status \in StreetFailures /\ answer[c].candidates = first[c].candidates
    \/ /\ answer[c].status \notin StreetFailures /\ typed[c].house
       /\ answer[c].status = "geocoder_unavailable" \/ Len(heard[c]) = 2

\* A list of candidates is never lost to a second street failure, nor in a call
\* without a house number (_geocode).
THEOREM CandidatesLostToRetryOnly == Spec => []CandidatesGiveWay
<1>1. IInv => CandidatesGiveWay
  <2> SUFFICES ASSUME IInv, NEW c \in Calls, Answered(c), first[c].candidates # <<>>
               PROVE  \/ answer[c].status \in StreetFailures /\ answer[c].candidates = first[c].candidates
                      \/ /\ answer[c].status \notin StreetFailures /\ typed[c].house
                         /\ answer[c].status = "geocoder_unavailable" \/ Len(heard[c]) = 2
    BY DEF CandidatesGiveWay
  <2>0. Chosen(c) /\ answer[c] = AnswerOf(result[c])
    BY AnsweredCall
  <2>1. answer[c].status = Status(result[c]) /\ answer[c].candidates = result[c].candidates
    BY <2>0 DEF AnswerOf
  <2>2. first[c].outcome = "street_ambiguous"
    BY DEF IInv, CallInv
  <2>3. CASE result[c] = first[c]
    BY <2>1, <2>2, <2>3 DEF Status, StreetFailures
  <2>4. CASE result[c] # first[c]
    <3>1. /\ typed[c].house /\ result[c].outcome \notin StreetFailures
          /\ result[c] = Unavailable \/ Len(heard[c]) = 2
      BY <2>0, <2>4 DEF Chosen
    <3>2. Status(result[c]) \notin StreetFailures
      BY <3>1 DEF Status, StreetFailures
    <3>3. result[c] = Unavailable => Status(result[c]) = "geocoder_unavailable"
      BY DEF Status, Unavailable, Outcome
    <3> QED BY <2>1, <3>1, <3>2, <3>3
  <2> QED BY <2>3, <2>4
<1> QED BY <1>1, Invariance, PTL

\* However often the sidecar stops and comes back, a call hears it at most once
\* for each spelling it has: a request is never repeated (geocode.py, resolve).
EachSpellingOnce == \A c \in Calls : Len(heard[c]) <= IF typed[c].house THEN 2 ELSE 1

THEOREM SpellingsAskedOnce == Spec => []EachSpellingOnce
<1>1. IInv => EachSpellingOnce
  BY DEF IInv, CallInv, EachSpellingOnce
<1> QED BY <1>1, Invariance, PTL

=============================================================================

----------------------------- MODULE MCRecords -----------------------------
(***************************************************************************)
(* Three landlords, a raw party, two buildings, one portfolio.  The        *)
(* snapshots vary in one respect at a time: how the parties are named, who *)
(* controls which buildings, or who is connected to whom.                  *)
(***************************************************************************)
EXTENDS Records, TLC

CONSTANTS l1, l2, l3, party, b1, b2, p1, cox, aaron, r, s, llc, aaronCox, mark

MCToken == {"cox", "aaron", "r", "s", "llc"}
MCTokensOf == cox :> {"cox"} @@ aaron :> {"aaron"} @@ r :> {"r"} @@ s :> {"s"} @@ llc :> {"llc"}
              @@ aaronCox :> {"aaron", "cox"} @@ mark :> {}
MCQueries == {<<cox, aaron, r>>, <<aaronCox>>, <<aaron, cox, s>>, <<llc, mark>>, <<mark>>}

Plain ==
  [name |-> l1 :> <<aaronCox>> @@ l2 :> <<cox, llc>> @@ l3 :> <<aaron, llc>> @@ party :> <<r, cox>>,
   owner |-> b1 :> <<cox, llc>> @@ b2 :> None,
   registered |-> b1 :> {party} @@ b2 :> {},
   controls |-> l1 :> {b1} @@ l2 :> {} @@ l3 :> {},
   portfolio |-> b1 :> {} @@ b2 :> {},
   member |-> l1 :> {p1} @@ l2 :> {p1} @@ l3 :> {},
   connected |-> {}]

Named ==
  {[Plain EXCEPT !.name = l1 :> n1 @@ l2 :> n2 @@ l3 :> n3 @@ party :> n4,
                 !.owner = b1 :> n5 @@ b2 :> None,
                 !.registered = b1 :> {party, l2} @@ b2 :> {l3},
                 !.controls = l1 :> {b1} @@ l2 :> both @@ l3 :> {}] :
     n1 \in {<<cox, aaron>>, <<aaron, cox, r>>}, n2 \in {<<aaron, cox, mark>>, <<aaron, s, cox>>, None},
     n3 \in {<<llc>>, <<llc, cox>>}, n4 \in {<<aaronCox, s>>, <<mark>>}, n5 \in {<<cox, llc>>, <<cox, r, aaron>>, <<>>},
     both \in {{}, {b1, b2}}}
Controlled ==
  {[Plain EXCEPT !.controls = c, !.portfolio = p] :
     c \in {f \in [{l1, l2, l3} -> SUBSET {b1, b2}] : f[l3] # {b1} /\ f[l3] # {b2}},
     p \in [{b1, b2} -> SUBSET {p1}]}
Linked ==
  {[Plain EXCEPT !.member = m, !.connected = e, !.controls = l1 :> {b1} @@ l2 :> {b1, b2} @@ l3 :> {}] :
     m \in [{l1, l2, l3} -> SUBSET {p1}],
     e \in SUBSET {[ends |-> {l1, l2}, kind |-> "name"], [ends |-> {l1, l2}, kind |-> "address"],
                   [ends |-> {l1, l3}, kind |-> "address"]}}
MCGraphs == Named \cup Controlled \cup Linked

=============================================================================

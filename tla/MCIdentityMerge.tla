-------------------------- MODULE MCIdentityMerge --------------------------
(***************************************************************************)
(* A small store for TLC: two Outlook, one WhatsApp and two LinkedIn       *)
(* identities, names of three lengths, one of them of somebody else.       *)
(***************************************************************************)
EXTENDS IdentityMerge, TLC

CONSTANTS o1, o2, w1, w2, l1, l2, p1, p2, p3, r1, r2

MCNoName  == "null"
MCName    == {"Ann", "Ann Lee", "Bob"}
MCNameLen == [n \in MCName |-> IF n = "Ann Lee" THEN 7 ELSE 3]
MCTokensOf == ("Ann" :> {"ann"}) @@ ("Ann Lee" :> {"ann", "lee"}) @@ ("Bob" :> {"bob"})
\* l1 and l2 have one name, as the rule retired since required.
ClustersReported == [i \in Identity |-> CASE i = o1 -> "Bob" [] i = w1 -> MCNoName
                                           [] OTHER -> "Ann Lee"]
\* l1 has the address of o1 and its name; o2 has another, and a generic address.
DecisionsReported == [i \in Identity |-> CASE i = o2 -> "Bob" [] i = w1 -> MCNoName
                                            [] OTHER -> "Ann"]
NamesReported    == [i \in Identity |-> CASE i = l1 -> "Ann Lee" [] OTHER -> "Ann"]
ContactsReported == [i \in Identity |-> MCNoName]

EmailPairs  == {<<o1, l1>>}
BridgePairs == {<<o1, w1>>, <<o2, w1>>}
PhonePairs  == {<<o2, w1>>}

Symmetry2 == Permutations({p1, p2})
Symmetry3 == Permutations({p1, p2, p3})
=============================================================================

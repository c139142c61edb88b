-------------------------------- MODULE Dom --------------------------------
(***************************************************************************)
(* The tree of elements that the page scripts work on, as the element stub *)
(* of web/jstest/dom.js keeps it (a browser's does the same where the      *)
(* scripts use it).  A tree is a function from each element to the         *)
(* sequence of its children; a selector is the set of the elements that    *)
(* match it.                                                               *)
(***************************************************************************)
EXTENDS Naturals, Sequences, FiniteSets, SequencesExt

CONSTANTS Nodes, NoNode

ASSUME NoNodeAssumption == NoNode \notin Nodes

Trees == [Nodes -> Seq(Nodes)]

\* new El(tag) for every element: no children, no parent.
NewTree == [n \in Nodes |-> <<>>]

Parents(t, n) == {p \in DOMAIN t : n \in ToSet(t[p])}

\* parentNode, null outside of the tree.
Parent(t, n) == IF Parents(t, n) = {} THEN NoNode ELSE CHOOSE p \in Parents(t, n) : TRUE

FirstChild(t, p) == IF t[p] = <<>> THEN NoNode ELSE t[p][1]

NextSibling(t, n) ==
    LET p == Parent(t, n)
        i == CHOOSE j \in DOMAIN t[p] : t[p][j] = n
    IN IF p = NoNode \/ i = Len(t[p]) THEN NoNode ELSE t[p][i + 1]

Detach(t, n) ==
    LET p == Parent(t, n)
    IN IF p = NoNode THEN t
       ELSE [t EXCEPT ![p] = RemoveAt(@, CHOOSE i \in DOMAIN @ : @[i] = n)]

AppendChild(t, p, n) == [Detach(t, n) EXCEPT ![p] = Append(@, n)]

\* n goes before ref, or last when ref is not a child (any more).
InsertBefore(t, p, n, ref) ==
    LET u == Detach(t, n)
        at == {i \in DOMAIN u[p] : u[p][i] = ref}
    IN IF at = {} THEN AppendChild(t, p, n)
       ELSE [u EXCEPT ![p] = InsertAt(@, CHOOSE i \in at : TRUE, n)]

\* An outerHTML swap: new stands where old stood.
Replaced(t, old, new) ==
    LET u == IF Parent(t, old) = NoNode THEN t
             ELSE InsertBefore(t, Parent(t, old), new, old)
    IN Detach(u, old)

\* contains: n and what is below it, by following the parents up.
Holds(t, n, m) ==
    LET under[x \in Nodes] ==
            x = n \/ (Parent(t, x) # NoNode /\ under[Parent(t, x)])
    IN under[m]

AddEventListener(listeners, f) == Append(listeners, f)

\* dispatch: how often f is called by an event.
Dispatched(listeners, f) == Cardinality({i \in DOMAIN listeners : listeners[i] = f})

\* closest: the nearest of n and its ancestors that matches.
Closest(t, n, sel) ==
    LET up[x \in Nodes \cup {NoNode}] ==
            IF x = NoNode \/ x \in sel THEN x ELSE up[Parent(t, x)]
    IN up[n]

\* walk: what is below n, in document order.
Walk(t, n) ==
    LET below[x \in Nodes] ==
            FoldLeft(LAMBDA out, c : out \o <<c>> \o below[c], <<>>, t[x])
    IN below[n]

\* querySelector: the first, in document order, of what is below n and matches.
QuerySelector(t, n, sel) ==
    LET walk == Walk(t, n)
        found == {c \in sel : c # n /\ Holds(t, n, c)}
        before(c, d) == \E i \in DOMAIN walk : walk[i] = c /\ \A k \in 1..i : walk[k] # d
    IN IF found = {} THEN NoNode
       ELSE CHOOSE c \in found : \A d \in found \ {c} : before(c, d)
=============================================================================

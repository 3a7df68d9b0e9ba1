------------------------------ MODULE MCEditCheck ------------------------------
(* EditCheck for TLC: the edits of one file, or of one file of which symbols *)
(* turn up in another; on types and members, or on overloads and bindings.   *)
EXTENDS EditCheck

MCRow(at, owner, kind, name, sig) ==
    [file |-> "f", at |-> at, owner |-> owner, kind |-> kind, name |-> name, sig |-> sig,
     body |-> IF kind \in Callables \cup Types THEN "same" ELSE NoBody]
MCTypeRows ==
    {MCRow(1, NoOwner, kind, "X", 0) : kind \in {"class", "interface"}}
    \cup {MCRow(2, "X", "method", "m", sig) : sig \in {1, 2}}
    \cup {MCRow(3, "X", "field", "n", 0), MCRow(4, NoOwner, "class", "Y", 0)}
MCValueRows ==
    {MCRow(at, NoOwner, "function", "Z", at % 2) : at \in 5..7}
    \cup {MCRow(8, NoOwner, "constant", "T", 0), MCRow(9, NoOwner, "type", "T", 0)}
MCSides(rows) ==
    {side \in UNION {kSubset(n, rows) : n \in 0..3} :
       /\ \A r, q \in side : r.at = q.at => r = q
       /\ \A r \in side : r.owner = NoOwner \/ \E t \in side : IsParent(t, r)}
MCInG(rows) == {[r EXCEPT !.file = "g", !.at = @ + 10] : r \in rows}
MCSplit(rows) ==
    {after \in {side \cup MCInG(moved) : side \in MCSides(rows),
                  moved \in {s \in MCSides(rows) : \A r \in s : r.kind \in Callables \cup {"class"}}} :
       Cardinality(after) <= 3}
MCDiffs ==
    UNION {[before : MCSides(rows), after : MCSplit(rows), shared : BOOLEAN, unread : {{}}]
           \cup [before : MCSides(rows), after : {{}}, shared : {FALSE}, unread : {{"f"}}] :
             rows \in {MCTypeRows, MCValueRows}}

MCCheckSpec == CheckInit /\ [][CheckNext]_checkVars
=============================================================================

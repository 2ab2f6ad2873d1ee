--------------------------- MODULE MCCanonization ---------------------------
(* Small instances of Canonization: three transactions of one artifact, the *)
(* second a successor of the first, and the ids for the blocks that can be  *)
(* made of them.                                                            *)
EXTENDS Canonization

CONSTANTS t1, t2, t3, a1, b1, b2, b3, b4, b5, s1

MCTxnId == {t1, t2, t3}
MCArtifactId == {a1}
MCBlockId == {b1, b2, b3, b4, b5}
MCArtifactState == {s1}

CertOf(t, prev) == [id |-> t, prev |-> prev, artifact |-> a1, state |-> s1]

Certs == {CertOf(t1, ZeroUuid), CertOf(t2, t1), CertOf(t3, ZeroUuid)}

WellFormed == {[id |-> c.id, artifact |-> a1, cert |-> c] : c \in Certs}

\* Transactions without predecessors: they can be canonized in any order.
Independent == {[r EXCEPT !.cert.prev = ZeroUuid] : r \in WellFormed}

\* A certificate that does not parse is queued like any other.
WithBadCert ==
    {r \in WellFormed : r.id # t3} \cup
    {[id |-> t3, artifact |-> a1, cert |-> BadCert]}

MCBlockReqs ==
    [id : MCBlockId, uuid : MCBlockId, height : 1 .. MaxSubmits,
     prev : MCBlockId \cup {RootBlock},
     txns : UNION {[1 .. n -> Certs \cup {BadCert}
                                \cup {[c EXCEPT !.prev = ZeroUuid] : c \in Certs}] :
                      n \in 1 .. MaxSubmits}]
=============================================================================

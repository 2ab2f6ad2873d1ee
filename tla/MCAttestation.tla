--------------------------- MODULE MCAttestation ---------------------------
(* Three transactions of two artifacts, of which the second continues the    *)
(* first, and the verdicts that agree with that order.                       *)
EXTENDS Attestation

CONSTANTS t1, t2, t3, a1, a2, b1, b2, b3, b4, s1

CertOf(t, prev, a) == [id |-> t, prev |-> prev, artifact |-> a, state |-> s1]

MCTxnId == {t1, t2, t3}
MCArtifactId == {a1, a2}
MCBlockId == {b1, b2, b3, b4}
MCArtifactState == {s1}
MCCerts == {CertOf(t1, ZeroUuid, a1), CertOf(t2, t1, a1), CertOf(t3, ZeroUuid, a2)}
MCRequests == {[id |-> c.id, artifact |-> c.artifact, cert |-> c] : c \in MCCerts}
MCVerifiedSets == {{}, {t1, t3}, {t1, t2, t3}}
=============================================================================

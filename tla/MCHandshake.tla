---------------------------- MODULE MCHandshake ----------------------------
(* Small instances of Handshake.                                            *)
EXTENDS Handshake, TLC

CONSTANTS c1, c2, kagent, k1, k2, kother

Entity(id, pubkey, caps) == [id |-> id, pubkey |-> pubkey, caps |-> caps]
As(id, key, version) == [id |-> id, key |-> key, version |-> version]
Pair(x, y) == (c1 :> x) @@ (c2 :> y)
One == Entity("e1", k1, <<"read", "write">>)
Two == Entity("e2", k2, <<"read">>)

Setup(entities, clients, attempts, faults) ==
    [id |-> "agent", key |-> kagent, entities |-> entities, client |-> clients,
     attempts |-> attempts, faults |-> faults]

\* Two entities, each with its client.
Orderly == Setup(<<One, Two>>, Pair(As("e1", k1, 1), As("e2", k2, 1)), Pair(1, 1), {"leave"})
\* Clients that are refused: an unknown entity, another version; a key that is not the
\* one of the entity.
Strangers == Setup(<<One>>, Pair(As("e3", kother, 1), As("e1", k1, 2)), Pair(1, 1), {})
WrongKey == Setup(<<One>>, Pair(As("e1", kother, 1), As("e1", k1, 1)), Pair(1, 1), {})
\* The same client comes again, through shutdown, failures of the supervisor and lack of
\* memory.
Stopping == Setup(<<Entity("e1", k1, <<>>)>>, Pair(As("e1", k1, 1), As("e1", k1, 1)), Pair(2, 0),
                  {"stop", "leave"})
Failing == Setup(<<Entity("e1", k1, <<>>)>>, Pair(As("e1", k1, 1), As("e1", k1, 1)), Pair(2, 0),
                 {"start", "supervisor", "memory"})
\* The random service fails while two handshakes need it.
Unlucky == Setup(<<Entity("e1", k1, <<>>)>>, Pair(As("e1", k1, 1), As("e1", k1, 1)), Pair(2, 1),
                 {"random"})
\* Configurations with something in it twice.
TwiceEntity == Setup(<<One, Entity("e1", k1, <<>>)>>, Pair(As("e1", k1, 1), As("e1", k1, 1)),
                     Pair(1, 0), {})
TwiceCapability == Setup(<<Entity("e1", k1, <<"read", "read">>)>>,
                         Pair(As("e1", k1, 1), As("e1", k1, 1)), Pair(1, 0), {})

MCSetups == {Orderly, Strangers, WrongKey, Stopping, Failing, Unlucky, TwiceEntity, TwiceCapability}
=============================================================================

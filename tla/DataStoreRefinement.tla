------------------------ MODULE DataStoreRefinement ------------------------
(* DataStore implements Ledger: the mapping from the tables of the          *)
(* committed database to the queue and the chain.                           *)
EXTENDS DataStore

\* The queued transactions; the order is the history field "at", which
\* QueueIsFifo shows to be the order of the links.
PendingOf(d) ==
    {[id |-> t, at |-> d.pq[t].at, attested |-> d.pq[t].state = "ATTESTED"] :
        t \in Queued(d)}

\* The chain, by the height index that block_id_by_height_get reads.
ChainOf(d) ==
    [h \in DOMAIN d.height |->
        [id |-> d.height[h],
         txns |-> LET txns == d.block[d.height[h]].txns
                  IN  [i \in DOMAIN txns |-> txns[i].id]]]

L == INSTANCE Ledger WITH
        Arrival <- 1 .. MaxSubmits,
        pending <- PendingOf(db),
        chain <- ChainOf(db)

\* The data service implements the ledger: whatever the writers do, fail to do
\* or are interrupted in, readers see transactions join the queue at its end,
\* leave it one by one or get attested in place, and blocks join the chain with
\* all of their transactions at once.  (dataservice_transaction_submit, _drop,
\* _promote, dataservice_block_make)
ImplementsLedger == L!Spec
=============================================================================

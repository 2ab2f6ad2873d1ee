------------------------------- MODULE Ledger -------------------------------
(***************************************************************************)
(* What the data service promises to the rest of the agent: a queue of    *)
(* pending transactions, kept in order of arrival, and a chain of blocks  *)
(* that only ever grows at its end.  A block takes its transactions from  *)
(* the queue, all of them in the one step that adds it to the chain.      *)
(*                                                                         *)
(* DataStore implements this with five tables of linked nodes and writers *)
(* that can fail half way; DataStoreRefinement gives the mapping.         *)
(***************************************************************************)
EXTENDS Naturals, Sequences

CONSTANTS
    TxnId,     \* transactions
    BlockId,   \* blocks
    Arrival    \* the numbers that order arrivals

VARIABLES
    pending,   \* a set of [id, at, attested]
    chain      \* a sequence of [id, txns]

vars == <<pending, chain>>

PendingIds == {e.id : e \in pending}
ChainIds == {chain[h].id : h \in DOMAIN chain}
ChainTxns == UNION {{chain[h].txns[i] : i \in DOMAIN chain[h].txns} : h \in DOMAIN chain}

Init == pending = {} /\ chain = <<>>

\* A transaction joins the queue behind everything that is pending.
Enqueue(e) ==
    /\ e.id \in TxnId \ PendingIds
    /\ e.at \in Arrival
    /\ \A f \in pending : f.at < e.at
    /\ pending' = pending \cup {e}
    /\ UNCHANGED chain

Remove(e) ==
    /\ pending' = pending \ {e}
    /\ UNCHANGED chain

\* Attestation keeps the transaction's place in the queue.
Attest(e) ==
    /\ pending' = (pending \ {e}) \cup {[e EXCEPT !.attested = TRUE]}
    /\ UNCHANGED chain

\* The new last block of the chain: a new id, and a list of pending
\* transactions, none of them twice and none of them canonized before.
AppendBlock ==
    /\ DOMAIN chain' = 1 .. Len(chain) + 1
    /\ \A h \in DOMAIN chain : chain'[h] = chain[h]
    /\ LET new == chain'[Len(chain) + 1]
           ids == {new.txns[i] : i \in DOMAIN new.txns}
       IN  /\ new.id \in BlockId \ ChainIds
           /\ ids # {}
           /\ ids \subseteq PendingIds \ ChainTxns
           /\ \A i, j \in DOMAIN new.txns : new.txns[i] = new.txns[j] => i = j
           /\ pending' = {e \in pending : e.id \notin ids}

Next ==
    \/ \E e \in pending' \ pending : Enqueue(e)
    \/ \E e \in pending : Remove(e) \/ Attest(e)
    \/ AppendBlock

Spec == Init /\ [][Next]_vars
=============================================================================

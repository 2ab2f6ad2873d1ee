----------------------------- MODULE MCDataApi -----------------------------
(* Two transactions of one artifact, two blocks, two slots, and two child     *)
(* contexts: one that may do everything, one that may only read blocks.       *)
EXTENDS DataApi

CONSTANTS t1, t2, a1, b1, b2, s1, k1, v1

MCTxnId == {t1, t2}
MCArtifactId == {a1}
MCBlockId == {b1, b2}
MCArtifactState == {s1}
MCSettingKey == {k1}

First == [id |-> t1, prev |-> ZeroUuid, artifact |-> a1, state |-> s1]
Second == [id |-> t2, prev |-> t1, artifact |-> a1, state |-> s1]

MCRequests == {[id |-> c.id, artifact |-> c.artifact, cert |-> c] : c \in {First, Second}}

Block(id, height, prev, txns) ==
    [id |-> id, uuid |-> id, height |-> height, prev |-> prev, txns |-> txns]

MCBlockReqs ==
    {Block(b1, 1, RootBlock, <<First>>), Block(b1, 1, RootBlock, <<First, Second>>),
     Block(b2, 2, b1, <<Second>>)}

MCRootCaps == AppCap \cup {"LL_CHILD_CONTEXT_CREATE", "LL_CHILD_CONTEXT_CLOSE"}

Body(b) == [uuid |-> b.uuid, height |-> b.height, prev |-> b.prev, txns |-> b.txns]

\* Requests that are cut short or have no known method, which no client function sends.
CutShort ==
    {<<>>, <<"LL_UNKNOWN">>, <<"APP_BLOCK_READ", 0>>, <<"APP_BLOCK_WRITE", 0, b1>>,
     <<"LL_ROOT_CONTEXT_CREATE", 1>>, <<"LL_CHILD_CONTEXT_CLOSE">>}

MCCalls ==
    {[api |-> "root_context_init", size |-> 1, datadir |-> <<"dir">>],
     [api |-> "root_context_reduce_caps", caps |-> MCRootCaps],
     [api |-> "child_context_create", caps |-> MCRootCaps],
     [api |-> "child_context_create",
      caps |-> {"APP_BLOCK_READ", "APP_BLOCK_ID_LATEST_READ"}],
     [api |-> "global_settings_get", child |-> 1, key |-> k1],
     [api |-> "global_settings_set", child |-> 1, key |-> k1, val |-> <<v1>>],
     [api |-> "global_settings_set", child |-> 0, key |-> k1, val |-> <<v1, v1>>],
     [api |-> "transaction_get_first", child |-> 1],
     [api |-> "latest_block_id_get", child |-> 1],
     [api |-> "latest_block_id_get", child |-> 2],
     [api |-> "artifact_get", child |-> 1, id |-> a1]}
    \cup {[api |-> "child_context_close", child |-> i] : i \in 0 .. 1}
    \cup {[api |-> "transaction_submit", child |-> 1, id |-> t1, artifact |-> a1,
           cert |-> First]}
    \cup {[api |-> "transaction_get", child |-> 1, id |-> t] : t \in {t2, ZeroUuid}}
    \cup {[api |-> "transaction_drop", child |-> 1, id |-> t1],
          [api |-> "transaction_promote", child |-> 1, id |-> t1]}
    \cup {[api |-> "block_make", child |-> 1, id |-> b.id, cert |-> <<Body(b)>>] :
             b \in {c \in MCBlockReqs : Len(c.txns) = 2 \/ c.height = 2}}
    \cup {[api |-> "block_get", child |-> 0, id |-> b1, read_cert |-> TRUE],
          [api |-> "block_get", child |-> 1, id |-> b1, read_cert |-> FALSE],
          [api |-> "block_get", child |-> 1, id |-> RootBlock, read_cert |-> TRUE],
          [api |-> "block_get", child |-> 1, id |-> FFUuid, read_cert |-> TRUE]}
    \cup {[api |-> "block_id_by_height_get", child |-> 1, height |-> 2],
          [api |-> "canonized_transaction_get", child |-> 1, id |-> t1, read_cert |-> TRUE],
          [api |-> "canonized_transaction_get", child |-> 1, id |-> t2, read_cert |-> FALSE]}
    \cup {[api |-> "raw", msg |-> m] : m \in CutShort}
=============================================================================

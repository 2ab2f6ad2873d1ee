---------------------------- MODULE DataContexts ----------------------------
(***************************************************************************)
(* The authority of a data service process: the root context, whose       *)
(* capabilities the supervisor sets up and then reduces, and the child    *)
(* contexts, a fixed array of slots with a free list, through which every *)
(* other operation is authorised.                                         *)
(*                                                                         *)
(* A data service answers one request at a time, so every dispatch        *)
(* function is one step.  A client names a child context by its index in  *)
(* the array, and indexes are used again, most recently closed first.     *)
(***************************************************************************)
EXTENDS Naturals, Sequences

CONSTANTS
    AppCap,        \* the capabilities of the application operations
    RootCreate,    \* DATASERVICE_API_CAP_LL_ROOT_CONTEXT_CREATE
    ReduceCaps,    \* DATASERVICE_API_CAP_LL_ROOT_CONTEXT_REDUCE_CAPS
    ChildCreate,   \* DATASERVICE_API_CAP_LL_CHILD_CONTEXT_CREATE
    ChildClose,    \* DATASERVICE_API_CAP_LL_CHILD_CONTEXT_CLOSE
    MaxChildContexts

Cap == AppCap \cup {RootCreate, ReduceCaps, ChildCreate, ChildClose}

Slot == 0 .. MaxChildContexts - 1

ASSUME CapAssumption ==
    /\ RootCreate \notin AppCap \cup {ReduceCaps, ChildCreate, ChildClose}
    /\ ChildCreate \notin AppCap \cup {ReduceCaps, ChildClose}
    /\ MaxChildContexts \in Nat \ {0}

VARIABLES
    apicaps,     \* the capabilities of the root context
    children,    \* slot -> [open, caps, granted]; granted is history: what the
                 \* root context had when the child was made
    child_head,  \* the free list, as the sequence of its slots
    running,     \* whether the event loop still runs
    reply        \* the last response: the child's index and the status

vars == <<apicaps, children, child_head, running, reply>>
-----------------------------------------------------------------------------
Closed == [open |-> FALSE, caps |-> {}, granted |-> {}]

Answer(op, i, status) == [op |-> op, index |-> i, status |-> status]

\* instance_create pushes the slots one after the other.
Init ==
    /\ apicaps = {RootCreate}
    /\ children = [i \in Slot |-> Closed]
    /\ child_head = [n \in 1 .. MaxChildContexts |-> MaxChildContexts - n]
    /\ running = TRUE
    /\ reply = Answer("none", 0, "SUCCESS")

\* A request that the root context must have a capability for.
Authorised(op, cap) ==
    reply' = Answer(op, 0, IF cap \in apicaps THEN "SUCCESS" ELSE "NOT_AUTHORIZED")

\* The capabilities are set before the database is opened, whatever becomes of
\* that.
RootContextInit ==
    /\ running
    /\ apicaps' = IF RootCreate \in apicaps THEN Cap \ {RootCreate} ELSE apicaps
    /\ \/ Authorised("root_init", RootCreate)
       \/ RootCreate \in apicaps /\ reply' = Answer("root_init", 0, "OPEN_FAILURE")
    /\ UNCHANGED <<children, child_head, running>>

\* Faulty variant: the capabilities are replaced instead of intersected.
ReplaceCapabilities(caps) ==
    /\ running
    /\ apicaps' = IF ReduceCaps \in apicaps THEN caps ELSE apicaps
    /\ Authorised("reduce_caps", ReduceCaps)
    /\ UNCHANGED <<children, child_head, running>>

RootContextReduceCapabilities(caps) ==
    /\ running
    /\ apicaps' = IF ReduceCaps \in apicaps THEN apicaps \cap caps ELSE apicaps
    /\ Authorised("reduce_caps", ReduceCaps)
    /\ UNCHANGED <<children, child_head, running>>

\* The capabilities of a new child, which cannot create children itself.
ChildCaps(caps) == (apicaps \cap caps) \ {ChildCreate}

\* dataservice_child_details_create takes the slot at the head of the free list,
\* and dataservice_child_context_create fills it.
ChildContextCreate(caps) ==
    /\ running
    /\ child_head # <<>>
    /\ ChildCreate \in apicaps
    /\ children' = [children EXCEPT ![Head(child_head)] =
                       [open |-> TRUE, caps |-> ChildCaps(caps), granted |-> apicaps]]
    /\ child_head' = Tail(child_head)
    /\ reply' = Answer("child_create", Head(child_head), "SUCCESS")
    /\ UNCHANGED <<apicaps, running>>

\* Faulty variant: the slot that was taken is not given back.
ChildContextCreateLeaks ==
    /\ running
    /\ child_head' = IF child_head = <<>> THEN <<>> ELSE Tail(child_head)
    /\ reply' = Answer("child_create", 0,
                       IF child_head = <<>> THEN "MAX_REACHED" ELSE "CREATE_FAILURE")
    /\ UNCHANGED <<apicaps, children, running>>

\* The free list is empty; or the root context may not create children, or the
\* response cannot be encoded, and the slot that was taken is given back.
ChildContextCreateFails ==
    /\ running
    /\ reply' = Answer("child_create", 0,
                       IF child_head = <<>> THEN "MAX_REACHED" ELSE "CREATE_FAILURE")
    /\ UNCHANGED <<apicaps, children, child_head, running>>

PushFront(s, x) == [n \in 1 .. Len(s) + 1 |-> IF n = 1 THEN x ELSE s[n - 1]]

\* dataservice_child_context_lookup succeeds.
Lookup(i) == i \in Slot /\ children[i].open

\* The child context may be closed.
MayClose(i) == Lookup(i) /\ ChildClose \in children[i].caps

\* dataservice_child_context_close clears the context, and
\* dataservice_child_details_delete pushes the slot on the free list.
ChildContextClose(i) ==
    /\ running
    /\ MayClose(i)
    /\ children' = [children EXCEPT ![i] = Closed]
    /\ child_head' = PushFront(child_head, i)
    /\ reply' = Answer("child_close", i, "SUCCESS")
    /\ UNCHANGED <<apicaps, running>>

\* The index is out of range, the slot is not open, or the child context lacks
\* the capability, in which case it stays open.
ChildContextCloseFails(i) ==
    /\ running
    /\ ~MayClose(i)
    /\ reply' = Answer("child_close", i,
                       CASE i \notin Slot -> "BAD_INDEX"
                         [] i \in Slot /\ ~Lookup(i) -> "INVALID"
                         [] OTHER -> "DELETE_FAILURE")
    /\ UNCHANGED <<apicaps, children, child_head, running>>

\* An unknown method, a root context request that cannot be decoded, or a
\* response that cannot be written ends the event loop.
ExitEventLoop ==
    /\ running
    /\ running' = FALSE
    /\ UNCHANGED <<apicaps, children, child_head, reply>>

Index == 0 .. MaxChildContexts

Next ==
    \/ RootContextInit
    \/ \E caps \in SUBSET Cap :
          RootContextReduceCapabilities(caps) \/ ChildContextCreate(caps)
    \/ ChildContextCreateFails
    \/ \E i \in Index : ChildContextClose(i) \/ ChildContextCloseFails(i)
    \/ ExitEventLoop

Spec == Init /\ [][Next]_vars
-----------------------------------------------------------------------------
Child == [open : BOOLEAN, caps : SUBSET Cap, granted : SUBSET Cap]

\* Type invariant of the instance.
TypeOK ==
    /\ apicaps \in SUBSET Cap
    /\ children \in [Slot -> Child]
    /\ child_head \in Seq(Slot)
    /\ running \in BOOLEAN
    /\ reply \in [op : {"none", "root_init", "reduce_caps", "child_create",
                        "child_close"},
                  index : Index,
                  status : {"SUCCESS", "NOT_AUTHORIZED", "OPEN_FAILURE",
                            "MAX_REACHED", "CREATE_FAILURE", "BAD_INDEX",
                            "INVALID", "DELETE_FAILURE"}]

\* Every slot is either open or on the free list, and on the free list once: no
\* sequence of creations and closings loses a slot, or hands one out while it
\* is in use.  (dataservice_child_details_create, dataservice_child_details_delete)
SlotsAccountedFor ==
    /\ \A i \in Slot : ~children[i].open <=> \E n \in DOMAIN child_head : child_head[n] = i
    /\ \A m, n \in DOMAIN child_head : child_head[m] = child_head[n] => m = n

\* A child context never holds more than the root context had when it was made,
\* never the capability to make children, and a slot that is not in use holds no
\* capability at all.  (dataservice_child_context_create, _close)
ChildWithinGrant ==
    \A i \in Slot :
        /\ children[i].caps \subseteq children[i].granted \ {ChildCreate}
        /\ ~children[i].open => children[i].caps = {}

\* Authority is never regained: once the root context is initialised, no request
\* adds a capability to it, nor to a child context that stays open.
\* (dataservice_root_context_init, dataservice_root_context_reduce_capabilities)
AuthorityOnlyShrinks ==
    [][ /\ RootCreate \notin apicaps => apicaps' \subseteq apicaps
        /\ \A i \in Slot :
             children[i].open /\ children'[i].open =>
                 children'[i].caps \subseteq children[i].caps ]_vars

=============================================================================

-------------------------------- MODULE Websockets --------------------------------
(***************************************************************************)
(* The websockets (internal/websockets).  Two goroutines of one job: the   *)
(* first ("serve") writes the price of every pool to its subscribers when  *)
(* the aggregates have been refreshed, the second ("read") polls the       *)
(* connections for instructions.  Handlers of the HTTP server add          *)
(* connections.  What is subscribed is behind assetMutex, a sync.RWMutex:  *)
(* a writer that waits keeps new readers out, whoever they are.            *)
(***************************************************************************)
EXTENDS Naturals, FiniteSets, TLC

CONSTANTS Pools, FDs, connectionLimit
INIT_FLUSH_COUNT == 1
MAX_FLUSH_ATTEMPT == 3

VARIABLES
    cancelled,          \* the context is
    WebsocketNotify,    \* pings in the channel, 2 at most
    upgrading,          \* handlers that have seen room and not added their connection yet
    connections,        \* the file descriptors of the connections
    assetFDs,           \* asset :> file descriptor :> connection attempts
    reading,            \* write() holds assetMutex for reading
    pending,            \* goroutines that wait for assetMutex, or hold it, for writing
    at,                 \* where each goroutine is
    fd, asset, left,    \* its file descriptor, its asset and what its loop over assets has left
    pools, pool, unsent,    \* of serve: pools not written yet, update.Asset and range assetConns
    readable            \* of read: connections with an event that are not looked at yet

context == <<cancelled, WebsocketNotify>>
room == <<upgrading, connections>>
locals == <<fd, asset, left>>
update == <<pools, pool, unsent>>
vars == <<context, room, assetFDs, reading, pending, at, locals, update, readable>>

Goroutines == {"serve", "read"}

Init ==
    /\ cancelled = FALSE /\ WebsocketNotify = 0
    /\ upgrading = 0 /\ connections = {} /\ assetFDs = <<>>
    /\ reading = FALSE /\ pending = {}
    /\ at = [g \in Goroutines |-> IF g = "serve" THEN "wait" ELSE "poll"]
    /\ fd = [g \in Goroutines |-> 0] /\ asset = [g \in Goroutines |-> ""]
    /\ left = [g \in Goroutines |-> {}]
    /\ pools = {} /\ pool = "" /\ unsent = {} /\ readable = {}

Subscribed(a) == IF a \in DOMAIN assetFDs THEN DOMAIN assetFDs[a] ELSE {}

\* A section that only reads is one step.  One that writes waits first: Lock, and MayWrite where
\* it goes on.
MayRead == pending = {}
MayWrite == ~reading
Lock(g) == pending' = pending \cup {g}
Unlock(g) == pending' = pending \ {g}
GoTo(g, place) == at' = [at EXCEPT ![g] = place]

-----------------------------------------------------------------------------
(* The world around.                                                       *)

Cancel ==
    /\ ~cancelled /\ cancelled' = TRUE
    /\ UNCHANGED <<WebsocketNotify, room, assetFDs, reading, pending, at, locals, update, readable>>
WebsocketsPing ==
    /\ WebsocketNotify < 2 /\ WebsocketNotify' = WebsocketNotify + 1
    /\ UNCHANGED <<cancelled, room, assetFDs, reading, pending, at, locals, update, readable>>

\* The limit is looked at before the upgrade, and the connection is added after it.
WsHandler ==
    /\ Cardinality(connections) < connectionLimit
    /\ upgrading + Cardinality(connections) < Cardinality(FDs)
    /\ upgrading' = upgrading + 1
    /\ UNCHANGED <<context, connections, assetFDs, reading, pending, at, locals, update, readable>>
Add ==
    /\ upgrading > 0 /\ upgrading' = upgrading - 1
    /\ \/ UNCHANGED connections
       \/ \E new \in FDs \ connections : connections' = connections \cup {new}
    /\ UNCHANGED <<context, assetFDs, reading, pending, at, locals, update, readable>>

-----------------------------------------------------------------------------
(* Leaving pools, by either goroutine.                                     *)

\* clearConnEntirely: from all the assets there are, and then the connection itself.
clearConnEntirely(g) ==
    /\ at[g] = "clear" /\ MayRead
    /\ left' = [left EXCEPT ![g] = DOMAIN assetFDs]
    /\ GoTo(g, "leave")
    /\ UNCHANGED <<context, room, assetFDs, reading, pending, fd, asset, update, readable>>

\* "leave" is for good, "unsubscribe" on demand.
Deleting == "leave" :> "delete" @@ "unsubscribe" :> "delete one"
unsubscribeFromPools(g) ==
    /\ at[g] \in DOMAIN Deleting /\ MayRead
    /\ \E a \in left[g] :
          /\ left' = [left EXCEPT ![g] = @ \ {a}]
          /\ IF fd[g] \in Subscribed(a)
             THEN asset' = [asset EXCEPT ![g] = a] /\ GoTo(g, Deleting[at[g]]) /\ Lock(g)
             ELSE UNCHANGED <<at, asset, pending>>
    /\ UNCHANGED <<context, room, assetFDs, reading, fd, update, readable>>
deleteSubscription(g) ==
    /\ \E place \in DOMAIN Deleting : at[g] = Deleting[place] /\ GoTo(g, place)
    /\ MayWrite
    /\ assetFDs' = [assetFDs EXCEPT ![asset[g]] = [f \in DOMAIN @ \ {fd[g]} |-> @[f]]]
    /\ Unlock(g)
    /\ UNCHANGED <<context, room, reading, locals, update, readable>>

\* messageAndDisconnect, whether the message gets there or not.  A connection that epoll does not let
\* go stays.  write() goes on by setting the count of the connection it has cleared.
messageAndDisconnect(g) ==
    /\ at[g] = "leave" /\ left[g] = {}
    /\ \E gone \in {{}, {fd[g]}} : connections' = connections \ gone
    /\ IF g = "serve" THEN GoTo(g, "reset") /\ Lock(g) ELSE GoTo(g, "next") /\ UNCHANGED pending
    /\ UNCHANGED <<context, upgrading, assetFDs, reading, locals, update, readable>>

-----------------------------------------------------------------------------
(* serve: waitForBlock, notifyClients, write.                              *)

waitForBlock ==
    /\ at["serve"] = "wait"
    /\ \/ cancelled /\ GoTo("serve", "join") /\ UNCHANGED <<WebsocketNotify, pools>>
       \/ /\ ~cancelled /\ WebsocketNotify > 0
          /\ WebsocketNotify' = 0
          /\ pools' = Pools
          /\ GoTo("serve", "notify")
    /\ UNCHANGED <<cancelled, room, assetFDs, reading, pending, locals, pool, unsent, readable>>

notifyClients ==
    /\ at["serve"] = "notify"
    /\ \/ pools = {} /\ GoTo("serve", "wait") /\ UNCHANGED <<update, reading>>
       \/ \E p \in pools :
             /\ MayRead
             /\ pools' = pools \ {p} /\ pool' = p
             /\ unsent' = Subscribed(p)
             /\ reading' = TRUE
             /\ GoTo("serve", "write")
    /\ UNCHANGED <<context, room, assetFDs, pending, locals, readable>>

\* A flush that fails is counted, behind the same mutex, which is still held for reading.  A
\* message that cannot be copied ends the update.
write ==
    /\ at["serve"] = "write"
    /\ \/ /\ unsent = {} /\ reading' = FALSE /\ GoTo("serve", "notify")
          /\ UNCHANGED <<unsent, fd, pending>>
       \/ unsent # {} /\ unsent' = {} /\ UNCHANGED <<at, reading, fd, pending>>
       \/ \E f \in unsent :
             /\ unsent' = unsent \ {f} /\ fd' = [fd EXCEPT !["serve"] = f]
             /\ UNCHANGED reading
             /\ \/ UNCHANGED <<at, pending>>
                \/ assetFDs[pool][f] >= MAX_FLUSH_ATTEMPT /\ GoTo("serve", "clear") /\ UNCHANGED pending
                \/ assetFDs[pool][f] < MAX_FLUSH_ATTEMPT /\ GoTo("serve", "count") /\ Lock("serve")
    /\ UNCHANGED <<context, room, assetFDs, asset, left, pools, pool, readable>>
countAttempt ==
    /\ at["serve"] \in {"count", "reset"} /\ MayWrite
    /\ assetFDs' = [assetFDs EXCEPT ![pool] =
          (fd["serve"] :> IF at["serve"] = "count" THEN @[fd["serve"]] + 1 ELSE INIT_FLUSH_COUNT) @@ @]
    /\ Unlock("serve") /\ GoTo("serve", "write")
    /\ UNCHANGED <<context, room, reading, locals, update, readable>>

\* readJob.MustWait
serveEnds ==
    /\ at["serve"] = "join" /\ at["read"] = "done"
    /\ GoTo("serve", "done")
    /\ UNCHANGED <<context, room, assetFDs, reading, pending, locals, update, readable>>

-----------------------------------------------------------------------------
(* read: readMessagesWaiting.                                              *)

\* The job ends when the context is cancelled, and when epoll fails.
readMessagesWaiting ==
    /\ at["read"] = "poll"
    /\ \/ GoTo("read", "done") /\ UNCHANGED readable
       \/ ~cancelled /\ readable' \in SUBSET connections \ {{}} /\ GoTo("read", "next")
    /\ UNCHANGED <<context, room, assetFDs, reading, pending, locals, update>>

\* An instruction subscribes or unsubscribes; what cannot be read, or is none, clears.
instruction ==
    /\ at["read"] = "next"
    /\ \/ readable = {} /\ GoTo("read", "poll") /\ UNCHANGED <<readable, fd, left>>
       \/ \E f \in readable :
             /\ readable' = readable \ {f} /\ fd' = [fd EXCEPT !["read"] = f]
             /\ \/ GoTo("read", "clear") /\ UNCHANGED left
                \/ \E assets \in SUBSET Pools \ {{}} : \E message \in {"subscribe", "unsubscribe"} :
                      left' = [left EXCEPT !["read"] = assets] /\ GoTo("read", message)
    /\ UNCHANGED <<context, room, assetFDs, reading, pending, asset, update>>
instructionDone ==
    /\ at["read"] \in {"subscribe", "unsubscribe"} /\ left["read"] = {}
    /\ GoTo("read", "next")
    /\ UNCHANGED <<context, room, assetFDs, reading, pending, locals, update, readable>>

\* Each asset: is it known, is the connection there already, and only then the write.
subscribeToPools ==
    /\ at["read"] = "subscribe" /\ MayRead
    /\ \E a \in left["read"] :
          /\ left' = [left EXCEPT !["read"] = @ \ {a}] /\ asset' = [asset EXCEPT !["read"] = a]
          /\ IF a \in DOMAIN assetFDs THEN GoTo("read", "check") /\ UNCHANGED pending
             ELSE GoTo("read", "new") /\ Lock("read")
    /\ UNCHANGED <<context, room, assetFDs, reading, fd, update, readable>>
checkSubscribed ==
    /\ at["read"] = "check" /\ MayRead
    /\ IF fd["read"] \in Subscribed(asset["read"]) THEN GoTo("read", "subscribe") /\ UNCHANGED pending
       ELSE GoTo("read", "add") /\ Lock("read")
    /\ UNCHANGED <<context, room, assetFDs, reading, locals, update, readable>>
addSubscription ==
    /\ at["read"] \in {"new", "add"} /\ MayWrite
    /\ LET before == IF at["read"] = "new" THEN <<>> ELSE assetFDs[asset["read"]]
       IN  assetFDs' = (asset["read"] :> ((fd["read"] :> INIT_FLUSH_COUNT) @@ before)) @@ assetFDs
    /\ Unlock("read") /\ GoTo("read", "subscribe")
    /\ UNCHANGED <<context, room, reading, locals, update, readable>>

-----------------------------------------------------------------------------
Leave(g) ==
    \/ clearConnEntirely(g) \/ unsubscribeFromPools(g) \/ deleteSubscription(g) \/ messageAndDisconnect(g)
serve ==
    \/ waitForBlock \/ notifyClients \/ write \/ countAttempt \/ serveEnds
    \/ Leave("serve")
read ==
    \/ readMessagesWaiting \/ instruction \/ instructionDone
    \/ subscribeToPools \/ checkSubscribed \/ addSubscription
    \/ Leave("read")
Around == Cancel \/ WebsocketsPing \/ WsHandler \/ Add

Next == serve \/ read \/ Around
Spec == Init /\ [][Next]_vars

\* The scheduler runs each goroutine that can go on.
FairSpec == Spec /\ WF_vars(serve) /\ WF_vars(read)

\* The comment on Init: "Websockets can be stopped by canceling the context."  (A flush that fails
\* while write() holds assetMutex for reading makes it wait for itself; the job never ends.)
StopsWhenCancelled == cancelled ~> at["serve"] = "done"

=============================================================================

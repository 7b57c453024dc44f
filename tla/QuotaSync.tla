------------------------------ MODULE QuotaSync ------------------------------
(* The persistence of quotas: the page's store of quota states, the middleware *)
(* that copies its successes to the server's quota cache one request at a time *)
(* and loads the cache into the store (extensions/quota/persistenceMiddleware  *)
(* and sqliteQuotaCache), and the table on the server, which the backend's     *)
(* inspection writes as well.                                                  *)
(*                                                                             *)
(* A quota is known by the time it was fetched (cachedAt), which is also its   *)
(* sync version; 0 stands for no entry.  A JavaScript handler runs without     *)
(* interruption up to its await, so it is one step; a request is a step of the *)
(* server and a later one of the page.  Any request may fail, and the clients  *)
(* of sqliteQuotaCache then get an empty answer.                               *)
EXTENDS Integers, SequencesExt

CONSTANTS
  Keys,        \* "provider:fileName"
  ProviderOf,  \* the provider of a key
  MaxEvents    \* bound on what the user, the page and the backend begin

ASSUME SyncAssumption ==
  /\ MaxEvents \in Nat
  /\ Keys \subseteq DOMAIN ProviderOf /\ IsFiniteSet(Keys) /\ "none" \notin Keys

Busy == -1                      \* a state that is loading or has failed
NoFlight == [key |-> "none", at |-> 0, done |-> FALSE]
Providers == {ProviderOf[k] : k \in Keys}
NoRows == [k \in Keys |-> 0]
Bad == {-1}                     \* a row no page of this version can read
RowTime(r) == IF r \in Bad THEN 1 ELSE r
Latest(rows) == Max({RowTime(rows[k]) : k \in Keys} \cup {0})

VARIABLES
  events,     \* bound: events so far
  clock,      \* Date.now()
  store,      \* the page's quota states: 0, Busy or the time of a success
  server,     \* the table quota_cache: 0, a Bad row, or the time of the quota
  running,    \* the middleware is subscribed to the store
  unseen,     \* providers whose map is not the one in lastQuotaMaps
  synced,     \* syncedVersions
  queue,      \* syncQueue, in insertion order
  flight,     \* the set request of flushSyncQueue
  preload,    \* preloadCache
  fresh,      \* ensureFresh
  reload,     \* reloadRequestedAt
  through,    \* loadedThrough
  erasing,    \* keys with a delete request on its way
  stamped,    \* saves of the backend that are not written yet: key and time
  unsaved,    \* observation: keys given up by a failed save
  lost,       \* observation: keys whose row was erased or set back to an older quota
  touched,    \* observation: per key, "changed" if the page changed or saved it, or the
              \* backend wrote it behind a load, and it was not loaded since
  swallowed   \* observation: a failed read was taken for an empty cache

loads == <<preload, fresh, reload, through>>
table == <<server, erasing, stamped>>
ghosts == <<lost, touched, swallowed>>
vars == <<events, clock, store, running, unseen, synced, queue, flight, loads, table, unsaved, ghosts>>

NoPreload == [pc |-> "idle", rows |-> NoRows, at |-> 0]
NotAsked == [pc |-> "idle", at |-> 0]

Init ==
  /\ events = 0
  /\ clock = 1
  /\ store = NoRows
  /\ server \in [Keys -> {0, 1} \cup Bad]
  /\ running = FALSE
  /\ unseen = Providers
  /\ synced = NoRows
  /\ queue = <<>>
  /\ flight = NoFlight
  /\ preload = NoPreload
  /\ fresh = NotAsked
  /\ reload = 0
  /\ through = 0
  /\ erasing = {} /\ stamped = {}
  /\ unsaved = {}
  /\ lost = {}
  /\ touched = [k \in Keys |-> "loaded"]
  /\ swallowed = FALSE

-----------------------------------------------------------------------------
(* flushSyncQueue: take keys until one whose state in the store is a success,  *)
(* and send that state; one request at a time.                                 *)
Flush(q, st) ==
  LET ready == {i \in DOMAIN q : st[q[i]] > 0}
  IN  IF ready = {} THEN [queue |-> <<>>, flight |-> NoFlight]
      ELSE LET i == Min(ready)
           IN  [queue |-> SubSeq(q, i + 1, Len(q)),
                flight |-> [key |-> q[i], at |-> st[q[i]], done |-> FALSE]]

Idle == flight = NoFlight

\* Mutant of Flushed: a flush under way keeps new keys out of the queue.
FlushedUnlessBusy(q, st) ==
  LET next == IF Idle THEN Flush(q, st) ELSE [queue |-> queue, flight |-> flight]
  IN  queue' = next.queue /\ flight' = next.flight

\* The loop goes on with the queue q unless a request is already under way.
Flushed(q, st) ==
  LET next == IF Idle THEN Flush(q, st) ELSE [queue |-> q, flight |-> flight]
  IN  queue' = next.queue /\ flight' = next.flight

\* syncProvider for the providers ps: the successes whose version is not the
\* synced one are queued, and versions of entries that are gone are forgotten.
ToSync(ps, st) == {k \in Keys : ProviderOf[k] \in ps /\ st[k] > 0 /\ synced[k] # st[k]}

SyncProviders(ps, st) ==
  /\ \E s \in SetToSeqs(ToSync(ps, st) \ Range(queue)) : Flushed(queue \o s, st)
  /\ synced' = [k \in Keys |-> IF ProviderOf[k] \in ps /\ st[k] = 0 THEN 0 ELSE synced[k]]
  /\ unsaved' = unsaved \ ToSync(ps, st)

\* The subscriber of the store, when the maps of the providers ps were replaced.
\* Changes made while the cache is being loaded are left for a later call.
Subscriber(ps, st) ==
  IF running /\ preload.pc = "idle"
  THEN SyncProviders(unseen \cup ps, st) /\ unseen' = {}
  ELSE unseen' = unseen \cup ps /\ UNCHANGED <<queue, flight, synced, unsaved>>

Change(ks, st) ==
  /\ store' = st
  /\ Subscriber({ProviderOf[k] : k \in ks}, st)
  /\ touched' = [k \in Keys |-> IF k \in ks \/ flight'.key = k \/ k \in Range(queue')
                                THEN "changed" ELSE touched[k]]
  /\ UNCHANGED <<running, loads, table, lost, swallowed>>

-----------------------------------------------------------------------------
(* The quota cards, external to this repository: a refresh replaces the state   *)
(* by a loading one and then by a success or an error.                         *)
StartFetch(k) ==
  /\ store[k] # Busy
  /\ Change({k}, [store EXCEPT ![k] = Busy])
  /\ UNCHANGED clock

FetchSucceeds(k) ==
  /\ store[k] = Busy
  /\ clock' = clock + 1
  /\ Change({k}, [store EXCEPT ![k] = clock + 1])

\* clearQuotaCache of the store: all maps are emptied.
ClearStore ==
  /\ store # NoRows
  /\ Change(Keys, NoRows)
  /\ UNCHANGED clock

\* Probes of the backend save what they read (embeddedusage.SetQuotaCache): the
\* row has the time at which the save was begun.
BackendStamps(k) ==
  /\ clock' = clock + 1
  /\ stamped' = stamped \cup {<<k, clock + 1>>}
  /\ UNCHANGED <<store, running, unseen, synced, queue, flight, loads, server, erasing,
                 unsaved, ghosts>>

-----------------------------------------------------------------------------
(* The set request *)
ServerSets ==
  /\ ~Idle
  /\ ~flight.done
  /\ server' = [server EXCEPT ![flight.key] = flight.at]
  /\ flight' = [flight EXCEPT !.done = TRUE]
  /\ lost' = IF flight.at < server[flight.key] THEN lost \cup {flight.key} ELSE lost
  /\ UNCHANGED <<clock, store, running, unseen, synced, queue, loads, erasing, stamped,
                 unsaved, touched, swallowed>>

\* Mutant of AfterFlight: the loop ends after one request.
AfterFlightOnce == UNCHANGED queue /\ flight' = NoFlight

AfterFlight ==
  LET next == Flush(queue, store)
  IN  queue' = next.queue /\ flight' = next.flight

SetSucceeded ==
  /\ ~Idle
  /\ flight.done
  /\ synced' = [synced EXCEPT ![flight.key] = flight.at]
  /\ AfterFlight
  /\ UNCHANGED <<clock, store, running, unseen, loads, table, unsaved, ghosts>>

\* No answer, or an error: the key is not queued again.
SetFailed ==
  /\ ~Idle
  /\ AfterFlight
  /\ unsaved' = IF flight.key \in Range(queue) THEN unsaved ELSE unsaved \cup {flight.key}
  /\ UNCHANGED <<clock, store, running, unseen, synced, loads, table, ghosts>>

-----------------------------------------------------------------------------
(* Loading the cache into the store *)
Saving(k) == flight.key = k \/ k \in Range(queue)

Preloading(at) == [pc |-> "asked", rows |-> NoRows, at |-> at]

\* getAll on the server; an error becomes an empty list.
ServerLists ==
  /\ preload.pc = "asked"
  /\ \/ /\ preload' = [preload EXCEPT !.pc = "answered", !.rows = server]
        /\ touched' = [k \in Keys |-> IF touched[k] = "changed" /\ ~Saving(k)
                                      THEN "listed" ELSE touched[k]]
        /\ UNCHANGED swallowed
     \/ /\ preload' = [preload EXCEPT !.pc = "answered"]
        /\ swallowed' = TRUE
        /\ UNCHANGED touched
  /\ UNCHANGED <<clock, store, running, unseen, synced, queue, flight, fresh, reload,
                 through, table, unsaved, lost>>

\* The rows of a list this page can use (isCacheEntryCompatible).
Loaded == {k \in Keys : preload.rows[k] > 0}

\* Mutant of LoadedThrough: the time the answer arrives.
LoadedThroughNow == Max({through, clock})

LoadedThrough == Max({through, Latest(preload.rows), preload.at})

\* History: where loadedThrough is, or should be with the list that was read.
ListedThrough == Max({through} \cup IF preload.pc = "answered"
                                    THEN {Latest(preload.rows), preload.at} ELSE {})

\* A save of the backend gets the mutex and finds the database not busy, maybe
\* behind a load of the table or a later save; after five attempts it is given up.
BackendWrites(k, at) ==
  /\ <<k, at>> \in stamped
  /\ stamped' = stamped \ {<<k, at>>}
  /\ \/ /\ server' = [server EXCEPT ![k] = at]
        /\ lost' = IF at < server[k] THEN lost \cup {k} ELSE lost
        /\ touched' = IF at <= ListedThrough THEN [touched EXCEPT ![k] = "changed"] ELSE touched
     \/ UNCHANGED <<server, lost, touched>>
  /\ UNCHANGED <<clock, store, running, unseen, synced, queue, flight, loads, erasing,
                 unsaved, swallowed>>

\* preloadProvider for every provider, and the end of preloadCache: rows replace
\* what the store holds, the others are deleted, and a waiting ensureFresh goes on.
PreloadDone ==
  /\ preload.pc = "answered"
  /\ store' = [k \in Keys |-> IF k \in Loaded THEN preload.rows[k] ELSE store[k]]
  /\ unseen' = unseen \cup {ProviderOf[k] : k \in Loaded}
  /\ synced' = [k \in Keys |-> IF k \in Loaded THEN preload.rows[k] ELSE synced[k]]
  /\ erasing' = erasing \cup {k \in Keys : preload.rows[k] \in Bad}
  /\ through' = LoadedThrough
  /\ preload' = NoPreload
  /\ fresh' = IF fresh.pc = "waiting" THEN [fresh EXCEPT !.pc = "asked"]
              ELSE IF fresh.pc = "preloading" THEN NotAsked ELSE fresh
  /\ touched' = [k \in Keys |-> IF touched[k] = "listed" THEN "loaded" ELSE touched[k]]
  /\ UNCHANGED <<clock, running, queue, flight, reload, server, stamped, unsaved, lost, swallowed>>

ServerErases(k) ==
  /\ k \in erasing
  /\ erasing' = erasing \ {k}
  /\ \/ server' = [server EXCEPT ![k] = 0] /\ lost' = lost \cup {k}
     \/ UNCHANGED <<server, lost>>
  /\ UNCHANGED <<clock, store, running, unseen, synced, queue, flight, loads, stamped,
                 unsaved, touched, swallowed>>

(* ensureFresh: a call made while another is under way joins it. *)
EnsureFresh ==
  /\ fresh.pc = "idle"
  /\ fresh' = [NotAsked EXCEPT !.pc = IF preload.pc = "idle" THEN "asked" ELSE "waiting"]
  /\ UNCHANGED <<clock, store, running, unseen, synced, queue, flight, preload, reload,
                 through, table, unsaved, ghosts>>

\* getStats on the server, 0 after an error
ServerStats ==
  /\ fresh.pc = "asked"
  /\ \E at \in {Latest(server), 0} : fresh' = [pc |-> "answered", at |-> at]
  /\ UNCHANGED <<clock, store, running, unseen, synced, queue, flight, preload, reload,
                 through, table, unsaved, ghosts>>

Target == Max({reload, fresh.at})

DecideFresh ==
  /\ fresh.pc = "answered"
  /\ IF Target <= through
     THEN fresh' = NotAsked /\ UNCHANGED preload
     ELSE /\ fresh' = [NotAsked EXCEPT !.pc = "preloading"]
          /\ preload' = IF preload.pc = "idle" THEN Preloading(Target) ELSE preload
  /\ UNCHANGED <<clock, store, running, unseen, synced, queue, flight, reload, through,
                 table, unsaved, ghosts>>

MarkStale ==
  /\ reload' = Max({reload, clock})
  /\ UNCHANGED <<clock, store, running, unseen, synced, queue, flight, preload, fresh,
                 through, table, unsaved, ghosts>>

-----------------------------------------------------------------------------
(* Life of the page *)
Start ==
  /\ ~running
  /\ running' = TRUE
  /\ preload' = IF preload.pc = "idle" THEN Preloading(clock) ELSE preload
  /\ UNCHANGED <<clock, store, unseen, synced, queue, flight, fresh, reload, through,
                 table, unsaved, ghosts>>

Stop ==
  /\ running
  /\ running' = FALSE
  /\ unseen' = Providers
  /\ synced' = NoRows
  /\ Flushed(queue, store)
  /\ UNCHANGED <<clock, store, loads, table, unsaved, ghosts>>

\* The page is reloaded: only the table is left.
Reload ==
  /\ store' = NoRows /\ synced' = NoRows
  /\ queue' = <<>> /\ flight' = NoFlight
  /\ running' = FALSE /\ unseen' = Providers
  /\ preload' = NoPreload /\ fresh' = NotAsked
  /\ reload' = 0 /\ through' = 0
  /\ unsaved' = {} /\ lost' = {} /\ touched' = [k \in Keys |-> "loaded"] /\ swallowed' = FALSE
  /\ UNCHANGED <<clock, table>>

-----------------------------------------------------------------------------
(* What begins a chain of steps, and the steps that follow *)
Event ==
  /\ events < MaxEvents
  /\ events' = events + 1
  /\ \/ \E k \in Keys : StartFetch(k) \/ BackendStamps(k)
     \/ ClearStore
     \/ EnsureFresh \/ MarkStale
     \/ Start \/ Stop \/ Reload

Step ==
  /\ \/ \E k \in Keys : FetchSucceeds(k) \/ ServerErases(k)
     \/ \E save \in stamped : BackendWrites(save[1], save[2])
     \/ ServerSets \/ SetSucceeded \/ SetFailed
     \/ ServerLists \/ PreloadDone
     \/ ServerStats \/ DecideFresh
  /\ UNCHANGED events

Next == Event \/ Step

(* Requests are answered, and the handler of an answer runs. *)
Fairness == WF_vars(Step)

Spec == Init /\ [][Next]_vars /\ Fairness

-----------------------------------------------------------------------------
(* Nothing the page shows is forgotten: a success in the store is in the table, *)
(* it or a newer one, or in the request under way, or queued behind it, or of a *)
(* provider whose map the next change of the store will compare again; the      *)
(* exceptions are a save that failed and a row erased or set back behind it.    *)
NothingForgotten ==
  \A k \in Keys :
    store[k] > 0 =>
      \/ server[k] >= store[k]
      \/ flight.key = k /\ flight.at = store[k]
      \/ k \in Range(queue) /\ ~Idle
      \/ ProviderOf[k] \in unseen
      \/ k \in unsaved \cup lost

(* loadedThrough keeps its word: a row the table holds from that time or before *)
(* is in the store, for every entry the page has not changed or saved itself,   *)
(* nor the backend written behind that load, since it was loaded, and unless a  *)
(* failed read passed for an empty cache:                                       *)
(* ensureFresh loads nothing older, so a row passed over would stay hidden      *)
(* until another quota is saved.                                                *)
LoadedThroughHonest ==
  swallowed \/
  \A k \in {x \in Keys : touched[x] = "loaded"} :
    server[k] \in 1..through => store[k] >= server[k]

(* The saves come to an end: the queue is empty again and again, however the    *)
(* requests of the flush fail or interleave with loads and stops.              *)
QueueDrains == []<>(queue = <<>>)
=============================================================================

--------------------------- MODULE ServiceWorker ---------------------------
(* The service worker that currencyconverter/views.py sends: its caches, one   *)
(* for each version of the script, and what a browser shows from them offline. *)
(* What the site answers is named by the time at which it did.                 *)
EXTENDS Integers, Sequences

CONSTANTS Pages, PUBLIC_PAGES,     \* pages of /currencyconverter/, and those stored ahead
          MaxVersion, MaxContent   \* bounds: versions of the script, changes of the site

ASSUME WorkerAssumption ==
    PUBLIC_PAGES \subseteq Pages /\ MaxVersion \in Nat \ {0} /\ MaxContent \in Nat \ {0}

VARIABLES deployed,     \* the version the site serves
          content,      \* the time of the site
          active,       \* the version of the worker in control, 0 before the first
          installing,   \* the version that is being installed, 0 when none is
          left,         \* the pages it still waits for
          caches,       \* the browser's caches, in the order in which they were created
          pending       \* copies that fetch handlers are still to store
workerVars == <<deployed, content, active, installing, left, caches, pending>>

Version == 1..MaxVersion
Content == 1..MaxContent
Copy == [cache : Version, page : Pages, content : Content]
Cache == [name : Version, pages : [Pages -> 0..MaxContent]]     \* 0: not stored

WorkerInit ==
    /\ deployed = 1 /\ content = 1 /\ active = 0 /\ installing = 0
    /\ left = {} /\ caches = <<>> /\ pending = {}

\* caches.open: an existing cache keeps its place, a new one is the last.
Opened(cs, v) ==
    IF \E i \in 1..Len(cs) : cs[i].name = v
    THEN cs ELSE Append(cs, [name |-> v, pages |-> [p \in Pages |-> 0]])

\* cache.put in the cache of version v.
Put(cs, v, p, c) ==
    LET opened == Opened(cs, v)  IN
    [i \in 1..Len(opened) |->
        IF opened[i].name = v THEN [opened[i] EXCEPT !.pages[p] = c] ELSE opened[i]]

Publish == content < MaxContent /\ content' = content + 1
           /\ UNCHANGED <<deployed, active, installing, left, caches, pending>>

Deploy(v) == v # deployed /\ deployed' = v
             /\ UNCHANGED <<content, active, installing, left, caches, pending>>

\* The browser finds another script than that of the active worker.
Install ==
    /\ installing = 0 /\ deployed # active
    /\ installing' = deployed
    /\ left' = PUBLIC_PAGES
    /\ caches' = Opened(caches, deployed)
    /\ UNCHANGED <<deployed, content, active, pending>>

\* precache: a page that is not ok is not stored, and not waited for.
Precache(p) ==
    /\ installing # 0 /\ p \in left
    /\ left' = left \ {p}
    /\ \/ caches' = Put(caches, installing, p, content)
       \/ caches' = caches
    /\ UNCHANGED <<deployed, content, active, installing, pending>>

\* The site cannot be reached: the install is rejected. Other pages may still come.
InstallFails ==
    /\ installing # 0 /\ left # {}
    /\ \E late \in SUBSET left :
         /\ late # left
         /\ pending' = pending \cup
              {[cache |-> installing, page |-> p, content |-> content] : p \in late}
    /\ installing' = 0
    /\ left' = {}
    /\ UNCHANGED <<deployed, content, active, caches>>

\* Mutant: the caches of other versions are kept.
ActivateKeeping ==
    /\ installing # 0 /\ left = {}
    /\ active' = installing
    /\ installing' = 0
    /\ UNCHANGED <<deployed, content, left, caches, pending>>

\* skipWaiting and the activate handler: the caches of other versions are deleted, and its
\* own, which the install has opened, remains.
Activate ==
    /\ installing # 0 /\ left = {}
    /\ active' = installing
    /\ installing' = 0
    /\ \E i \in 1..Len(caches) : caches[i].name = installing /\ caches' = <<caches[i]>>
    /\ UNCHANGED <<deployed, content, left, pending>>

\* The fetch handler answers a page and leaves a copy to be stored; the response
\* does not wait for that.
FetchPage(p) ==
    /\ active # 0
    /\ pending' = pending \cup {[cache |-> active, page |-> p, content |-> content]}
    /\ UNCHANGED <<deployed, content, active, installing, left, caches>>

\* A copy is stored, in any order and also by a worker that is replaced, or is lost with it.
Store(x) ==
    /\ pending' = pending \ {x}
    /\ \/ caches' = Put(caches, x.cache, x.page, x.content)
       \/ caches' = caches
    /\ UNCHANGED <<deployed, content, active, installing, left>>

WorkerNext ==
    \/ Publish \/ Install \/ InstallFails \/ Activate
    \/ \E v \in Version : Deploy(v)
    \/ \E p \in Pages : Precache(p) \/ FetchPage(p)
    \/ \E x \in pending : Store(x)

WorkerSpec == WorkerInit /\ [][WorkerNext]_workerVars
-----------------------------------------------------------------------------
WorkerTypeOK ==
    /\ deployed \in Version /\ content \in Content
    /\ active \in 0..MaxVersion /\ installing \in 0..MaxVersion
    /\ left \in SUBSET PUBLIC_PAGES
    /\ caches \in Seq(Cache)
    /\ pending \in SUBSET Copy

\* caches.match looks through all caches, in the order of their creation; the answer
\* offline is the first that holds the page.
Answers(i, p) == caches[i].pages[p] # 0 /\ \A j \in 1..i-1 : caches[j].pages[p] = 0

\* A page shown offline comes from the cache of the version in control when that one
\* holds it, although other versions may leave caches behind, before it by a failed
\* install or after it by a late copy (currencyconverter/views.py:58 and 80).
OfflineFromActive ==
    \A i \in 1..Len(caches), j \in 1..Len(caches), p \in Pages :
        Answers(i, p) /\ caches[j].name = active /\ caches[j].pages[p] # 0 => i = j
=============================================================================

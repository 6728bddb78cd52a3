---------------------------- MODULE ServiceWorker ----------------------------
(***************************************************************************)
(* The service worker of the site (static/sw.js, registered in             *)
(* static/js/app.js) in one browser.  Its URL and those of static files    *)
(* carry the build of the page that asks for them, but the server answers  *)
(* with the file of the build it runs (registerStaticRoutes in server.go). *)
(***************************************************************************)
EXTENDS FiniteSets, Naturals

CONSTANTS
    Builds,        \* their version tags
    None           \* no build

ASSUME BuildsAssumption == None \notin Builds

VARIABLES
    served,        \* the build the server runs
    replaced,      \* builds it ran before; only properties read it
    online,        \* the browser reaches the server
    openPage,      \* the build of the open page
    worker,        \* the active worker
    nextWorker,    \* the worker that takes over: its build, and where it is
    caches,        \* goexpenses-<build>: the offline page, and files by URL
    answered,      \* a file from the network that a worker has yet to cache
    fileShown      \* the file a page got last: the builds of page and file

workerVars == <<served, replaced, online, openPage, worker, nextWorker, caches,
                answered, fileShown>>

NoWorker == [build |-> None, step |-> "none"]
Nothing  == [worker |-> None, url |-> None, file |-> None]
Empty    == [offline |-> FALSE, files |-> {}]

-----------------------------------------------------------------------------
(* The server and the connection.                                          *)

Deploy(b) ==
    /\ b # served
    /\ served' = b
    /\ replaced' = replaced \cup {served}
    /\ UNCHANGED <<online, openPage, worker, nextWorker, caches, answered, fileShown>>

Connect ==
    /\ online' = ~ online
    /\ UNCHANGED <<served, replaced, openPage, worker, nextWorker, caches, answered, fileShown>>

-----------------------------------------------------------------------------
(* Pages.                                                                  *)

(* A navigation goes to the server; without it the offline page shows.     *)
Open ==
    /\ openPage' = IF online THEN served ELSE None
    /\ UNCHANGED <<served, replaced, online, worker, nextWorker, caches, answered, fileShown>>

(* When the page is loaded; the same URL leaves the worker as it is.       *)
Register ==
    /\ openPage # None /\ online
    /\ openPage # worker
    /\ nextWorker = NoWorker
    /\ nextWorker' = [build |-> openPage, step |-> "installing"]
    /\ UNCHANGED <<served, replaced, online, openPage, worker, caches, answered, fileShown>>

Unversioned(b) == CHOOSE v \in Builds : TRUE   \* a mutant: URLs without ?v=
Url(b) == b

Cached(url) == {f \in caches[worker].files : f.url = url}

Show(file) == fileShown' = [build |-> openPage, file |-> file]

FromCache ==
    /\ openPage # None /\ worker # None
    /\ \E f \in Cached(Url(openPage)) : Show(f.file)
    /\ UNCHANGED <<served, replaced, online, openPage, worker, nextWorker, caches, answered>>

FromServer ==
    /\ openPage # None /\ online
    /\ worker # None => Cached(Url(openPage)) = {}
    /\ answered = Nothing
    /\ Show(served)
    /\ answered' = IF worker = None THEN Nothing
                   ELSE [worker |-> worker, url |-> Url(openPage), file |-> served]
    /\ UNCHANGED <<served, replaced, online, openPage, worker, nextWorker, caches>>

(* cache.put, possibly after the worker was replaced: then the cache is    *)
(* gone, or was opened again.                                              *)
Put ==
    /\ answered # Nothing
    /\ \/ caches' = [caches EXCEPT ![answered.worker].files =
              {f \in @ : f.url # answered.url}
              \cup {[url |-> answered.url, file |-> answered.file]}]
       \/ worker # answered.worker /\ UNCHANGED caches
    /\ answered' = Nothing
    /\ UNCHANGED <<served, replaced, online, openPage, worker, nextWorker, fileShown>>

-----------------------------------------------------------------------------
(* A worker takes over.                                                    *)

(* install: addAll, then skipWaiting.                                      *)
Install ==
    /\ nextWorker.step = "installing"
    /\ online
    /\ caches' = [caches EXCEPT ![nextWorker.build].offline = TRUE]
    /\ nextWorker' = [nextWorker EXCEPT !.step = "installed"]
    /\ UNCHANGED <<served, replaced, online, openPage, worker, answered, fileShown>>

InstallFails ==
    /\ nextWorker.step = "installing"
    /\ ~ online
    /\ nextWorker' = NoWorker
    /\ UNCHANGED <<served, replaced, online, openPage, worker, caches, answered, fileShown>>

TakeOver ==
    /\ nextWorker.step = "installed"
    /\ worker' = nextWorker.build
    /\ nextWorker' = [nextWorker EXCEPT !.step = "activating"]
    /\ UNCHANGED <<served, replaced, online, openPage, caches, answered, fileShown>>

OtherCaches == Builds \ {nextWorker.build}

(* activate: the caches of other builds are deleted.                       *)
CleanUp ==
    /\ nextWorker.step = "activating"
    /\ caches' = [b \in Builds |-> IF b \in OtherCaches THEN Empty ELSE caches[b]]
    /\ nextWorker' = NoWorker
    /\ UNCHANGED <<served, replaced, online, openPage, worker, answered, fileShown>>

InitWorker ==
    /\ served \in Builds
    /\ replaced = {}
    /\ online = TRUE
    /\ openPage = None
    /\ worker = None
    /\ nextWorker = NoWorker
    /\ caches = [b \in Builds |-> Empty]
    /\ answered = Nothing
    /\ fileShown = [build |-> None, file |-> None]

NextWorker ==
    \/ \E b \in Builds : Deploy(b)
    \/ Connect \/ Open \/ Register
    \/ FromCache \/ FromServer \/ Put
    \/ Install \/ InstallFails \/ TakeOver \/ CleanUp

-----------------------------------------------------------------------------
(* Properties.                                                             *)

(* Every deployment refreshes cached files (README.md, Versions): while a  *)
(* build runs for the first time, its pages get its own files, whatever    *)
(* earlier pages left in the caches of earlier workers.                    *)
DeploymentRefreshes ==
    fileShown.build = served /\ served \notin replaced => fileShown.file = served
=============================================================================

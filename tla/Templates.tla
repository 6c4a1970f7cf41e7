----------------------------- MODULE Templates -----------------------------
(***************************************************************************)
(* Published templates: TemplateService.publish and remove                 *)
(* (domain/templates.ts) behind http/routes/templates.ts, the exports and  *)
(* installs of the host daemon (nehemiahd/template_transfer.go) behind     *)
(* clients/nehemiahd-templates.ts, the object store                        *)
(* (providers/storage/s3.ts), TemplateReplicationJob                       *)
(* (jobs/replicate-template.ts), and the machines that are created from a  *)
(* template or forked from such a machine.                                 *)
(***************************************************************************)
EXTENDS Naturals, FiniteSets

CONSTANTS
  Templates,   \* template ids, one drawn by each publish request
  Versions,    \* name@version pairs of the project
  ArchHosts,   \* hosts of the templates' architecture
  Replicators, \* overlapping runs of TemplateReplicationJob
  Removers,    \* DELETE requests in flight
  Instances,   \* machines that may be created
  Principals,  \* requests' principals: [kind, scopes, administers]
  Outages,     \* whether an upload or an insert may succeed after its caller saw an error,
               \* and a deletion of an object may fail
  PromptMarks, \* whether no claim falls between a run's last two statements
  MaxFailures, \* bound on crashes, lost answers, failing stores and hosts going away
  None

VARIABLES
  tpl,       \* the rows of templates: "none", "live" or "deleted"
  version,   \* the name@version each publish request asked for
  pub,       \* where each publish request is, and whether the host answered the export
  exports,   \* exports on the source host
  puts,      \* PUT capabilities the source host is using
  objects,   \* objects in the store
  replica,   \* template_replicas.state
  aged,      \* replicas whose updated_at is past the retry interval of their state
  installed, \* <<template, host>> pairs installed on the host
  up,        \* hosts in state ready or draining
  repl,      \* what each replication run is doing
  remover,   \* what each DELETE request is doing
  mach,      \* rows of machines
  failures

pubVars == <<version, pub, exports, puts>>
replVars == <<installed, repl>>
templatesVars == <<tpl, pubVars, objects, replica, aged, replVars, up, remover, mach, failures>>

NoRun == [pc |-> "idle", t |-> None, h |-> None, pairs |-> {}]
NoMachine == [state |-> "none", t |-> None, h |-> None, src |-> None]

TemplatesInit ==
  /\ tpl = [t \in Templates |-> "none"] /\ version = [t \in Templates |-> None]
  /\ pub = [t \in Templates |-> [pc |-> "idle", exported |-> FALSE]]
  /\ exports = {} /\ puts = {} /\ objects = {} /\ aged = {} /\ installed = {} /\ up = {}
  /\ replica = [p \in Templates \X ArchHosts |-> "none"]
  /\ repl = [w \in Replicators |-> NoRun]
  /\ remover = [r \in Removers |-> [pc |-> "idle", t |-> None]]
  /\ mach = [m \in Instances |-> NoMachine]
  /\ failures = 0

Failure == failures < MaxFailures /\ failures' = failures + 1

\* A template route lets a caller through that has the scope and, when it is a user, administers.
MayWriteTemplates(c) == "templates:write" \in c.scopes /\ (c.kind = "user" => c.administers)

\* SELECT ... FOR UPDATE of a template: who holds it, and who holds it FOR SHARE.
Locked(t) == \E r \in Removers : remover[r].pc \in {"locked", "unused"} /\ remover[r].t = t
Shared(t) == \E m \in Instances : mach[m].state = "sharing" /\ mach[m].t = t

-----------------------------------------------------------------------------
(* POST /v1/templates: publish *)

At(t, pc) == pub[t].pc = pc
Moves(t, pc) == pub' = [pub EXCEPT ![t].pc = pc]
\* An error anywhere in the body: the object is deleted, then the export is discarded.
Fails(t) == Moves(t, "cleanup")

postTemplate(t) ==
  /\ At(t, "idle") /\ \E c \in Principals : MayWriteTemplates(c)
  /\ \E v \in Versions : version' = [version EXCEPT ![t] = v]
  /\ Moves(t, "find")
  /\ UNCHANGED <<tpl, exports, puts, objects, replica, aged, replVars, up, remover, mach, failures>>

Taken(t) == \E u \in Templates \ {t} : tpl[u] # "none" /\ version[u] = version[t]

\* findVersion sees deleted versions too; the source machine may not be ready.
findVersion(t) ==
  /\ At(t, "find")
  /\ \/ Taken(t) /\ Moves(t, "failed")
     \/ ~Taken(t) /\ (Moves(t, "export") \/ Moves(t, "failed"))
  /\ UNCHANGED <<tpl, version, exports, puts, objects, replica, aged, replVars, up, remover, mach, failures>>

\* The calls to the host: an export of the machine, the PUT of an export it still has, the
\* end of an export, the install of a template; and to the store: stat and delete.
Exports(t) == exports' = exports \cup {t}
Discards(t) == exports' = exports \ {t}
Installs(w) == installed' = installed \cup {<<repl[w].t, repl[w].h>>}
Stored(t) == t \in objects
Deletes(t) == objects' = objects \ {t}

\* The host snapshots the machine into an export, or refuses because the lease is over.
export(t) ==
  /\ At(t, "export")
  /\ \/ Exports(t) /\ pub' = [pub EXCEPT ![t] = [pc |-> "grant", exported |-> TRUE]]
     \/ Fails(t) /\ UNCHANGED exports
  /\ UNCHANGED <<tpl, version, puts, objects, replica, aged, replVars, up, remover, mach, failures>>

\* The export is made and its answer lost: nobody discards it.
exportUnanswered(t) ==
  /\ At(t, "export") /\ Failure /\ Exports(t) /\ Fails(t)
  /\ UNCHANGED <<tpl, version, puts, objects, replica, aged, replVars, up, remover, mach>>

\* A host drops the exports that are half an hour old.
cleanupTemplateExports(t) ==
  /\ t \in exports /\ Discards(t)
  /\ UNCHANGED <<tpl, version, pub, puts, objects, replica, aged, replVars, up, remover, mach, failures>>

\* #grant: a capability for one method on one object, which #validateSignedUrl and
\* validateScopedObjectGrant check before it is passed on.
Grant(method, t) == [method |-> method, key |-> t]
InScope(g, method, t) == g.method = method /\ g.key = t

createUploadGrant(t) ==
  /\ At(t, "grant")
  /\ \/ InScope(Grant("PUT", t), "PUT", t) /\ Moves(t, "upload")
     \/ Fails(t)
  /\ UNCHANGED <<tpl, version, exports, puts, objects, replica, aged, replVars, up, remover, mach, failures>>

\* The client passes on a capability for this upload only.
StartsPut(g, t) == InScope(g, "PUT", t) /\ puts' = puts \cup {g}

\* The host starts its PUT if it still has the export and the lease.
upload(t) ==
  /\ At(t, "upload")
  /\ \/ t \in exports /\ StartsPut(Grant("PUT", t), t) /\ Moves(t, "uploading")
     \/ Fails(t) /\ UNCHANGED puts
  /\ UNCHANGED <<tpl, version, exports, objects, replica, aged, replVars, up, remover, mach, failures>>

\* The store commits a PUT: create-only, and of the bytes the capability is bound to.
putLands(g) ==
  /\ g \in puts /\ puts' = puts \ {g} /\ objects' = objects \cup {g.key}
  /\ UNCHANGED <<tpl, version, pub, exports, replica, aged, replVars, up, remover, mach, failures>>

putFails(g) ==
  /\ g \in puts /\ puts' = puts \ {g}
  /\ UNCHANGED <<tpl, version, pub, exports, objects, replica, aged, replVars, up, remover, mach, failures>>

uploadAnswered(t) ==
  /\ At(t, "uploading") /\ Grant("PUT", t) \notin puts
  /\ IF t \in objects THEN Moves(t, "stat") ELSE Fails(t)
  /\ UNCHANGED <<tpl, version, exports, puts, objects, replica, aged, replVars, up, remover, mach, failures>>

\* The connection to the host breaks; the host's PUT goes on until the capability expires.
uploadUnanswered(t) ==
  /\ Outages /\ At(t, "uploading") /\ Failure /\ Fails(t)
  /\ UNCHANGED <<tpl, version, exports, puts, objects, replica, aged, replVars, up, remover, mach>>

stat(t) ==
  /\ At(t, "stat")
  /\ (Stored(t) /\ Moves(t, "insert")) \/ Fails(t)
  /\ UNCHANGED <<tpl, version, exports, puts, objects, replica, aged, replVars, up, remover, mach, failures>>

\* The statement of insert: the row, and a replica for every host.
Inserts(t) ==
  /\ tpl' = [tpl EXCEPT ![t] = "live"]
  /\ replica' = [p \in Templates \X ArchHosts |->
                   IF p[1] = t /\ p[2] \in up /\ replica[p] = "none" THEN "requested" ELSE replica[p]]

\* The unique key of name and version decides between two publishers.
insert(t) ==
  /\ At(t, "insert")
  /\ \/ ~Taken(t) /\ Inserts(t) /\ Moves(t, "discard")
     \/ Fails(t) /\ UNCHANGED <<tpl, replica>>
  /\ UNCHANGED <<version, exports, puts, objects, aged, replVars, up, remover, mach, failures>>

\* The insert commits and the connection breaks before the answer.
insertUnanswered(t) ==
  /\ Outages /\ At(t, "insert") /\ ~Taken(t) /\ Failure /\ Inserts(t) /\ Fails(t)
  /\ UNCHANGED <<version, exports, puts, objects, aged, replVars, up, remover, mach>>

\* Mutant: once there was an export only that is cleaned up.
deleteUnexported(t) ==
  /\ At(t, "cleanup") /\ UNCHANGED failures
  /\ IF pub[t].exported THEN UNCHANGED objects ELSE Deletes(t)
  /\ Moves(t, IF pub[t].exported THEN "conflict" ELSE "failed")
  /\ UNCHANGED <<tpl, version, exports, puts, replica, aged, replVars, up, remover, mach>>

\* catch: storage.delete, whose own failure is ignored.
deleteObject(t) ==
  /\ At(t, "cleanup")
  /\ \/ Deletes(t) /\ UNCHANGED failures
     \/ Outages /\ Failure /\ UNCHANGED objects
  /\ Moves(t, IF pub[t].exported THEN "conflict" ELSE "failed")
  /\ UNCHANGED <<tpl, version, exports, puts, replica, aged, replVars, up, remover, mach>>

\* finally: discard, whose failure is ignored.
discard(t) ==
  /\ pub[t].pc \in {"discard", "conflict"}
  /\ \/ Discards(t) /\ UNCHANGED failures
     \/ Failure /\ UNCHANGED exports
  /\ Moves(t, IF At(t, "discard") THEN "published" ELSE "failed")
  /\ UNCHANGED <<tpl, version, puts, objects, replica, aged, replVars, up, remover, mach>>

Ended == {"published", "failed", "crashed"}

CrashPublisher(t) ==
  /\ pub[t].pc \notin Ended \cup {"idle"} /\ Failure /\ Moves(t, "crashed")
  /\ UNCHANGED <<tpl, version, exports, puts, objects, replica, aged, replVars, up, remover, mach>>

-----------------------------------------------------------------------------
(* DELETE /v1/templates/:id: remove *)

\* SELECT ... FOR UPDATE; a template that is not live any more is not found.
lockTemplate(r, t) ==
  /\ remover[r].pc = "idle" /\ \E c \in Principals : MayWriteTemplates(c)
  /\ tpl[t] = "live" /\ ~Locked(t) /\ ~Shared(t)
  /\ remover' = [remover EXCEPT ![r] = [pc |-> "locked", t |-> t]]
  /\ UNCHANGED <<tpl, pubVars, objects, replica, aged, replVars, up, mach, failures>>

ActiveMachine(m) == mach[m].state \in {"requested", "starting", "running", "forking"}
\* Rows another transaction can see: the machine of an open transaction is not there yet.
Uses(m, t) == mach[m].state \in {"requested", "starting", "running"} /\ mach[m].t = t

activeMachines(r) ==
  /\ remover[r].pc = "locked"
  /\ remover' = [remover EXCEPT ![r].pc =
                   IF \E m \in Instances : Uses(m, remover[r].t) THEN "done" ELSE "unused"]
  /\ UNCHANGED <<tpl, pubVars, objects, replica, aged, replVars, up, mach, failures>>

SoftDelete(t) == tpl' = [tpl EXCEPT ![t] = "deleted"]
\* The soft delete and the deletion of the replicas commit together.
remove(r) ==
  /\ remover[r].pc = "unused" /\ SoftDelete(remover[r].t)
  /\ replica' = [p \in Templates \X ArchHosts |-> IF p[1] = remover[r].t THEN "none" ELSE replica[p]]
  /\ aged' = {p \in aged : p[1] # remover[r].t}
  /\ remover' = [remover EXCEPT ![r].pc = "done"]
  /\ UNCHANGED <<pubVars, objects, replVars, up, mach, failures>>

-----------------------------------------------------------------------------
(* Machines of a template: insertRequested, Scheduler.reserve, beginFork *)

\* SELECT ... FOR SHARE waits for a removal and then finds the template deleted.
shareTemplate(m, t) ==
  /\ mach[m].state = "none" /\ tpl[t] = "live" /\ ~Locked(t)
  /\ mach' = [mach EXCEPT ![m] = [NoMachine EXCEPT !.state = "sharing", !.t = t]]
  /\ UNCHANGED <<tpl, pubVars, objects, replica, aged, replVars, up, remover, failures>>

insertRequested(m) ==
  /\ mach[m].state = "sharing" /\ mach' = [mach EXCEPT ![m].state = "requested"]
  /\ UNCHANGED <<tpl, pubVars, objects, replica, aged, replVars, up, remover, failures>>

\* Only a host with a ready replica of the live template is eligible.
reserve(m, h) ==
  /\ mach[m].state = "requested" /\ h \in up
  /\ tpl[mach[m].t] = "live" /\ replica[<<mach[m].t, h>>] = "ready"
  /\ mach' = [mach EXCEPT ![m] = [@ EXCEPT !.state = "starting", !.h = h]]
  /\ UNCHANGED <<tpl, pubVars, objects, replica, aged, replVars, up, remover, failures>>

run(m) ==
  /\ mach[m].state = "starting" /\ mach' = [mach EXCEPT ![m].state = "running"]
  /\ UNCHANGED <<tpl, pubVars, objects, replica, aged, replVars, up, remover, failures>>

\* beginFork locks the source row, so the source cannot stop before its child is committed.
lockSource(m, c) ==
  /\ mach[m].state = "running" /\ mach[c].state = "none"
  /\ mach' = [mach EXCEPT ![c] = [state |-> "forking", t |-> mach[m].t, h |-> mach[m].h, src |-> m]]
  /\ UNCHANGED <<tpl, pubVars, objects, replica, aged, replVars, up, remover, failures>>

\* The foreign key of the child's row waits for a removal, and does not look at deleted_at.
insertChild(c) ==
  /\ mach[c].state = "forking" /\ ~Locked(mach[c].t)
  /\ mach' = [mach EXCEPT ![c].state = "starting"]
  /\ UNCHANGED <<tpl, pubVars, objects, replica, aged, replVars, up, remover, failures>>

stop(m) ==
  /\ mach[m].state \in {"requested", "starting", "running"}
  /\ ~\E c \in Instances : mach[c].state = "forking" /\ mach[c].src = m
  /\ mach' = [mach EXCEPT ![m].state = "stopped"]
  /\ UNCHANGED <<tpl, pubVars, objects, replica, aged, replVars, up, remover, failures>>

-----------------------------------------------------------------------------
(* TemplateReplicationJob.runOnce *)

Pair(w) == <<repl[w].t, repl[w].h>>
RunGoes(w, pc) == repl' = [repl EXCEPT ![w].pc = pc]

\* enqueueMissing reads the live templates and the hosts ...
enqueueMissing(w) ==
  /\ repl[w].pc = "idle"
  /\ repl' = [repl EXCEPT ![w] = [NoRun EXCEPT !.pc = "enqueue",
                !.pairs = {p \in Templates \X ArchHosts : tpl[p[1]] = "live" /\ p[2] \in up /\ replica[p] = "none"}]]
  /\ UNCHANGED <<tpl, pubVars, objects, replica, aged, installed, up, remover, mach, failures>>

\* ... and inserts what is missing; the foreign key waits for a removal and accepts its row.
enqueueCommits(w) ==
  /\ repl[w].pc = "enqueue" /\ \A p \in repl[w].pairs : ~Locked(p[1])
  /\ replica' = [p \in Templates \X ArchHosts |->
                   IF p \in repl[w].pairs /\ replica[p] = "none" THEN "requested" ELSE replica[p]]
  /\ repl' = [repl EXCEPT ![w] = [NoRun EXCEPT !.pc = "claim"]]
  /\ UNCHANGED <<tpl, pubVars, objects, aged, installed, up, remover, mach, failures>>

Claimable == {p \in Templates \X ArchHosts :
  /\ tpl[p[1]] = "live" /\ p[2] \in up
  /\ replica[p] = "requested" \/ (replica[p] \in {"failed", "pulling"} /\ p \in aged)
  /\ PromptMarks => ~\E w \in Replicators : repl[w].pc = "fail" /\ Pair(w) = p}
Rank(p) == CASE replica[p] = "requested" -> 0 [] replica[p] = "failed" -> 1 [] OTHER -> 2

ClaimsPair(w, p) ==
  /\ replica' = [replica EXCEPT ![p] = "pulling"] /\ aged' = aged \ {p}
  /\ repl' = [repl EXCEPT ![w] = [pc |-> "verify", t |-> p[1], h |-> p[2], pairs |-> {}]]

claim(w) ==
  /\ repl[w].pc = "claim"
  /\ \/ Claimable = {} /\ repl' = [repl EXCEPT ![w] = NoRun] /\ UNCHANGED <<replica, aged>>
     \/ \E p \in Claimable : (\A q \in Claimable : Rank(p) <= Rank(q)) /\ ClaimsPair(w, p)
  /\ UNCHANGED <<tpl, pubVars, objects, installed, up, remover, mach, failures>>

\* The stored object is compared with the row and a download capability is drawn.
verifyStored(w) ==
  /\ repl[w].pc = "verify"
  /\ RunGoes(w, IF Stored(repl[w].t) /\ InScope(Grant("GET", repl[w].t), "GET", repl[w].t)
             THEN "activate" ELSE "fail")
  /\ UNCHANGED <<tpl, pubVars, objects, replica, aged, installed, up, remover, mach, failures>>

\* The host installs what it downloads, or answers with what it has installed.
activateReplica(w) ==
  /\ repl[w].pc = "activate" /\ repl[w].h \in up
  /\ \/ (Pair(w) \in installed \/ repl[w].t \in objects)
        /\ Installs(w) /\ RunGoes(w, "ready")
     \/ Pair(w) \notin installed /\ repl[w].t \notin objects /\ RunGoes(w, "fail") /\ UNCHANGED installed
  /\ UNCHANGED <<tpl, pubVars, objects, replica, aged, up, remover, mach, failures>>

\* The host is gone, a transfer fails, or the answer is lost after the install.
activateFails(w) ==
  /\ repl[w].pc = "activate"
  /\ \/ repl[w].h \notin up /\ UNCHANGED <<failures, installed>>
     \/ Failure /\ (UNCHANGED installed \/ (repl[w].t \in objects /\ Installs(w)))
  /\ RunGoes(w, "fail")
  /\ UNCHANGED <<tpl, pubVars, objects, replica, aged, up, remover, mach>>

\* The UPDATE locks the replica's row, which a removal deletes in its own transaction.
markReady(w) ==
  /\ repl[w].pc = "ready"
  /\ IF replica[Pair(w)] = "pulling" /\ tpl[repl[w].t] = "live"
     THEN /\ replica' = [replica EXCEPT ![Pair(w)] = "ready"] /\ aged' = aged \ {Pair(w)}
          /\ repl' = [repl EXCEPT ![w] = NoRun]
     ELSE RunGoes(w, "fail") /\ UNCHANGED <<replica, aged>>
  /\ UNCHANGED <<tpl, pubVars, objects, installed, up, remover, mach, failures>>

\* A claim has no owner: a slow run fails the claim of the run that took over.
markFailed(w) ==
  /\ repl[w].pc = "fail"
  /\ replica' = [replica EXCEPT ![Pair(w)] = IF @ = "pulling" THEN "failed" ELSE @]
  /\ aged' = IF replica[Pair(w)] = "pulling" THEN aged \ {Pair(w)} ELSE aged
  /\ repl' = [repl EXCEPT ![w] = NoRun]
  /\ UNCHANGED <<tpl, pubVars, objects, installed, up, remover, mach, failures>>

CrashWorker(w) ==
  /\ repl[w].pc # "idle" /\ Failure /\ repl' = [repl EXCEPT ![w] = NoRun]
  /\ UNCHANGED <<tpl, pubVars, objects, replica, aged, installed, up, remover, mach>>

\* A minute after a failure, a quarter of an hour after a claim.
Age(p) ==
  /\ replica[p] \in {"failed", "pulling"} /\ p \notin aged /\ aged' = aged \cup {p}
  /\ UNCHANGED <<tpl, pubVars, objects, replica, replVars, up, remover, mach, failures>>

HostJoins(h) ==
  /\ h \notin up /\ up' = up \cup {h}
  /\ UNCHANGED <<tpl, pubVars, objects, replica, aged, replVars, remover, mach, failures>>

HostLeaves(h) ==
  /\ h \in up /\ Failure /\ up' = up \ {h}
  /\ UNCHANGED <<tpl, pubVars, objects, replica, aged, replVars, remover, mach>>

-----------------------------------------------------------------------------
Publish(t) ==
  \/ postTemplate(t) \/ findVersion(t) \/ export(t) \/ exportUnanswered(t)
  \/ createUploadGrant(t) \/ upload(t) \/ uploadAnswered(t) \/ uploadUnanswered(t)
  \/ stat(t) \/ insert(t) \/ insertUnanswered(t) \/ deleteObject(t) \/ discard(t)
  \/ cleanupTemplateExports(t) \/ CrashPublisher(t)
Put(g) == putLands(g) \/ putFails(g)
Remove(r) == activeMachines(r) \/ remove(r) \/ \E t \in Templates : lockTemplate(r, t)
Machine(m) ==
  \/ insertRequested(m) \/ run(m) \/ insertChild(m) \/ stop(m)
  \/ \E t \in Templates : shareTemplate(m, t)
  \/ \E h \in ArchHosts : reserve(m, h)
  \/ \E c \in Instances : lockSource(m, c)
runOnce(w) ==
  \/ enqueueMissing(w) \/ enqueueCommits(w) \/ claim(w) \/ verifyStored(w)
  \/ activateReplica(w) \/ activateFails(w) \/ markReady(w) \/ markFailed(w)

TemplatesNext ==
  \/ \E t \in Templates : Publish(t)
  \/ \E g \in puts : Put(g)
  \/ \E r \in Removers : Remove(r)
  \/ \E m \in Instances : Machine(m)
  \/ \E w \in Replicators : runOnce(w) \/ CrashWorker(w)
  \/ \E p \in Templates \X ArchHosts : Age(p)
  \/ \E h \in ArchHosts : HostJoins(h) \/ HostLeaves(h)

TemplatesSpec == TemplatesInit /\ [][TemplatesNext]_templatesVars

-----------------------------------------------------------------------------
(* What the template service promises *)

\* A replica the scheduler may choose belongs to a template that is not deleted and is
\* installed on its host, whichever run claimed it and whatever was removed meanwhile.
ReadyIsInstalled ==
  \A p \in Templates \X ArchHosts : replica[p] = "ready" => tpl[p[1]] = "live" /\ p \in installed

\* The template of a machine that is not terminal is not deleted, and is installed where
\* the machine starts: creations, forks, stops and removals overlap.
ActiveKeepsTemplate ==
  \A m \in Instances : ActiveMachine(m) =>
    /\ tpl[mach[m].t] = "live"
    /\ mach[m].h # None => <<mach[m].t, mach[m].h>> \in installed

\* When a publish request has ended it either left a row with its object or neither a row
\* nor an object, unless an answer of the store or the database was lost.
PublishedOrNothing ==
  ~Outages =>
    \A t \in Templates :
      /\ At(t, "published") => tpl[t] # "none" /\ t \in objects
      /\ At(t, "failed") => tpl[t] = "none" /\ t \notin objects

\* Of two publishers of one version at most one has a row, also after it is deleted.
OneRowPerVersion == \A t \in Templates : tpl[t] # "none" => ~Taken(t)

\* A replica the scheduler may choose is installed, a machine keeps its template, a publish
\* request leaves a row with its object or neither, and a version is published once
\* (domain/templates.ts, jobs/replicate-template.ts).
TemplatesSafe == ReadyIsInstalled /\ ActiveKeepsTemplate /\ PublishedOrNothing /\ OneRowPerVersion

\* A ready replica stays ready until its template is removed: a run that lost its claim
\* cannot fail what another run finished.
ReadyStays ==
  \A p \in Templates \X ArchHosts :
    replica[p] = "ready" => replica'[p] = "ready" \/ tpl'[p[1]] = "deleted"

\* docs/nehemiah/architecture.md:261: replicas are reconstructable from storage, which is
\* the source of the artifacts.
LiveHasObject ==
  \A t \in Templates : tpl[t] = "live" /\ pub[t].pc \in Ended => t \in objects
=============================================================================

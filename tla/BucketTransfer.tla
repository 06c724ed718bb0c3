--------------------------- MODULE BucketTransfer ---------------------------
(***************************************************************************)
(* `freepod bucket cp` and `mv` (cli/src/freepod/objects.py, s3.py): one   *)
(* command that carries files or objects between this machine and the      *)
(* bucket, or within the bucket.  A listing is read page by page while the *)
(* pool works on the names it has given so far; large items travel in      *)
(* parts; a source in the bucket is deleted in batches, after its copy.    *)
(* Any call to the store may fail, Ctrl-C may come at any moment, and the  *)
(* tenant's application may write to the bucket meanwhile.                 *)
(*                                                                         *)
(* A name is the sequence of its segments; a name that ends in the segment *)
(* "" is a folder marker.  A content is the place and name it started at.  *)
(***************************************************************************)
EXTENDS Naturals, FiniteSets, Sequences, SequencesExt

CONSTANTS
    NameOrder,       \* every name in play, in the order a listing gives them
    BigNames,        \* the names whose contents are above SINGLE_PUT_MAX
    FullMarkers,     \* names that end in "" and yet hold data
    Commands,        \* the commands a behaviour may start with
    Parts,           \* the parts of a large content
    PageSize,        \* names per page of a listing
    MaxPending,      \* Pool.run keeps at most workers * 2 items
    DeleteBatch,     \* keys per DeleteObjects call
    MaxStoreFaults,  \* bound: calls, to the store or the disk, that fail
    MaxAppWrites     \* bound: writes of the tenant's application

VARIABLES
    transfer,   \* what was asked, and what both sides held (`had`)
    holds,      \* what the store and the disk hold now
    phase,      \* where the command is
    position,   \* how much of NameOrder the listing has passed
    page,       \* names listed and not yet turned into tasks
    items,      \* the tasks of the pool
    written,    \* local paths an earlier key was given
    temps,      \* temporary files
    uploads,    \* open multipart uploads, by key
    abandoned,  \* the uploads whose abort was refused
    batch,      \* copied sources the Deleter holds back
    deleting,   \* batches on their way to the store
    problems,   \* names reported as skipped
    outside     \* faults so far, and names the application has written

transferVars == <<transfer, holds, phase, position, page, items, written, temps,
                  uploads, abandoned, batch, deleting, problems, outside>>

Names == Range(NameOrder)
Sides == {"store", "disk"}
Nothing == <<>>
Partial == <<"partial">>
Contents == (Sides \cup {"app"}) \X Names

IsMarker(name) == Last(name) = ""
IsFolder(name) == IsMarker(name) /\ name \notin FullMarkers
Under(prefix, name) == IsStrictPrefix(prefix, name)
Relative(name) == SubSeq(name, Len(transfer.from) + 1, Len(name))
ToDisk == transfer.target = "disk"
WithinStore == transfer.source = "store" /\ transfer.target = "store"
Big(content) == content[2] \in BigNames

\* Empty and "." segments are dropped and ".." resolved; Nothing is outside.
LocalPath(relative) ==
    LET walk == FoldLeft(LAMBDA at, segment :
                    IF ~ at.inside \/ segment \in {"", "."} THEN at
                    ELSE IF segment # ".." THEN [at EXCEPT !.path = Append(@, segment)]
                    ELSE IF at.path = <<>> THEN [at EXCEPT !.inside = FALSE]
                    ELSE [at EXCEPT !.path = Front(@)],
                    [path |-> <<>>, inside |-> TRUE], relative)
    IN IF walk.inside /\ walk.path # <<>> THEN transfer.to \o walk.path ELSE Nothing

Destination(name) ==
    IF transfer.single THEN transfer.to
    ELSE IF ToDisk THEN LocalPath(Relative(name))
    ELSE transfer.to \o Relative(name)

\* What a walk of the source side finds from `position` on.
Listed(side) ==
    {name \in Names : holds[side][name] # Nothing /\ Under(transfer.from, name)}

\* A file where a directory is needed, or the other way round.
Blocked(path) ==
    \E name \in Names : /\ holds.disk[name] # Nothing
                        /\ Under(path, name) \/ Under(name, path)

TransferInit ==
    \E c \in Commands :
        /\ transfer = c
        /\ holds = c.had
        /\ phase = "plan"
        /\ position = 0 /\ page = <<>> /\ items = {} /\ written = {} /\ temps = {}
        /\ uploads = {} /\ abandoned = {} /\ batch = {} /\ deleting = {}
        /\ problems = {} /\ outside = [faults |-> 0, wrote |-> {}]

Fault == /\ outside.faults < MaxStoreFaults
         /\ outside' = [outside EXCEPT !.faults = @ + 1]

-----------------------------------------------------------------------------
(* plan_transfer: what needs no transfer to be refused. *)

OntoItself == WithinStore /\ transfer.to = transfer.from
IntoItself == WithinStore /\ ~ transfer.single /\ Under(transfer.from, transfer.to)

Plan ==
    /\ phase = "plan"
    /\ phase' = IF \/ OntoItself
                   \/ IntoItself
                   \/ transfer.single /\ holds[transfer.source][transfer.from] = Nothing
                   \/ ~ transfer.single /\ transfer.source = "store"
                        /\ Listed(transfer.source) = {}
                THEN "refused" ELSE "run"
    /\ page' = IF transfer.single THEN <<transfer.from>> ELSE <<>>
    /\ position' = IF transfer.single THEN Len(NameOrder) ELSE 0
    /\ UNCHANGED <<transfer, holds, items, written, temps, uploads, abandoned, batch,
                   deleting, problems, outside>>

\* Bucket.walk and _walk_local, read as far as the pool needs them.
ListPage ==
    /\ phase = "run" /\ page = <<>> /\ position < Len(NameOrder)
    /\ LET ahead == {k \in position + 1 .. Len(NameOrder) :
                        NameOrder[k] \in Listed(transfer.source)}
           upTo == CHOOSE k \in position + 1 .. Len(NameOrder) :
                       LET seen == {j \in ahead : j <= k}
                       IN \/ Cardinality(seen) = PageSize /\ k \in ahead
                          \/ Cardinality(ahead) < PageSize /\ k = Len(NameOrder)
       IN /\ position' = upTo
          /\ page' = SelectSeq(SubSeq(NameOrder, position + 1, upTo),
                               LAMBDA name : name \in Listed(transfer.source))
    /\ UNCHANGED <<transfer, holds, phase, items, written, temps, uploads, abandoned,
                   batch, deleting, problems, outside>>

TakesTask == /\ phase = "run" /\ page # <<>> /\ Cardinality(items) < MaxPending
             /\ page' = Tail(page)

NewItem(name) == [from |-> name, to |-> Destination(name), step |-> "queued", parts |-> {}]

\* Deleter.add: the batch that is full is deleted by the thread that filled it.
AddToBatch(name) ==
    LET full == Cardinality(batch \cup {name}) >= DeleteBatch
    IN /\ batch' = IF full THEN {} ELSE batch \cup {name}
       /\ deleting' = IF full THEN deleting \cup {batch \cup {name}} ELSE deleting

\* _download_tasks: a key that cannot be a file of its own is said to be skipped.
SkipsKey(name) ==
    /\ ToDisk /\ ~ transfer.single
    /\ \/ Destination(name) = Nothing
       \/ IsMarker(name)
       \/ Destination(name) \in written

\* A folder marker is made into a directory while the tasks are listed; one
\* that holds data is reported and kept.
FolderFails(name) ==
    /\ ToDisk /\ ~ transfer.single /\ IsFolder(name)
    /\ Destination(name) # Nothing
    /\ \E other \in Names : holds.disk[other] # Nothing /\ IsPrefix(other, Destination(name))

SkipKey ==
    /\ TakesTask
    /\ SkipsKey(Head(page)) /\ ~ FolderFails(Head(page))
    /\ LET name == Head(page)
           folder == IsFolder(name) /\ Destination(name) # Nothing
       IN /\ problems' = IF folder \/ Relative(name) = <<"">> THEN problems
                         ELSE problems \cup {name}
          /\ IF folder /\ transfer.move THEN AddToBatch(name)
             ELSE UNCHANGED <<batch, deleting>>
    /\ UNCHANGED <<transfer, holds, phase, position, items, written, temps, uploads,
                   abandoned, outside>>

\* Outside _guard, so mkdir's failure ends the run like Ctrl-C does.
StopTheRun == /\ phase' = "stopping"
              /\ page' = <<>>
              /\ items' = {item \in items : item.step # "queued"}

MakeFolderFails ==
    /\ phase = "run" /\ page # <<>> /\ FolderFails(Head(page))
    /\ StopTheRun
    /\ UNCHANGED <<transfer, holds, position, written, temps, uploads, abandoned, batch,
                   deleting, problems, outside>>

SubmitTask ==
    /\ TakesTask
    /\ ~ SkipsKey(Head(page))
    /\ items' = items \cup {NewItem(Head(page))}
    /\ written' = IF ToDisk THEN written \cup {Destination(Head(page))} ELSE written
    /\ UNCHANGED <<transfer, holds, phase, position, temps, uploads, abandoned, batch,
                   deleting, problems, outside>>

-----------------------------------------------------------------------------
(* One item: upload_file, download_object, copy_object. *)

Goes(item, step) == items' = (items \ {item}) \cup {[item EXCEPT !.step = step]}
Leaves(item) == items' = items \ {item}
Reports(item) == problems' = problems \cup {item.from}
Put(side, name, content) == holds' = [holds EXCEPT ![side][name] = content]
SourceOf(item) == holds[transfer.source][item.from]

BeginItem(item) ==
    /\ item.step = "queued" /\ phase = "run"
    /\ IF SourceOf(item) = Nothing \/ (ToDisk /\ Blocked(item.to))
       THEN Leaves(item) /\ Reports(item) /\ UNCHANGED <<temps, uploads>>
       ELSE /\ UNCHANGED problems
            /\ temps' = IF ToDisk THEN temps \cup {item.to} ELSE temps
            /\ uploads' = IF ~ ToDisk /\ Big(SourceOf(item))
                          THEN uploads \cup {item.to} ELSE uploads
            /\ Goes(item, CASE ToDisk -> "receiving"
                            [] ~ ToDisk /\ Big(SourceOf(item)) -> "parts"
                            [] OTHER -> "put")
    /\ UNCHANGED <<transfer, holds, phase, position, page, written, abandoned, batch,
                   deleting, outside>>

\* put and copy: one call, for what is small enough.
PutWhole(item) ==
    /\ item.step = "put"
    /\ IF SourceOf(item) = Nothing
       THEN Leaves(item) /\ Reports(item) /\ UNCHANGED holds
       ELSE Put(transfer.target, item.to, SourceOf(item)) /\ Goes(item, "copied")
            /\ UNCHANGED problems
    /\ UNCHANGED <<transfer, phase, position, page, written, temps, uploads, abandoned,
                   batch, deleting, outside>>

\* The parts of an upload run beside each other and look at the stop flag.
Noticed == phase = "stopping" /\ ~ WithinStore

UploadPart(item) ==
    /\ item.step = "parts" /\ ~ Noticed
    /\ \E part \in Parts \ item.parts :
           items' = (items \ {item}) \cup {[item EXCEPT !.parts = @ \cup {part}]}
    /\ UNCHANGED <<transfer, holds, phase, position, page, written, temps, uploads,
                   abandoned, batch, deleting, problems, outside>>

CompleteMultipart(item) ==
    /\ item.step = "parts" /\ item.parts = Parts /\ ~ Noticed
    /\ IF SourceOf(item) = Nothing
       THEN Goes(item, "failing") /\ UNCHANGED <<holds, uploads>>
       ELSE /\ Put(transfer.target, item.to, SourceOf(item))
            /\ uploads' = uploads \ {item.to}
            /\ Goes(item, "copied")
    /\ UNCHANGED <<transfer, phase, position, page, written, temps, abandoned, batch,
                   deleting, problems, outside>>

\* `except BaseException`: the parts are waited for, then the upload is aborted.
StopsUpload(item) ==
    /\ item.step = "parts"
    /\ \/ Noticed /\ UNCHANGED outside
       \/ Fault
    /\ Goes(item, "failing")
    /\ UNCHANGED <<transfer, holds, phase, position, page, written, temps, uploads,
                   abandoned, batch, deleting, problems>>

AbortMultipart(item) ==
    /\ item.step = "failing"
    /\ \/ uploads' = uploads \ {item.to} /\ UNCHANGED <<abandoned, outside>>
       \/ Fault /\ abandoned' = abandoned \cup {item.to} /\ UNCHANGED uploads
    /\ Leaves(item) /\ Reports(item)
    /\ UNCHANGED <<transfer, holds, phase, position, page, written, temps, batch, deleting>>

\* The temporary file is checked and moved into place, or removed.
Receive(item) ==
    /\ item.step = "receiving" /\ ~ Noticed
    /\ SourceOf(item) # Nothing /\ ~ Blocked(item.to)
    /\ temps' = temps \ {item.to}
    /\ Put("disk", item.to, SourceOf(item))
    /\ Goes(item, "copied")
    /\ UNCHANGED <<transfer, phase, position, page, written, uploads, abandoned, batch,
                   deleting, problems, outside>>

ReceiveFails(item) ==
    /\ item.step = "receiving"
    /\ \/ (Noticed \/ SourceOf(item) = Nothing \/ Blocked(item.to)) /\ UNCHANGED outside
       \/ Fault
    /\ temps' = temps \ {item.to}
    /\ Leaves(item) /\ Reports(item)
    /\ UNCHANGED <<transfer, holds, phase, position, page, written, uploads, abandoned,
                   batch, deleting>>

\* Mutant of CallFails: a call that failed is taken for one that succeeded.
CallFails_Swallowed(item) ==
    /\ item.step = "put"
    /\ Fault
    /\ Goes(item, "copied")
    /\ UNCHANGED <<transfer, holds, phase, position, page, written, temps, uploads,
                   abandoned, batch, deleting, problems>>

\* _guard: a call that fails is a reported skip, and the source is kept.
CallFails(item) ==
    /\ item.step = "put"
    /\ Fault
    /\ Leaves(item) /\ Reports(item)
    /\ UNCHANGED <<transfer, holds, phase, position, page, written, temps, uploads,
                   abandoned, batch, deleting>>

\* What `move` adds: path.unlink() for a file, deleter.add for an object.
FinishItem(item) ==
    /\ item.step = "copied"
    /\ Leaves(item)
    /\ IF transfer.move /\ transfer.source = "disk"
       THEN Put("disk", item.from, Nothing) /\ UNCHANGED <<batch, deleting>>
       ELSE IF transfer.move THEN AddToBatch(item.from) /\ UNCHANGED holds
       ELSE UNCHANGED <<holds, batch, deleting>>
    /\ UNCHANGED <<transfer, phase, position, page, written, temps, uploads, abandoned,
                   problems, outside>>

\* The file cannot be removed: _guard reports the item, which has been copied.
UnlinkFails(item) ==
    /\ item.step = "copied" /\ transfer.move /\ transfer.source = "disk"
    /\ Fault
    /\ Leaves(item) /\ Reports(item)
    /\ UNCHANGED <<transfer, holds, phase, position, page, written, temps, uploads,
                   abandoned, batch, deleting>>

-----------------------------------------------------------------------------
(* The Deleter, the end of the run, and what comes from outside. *)

DeleteMany(keys) ==
    /\ deleting' = deleting \ {keys}
    /\ \/ /\ holds' = [holds EXCEPT !.store =
                          [name \in Names |-> IF name \in keys THEN Nothing ELSE @[name]]]
          /\ UNCHANGED <<problems, outside>>
       \/ Fault /\ problems' = problems \cup keys /\ UNCHANGED holds
    /\ UNCHANGED <<transfer, phase, position, page, items, written, temps, uploads,
                   abandoned, batch>>

EndOfRun ==
    /\ phase = "run" /\ page = <<>> /\ position = Len(NameOrder) /\ items = {}
    /\ phase' = "finish"
    /\ deleting' = IF batch = {} THEN deleting ELSE deleting \cup {batch}
    /\ batch' = {}
    /\ UNCHANGED <<transfer, holds, position, page, items, written, temps, uploads,
                   abandoned, problems, outside>>

\* Ctrl-C: what has not begun is cancelled, and plan.finish is not reached.
InterruptTransfer ==
    /\ phase = "run"
    /\ StopTheRun
    /\ UNCHANGED <<transfer, holds, position, written, temps, uploads, abandoned, batch,
                   deleting, problems, outside>>

Leave ==
    /\ phase \in {"finish", "stopping"} /\ items = {} /\ deleting = {}
    /\ phase' = IF phase = "stopping" THEN "interrupted"
                ELSE IF problems = {} THEN "done" ELSE "failed"
    /\ UNCHANGED <<transfer, holds, position, page, items, written, temps, uploads,
                   abandoned, batch, deleting, problems, outside>>

\* The tenant's application writes or removes an object.
TenantWrites(name) ==
    /\ phase \in {"plan", "run", "stopping", "finish"}
    /\ Cardinality(outside.wrote) < MaxAppWrites
    /\ \E content \in {Nothing, <<"app", name>>} : Put("store", name, content)
    /\ outside' = [outside EXCEPT !.wrote = @ \cup {name}]
    /\ UNCHANGED <<transfer, phase, position, page, items, written, temps, uploads,
                   abandoned, batch, deleting, problems>>

TransferNext ==
    \/ Plan \/ ListPage \/ SkipKey \/ MakeFolderFails \/ SubmitTask
    \/ \E item \in items :
          \/ BeginItem(item) \/ PutWhole(item) \/ UploadPart(item)
          \/ CompleteMultipart(item) \/ StopsUpload(item) \/ AbortMultipart(item)
          \/ Receive(item) \/ ReceiveFails(item) \/ CallFails(item)
          \/ FinishItem(item) \/ UnlinkFails(item)
    \/ \E keys \in deleting : DeleteMany(keys)
    \/ EndOfRun \/ InterruptTransfer \/ Leave
    \/ \E name \in Names : TenantWrites(name)

TransferSpec == TransferInit /\ [][TransferNext]_transferVars

-----------------------------------------------------------------------------
(* Properties *)

Exited == phase \in {"done", "failed", "interrupted"}

\* What the command was asked to carry.
Asked == {name \in Names :
            /\ transfer.had[transfer.source][name] # Nothing
            /\ IF transfer.single THEN name = transfer.from ELSE Under(transfer.from, name)}

\* Types of the transfer's state.
TransferTypeOK ==
    /\ transfer \in Commands
    /\ holds \in [Sides -> [Names -> Contents \cup {Nothing}]]
    /\ phase \in {"plan", "refused", "run", "stopping", "finish", "done", "failed",
                  "interrupted"}
    /\ \A item \in items : /\ item.from \in Names /\ item.to \in Names
                           /\ item.step \in {"queued", "put", "parts", "failing",
                                             "receiving", "copied"}
    /\ temps \cup uploads \cup abandoned \cup batch \cup problems \subseteq Names

\* Whatever fails, and whenever Ctrl-C comes, a content that was to be carried
\* is at its source or at its destination, unless the application wrote over it
\* there: mv deletes a source only after its copy (objects.py, Deleter and _guard).
NothingLost ==
    \A name \in Asked :
        \/ ToDisk /\ IsFolder(name)
        \/ \E side \in Sides, other \in Names :
               holds[side][other] = transfer.had[transfer.source][name]
        \/ {name, Destination(name)} \cap outside.wrote # {}

\* Exit code 0 is said only of a transfer that carried everything: what is
\* skipped has been reported, but for a download's folder markers and a key that
\* is the prefix itself.
SuccessIsComplete ==
    phase = "done" /\ outside.wrote = {} =>
        \A name \in Asked :
            \/ ToDisk /\ (IsFolder(name) \/ Relative(name) = <<"">>)
            \/ holds[transfer.target][Destination(name)] = transfer.had[transfer.source][name]

\* A command that ends by itself, Ctrl-C included, leaves no temporary file, and
\* no multipart upload but one whose abort the store refused.
NoDebris == Exited => temps = {} /\ uploads \subseteq abandoned

\* A copy that succeeds is complete, one that fails leaves no debris, and a
\* move loses nothing.
TransfersAreSound == TransferTypeOK /\ NothingLost /\ SuccessIsComplete /\ NoDebris
=============================================================================

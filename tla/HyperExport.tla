---------------------------- MODULE HyperExport ----------------------------
(***************************************************************************)
(* hyperexport, the command line (cmd/hyperexport/main.go, run): one       *)
(* virtual machine exported to one directory, then packaged, verified,     *)
(* encrypted, uploaded and removed as the flags say, over several runs on  *)
(* that directory, any of which may fail or die at any step.  ExportOVF is *)
(* its contract, which ResumableDownload implements; run sets no CleanupOVF.*)
(*                                                                         *)
(* A file is kept as itself ("plain") or encrypted ("enc", the same name   *)
(* with .enc), in the export directory, in its sibling "-encrypted", or in *)
(* the bucket.  Files encrypted twice, when an encrypted export is         *)
(* repeated in its directory, are left out: they only add copies.  A write *)
(* that reports success is on the disk: errors of Close, which EncryptFile *)
(* logs and Upload ignores, are left out.                                  *)
(***************************************************************************)
EXTENDS ExportContract, Naturals

CONSTANTS Setups,   \* the flags a run may be given
          MaxRuns,  \* bound: runs on the directory
          None      \* no file

ASSUME NeverCleans == Cleans = FALSE
ASSUME FlagRecords ==
    Setups \subseteq [ova : BOOLEAN, verify : BOOLEAN, encrypt : BOOLEAN,
                      upload : BOOLEAN, keepLocal : BOOLEAN]
ASSUME RunsBounded == MaxRuns \in Nat

Docs == {"plain", "enc"} \X Files

ASSUME NoneIsNoFile == None \notin Files \cup Docs

VARIABLES
    stage,     \* how far the run is; "off" when there is none
    flags,     \* its flags
    sealed,    \* how much of f.enc is in the export directory
    box,       \* how much of f.enc is in its sibling "-encrypted"
    remote,    \* how much of each document is in the bucket
    todo,      \* what the walk of a directory has yet to visit
    writing,   \* the file that is being written
    exported,  \* history: ExportOVF has succeeded in some run
    runs

copies == <<dir, sealed, box, remote>>
walk == <<todo, writing>>
vars == <<contractVars, stage, flags, sealed, box, remote, walk, exported, runs>>

Stages == {"off", "checks", "export", "ova", "verify", "encrypt", "clear", "rename",
           "upload", "drop", "record", "done"}

TypeOK ==
    /\ ContractTypeOK
    /\ stage \in Stages
    /\ flags \in Setups \cup {None}
    /\ sealed \in [Files -> Amounts] /\ box \in [Files -> Amounts]
    /\ remote \in [Docs -> Amounts]
    /\ todo \subseteq Files \cup Docs
    /\ writing \in Files \cup Docs \cup {None}
    /\ exported \in BOOLEAN
    /\ runs \in 0 .. MaxRuns

Init ==
    /\ ContractInit
    /\ stage = "off" /\ flags = None
    /\ sealed = [f \in Files |-> "none"] /\ box = [f \in Files |-> "none"]
    /\ remote = [d \in Docs |-> "none"]
    /\ todo = {} /\ writing = None /\ exported = FALSE /\ runs = 0

(* How much of a document the export directory holds. *)
Local(d) == IF d[1] = "plain" THEN dir[d[2]] ELSE sealed[d[2]]
Present == {d \in Docs : Local(d) # "none"}

Goto(from, to) == stage = from /\ stage' = to

-----------------------------------------------------------------------------
(* Connect, look the machine up, power it off, validate; each may fail, and *)
(* -dry-run and -validate-only end here.                                    *)
Start(o) ==
    /\ Goto("off", "checks") /\ runs < MaxRuns
    /\ flags' = o /\ runs' = runs + 1
    /\ UNCHANGED <<contractVars, sealed, box, remote, walk, exported>>

(* run returns before its end, or dies: nothing is undone. *)
Stops ==
    /\ stage' = "off" /\ flags' = None
    /\ todo' = {} /\ writing' = None
    /\ UNCHANGED <<sealed, box, remote, exported, runs>>

(* client.ExportOVF *)
CallExport ==
    /\ Goto("checks", "export") /\ Begin
    /\ UNCHANGED <<flags, sealed, box, remote, walk, exported, runs>>

ExportWorks ==
    /\ stage = "export" /\ Working
    /\ UNCHANGED <<stage, flags, sealed, box, remote, walk, exported, runs>>

ExportSucceeds ==
    /\ call = "done" /\ Goto("export", "ova") /\ Over
    /\ exported' = TRUE
    /\ UNCHANGED <<flags, sealed, box, remote, walk, runs>>

ExportFails == stage = "export" /\ call = "failed" /\ Over /\ Stops

-----------------------------------------------------------------------------
(* What a stage leads to, as the flags say. *)
AfterSealing == IF flags.upload THEN "upload" ELSE "record"
AfterChecking == IF flags.encrypt THEN "encrypt" ELSE AfterSealing

(* The walks of EncryptDirectory and UploadDirectory.  Of the export       *)
(* directory the first meets the plain files, and encrypted ones of an     *)
(* earlier run, which are left out.                                        *)
Enter(next) ==
    /\ stage' = next
    /\ todo' = CASE next = "encrypt" -> Files
                 [] next = "upload"  -> Present
                 [] OTHER            -> {}
    /\ writing' = None

(* CreateOVA, when asked for; its archive is a copy that is not followed. *)
MakeOVA ==
    /\ Goto("ova", "verify")
    /\ UNCHANGED <<contractVars, flags, sealed, box, remote, walk, exported, runs>>

(* Post-export validation only warns; verifyExport reads every file. *)
Verify ==
    /\ stage = "verify" /\ Enter(AfterChecking)
    /\ UNCHANGED <<contractVars, flags, sealed, box, remote, exported, runs>>

(* An error of CreateOVA, verifyExport, EncryptDirectory, or os.Rename. *)
StageFails ==
    /\ \/ stage = "checks"
       \/ stage = "ova" /\ flags.ova
       \/ stage = "verify" /\ flags.verify
       \/ stage \in {"encrypt", "rename"}
    /\ Stops /\ UNCHANGED contractVars

-----------------------------------------------------------------------------
(* EncryptFile: os.Create cuts what an earlier run left; then the chunks. *)
OpenSealed(f) ==
    /\ stage = "encrypt" /\ writing = None /\ f \in todo
    /\ writing' = f
    /\ box' = [box EXCEPT ![f] = "part"]
    /\ UNCHANGED <<contractVars, stage, flags, sealed, remote, todo, exported, runs>>

WriteSealed(f) ==
    /\ stage = "encrypt" /\ writing = f
    /\ box' = [box EXCEPT ![f] = "whole"]
    /\ todo' = todo \ {f} /\ writing' = None
    /\ UNCHANGED <<contractVars, stage, flags, sealed, remote, exported, runs>>

Encrypted ==
    /\ Goto("encrypt", "clear") /\ todo = {}
    /\ UNCHANGED <<contractVars, flags, sealed, box, remote, walk, exported, runs>>

(* os.RemoveAll(exportDir), before the rename and after the upload. *)
RemoveLocal(d) ==
    /\ stage \in {"clear", "drop"} /\ d \in Present
    /\ IF d[1] = "plain"
       THEN dir' = [dir EXCEPT ![d[2]] = "none"] /\ UNCHANGED sealed
       ELSE sealed' = [sealed EXCEPT ![d[2]] = "none"] /\ UNCHANGED dir
    /\ UNCHANGED <<packaged, call, stage, flags, box, remote, walk, exported, runs>>

(* It has removed everything, or an error that is only logged ended it. *)
RemoveEnds ==
    /\ Goto("clear", "rename") \/ Goto("drop", "record")
    /\ UNCHANGED <<contractVars, flags, sealed, box, remote, walk, exported, runs>>

(* Mutant: the error of os.Rename is only logged, like RemoveAll's. *)
RenameWarned ==
    /\ stage = "rename"
    /\ IF Present = {} THEN sealed' = box /\ box' = [f \in Files |-> "none"]
       ELSE UNCHANGED <<sealed, box>>
    /\ stage' = AfterSealing
    /\ todo' = IF stage' = "upload"
               THEN {d \in Docs : IF d[1] = "enc" THEN sealed'[d[2]] # "none"
                                                  ELSE dir[d[2]] # "none"}
               ELSE {}
    /\ UNCHANGED <<contractVars, flags, remote, writing, exported, runs>>

(* os.Rename refuses a target that is a directory: it has to be gone. *)
Rename ==
    /\ stage = "rename" /\ Present = {}
    /\ sealed' = box /\ box' = [f \in Files |-> "none"]
    /\ stage' = AfterSealing
    /\ todo' = IF flags.upload THEN {"enc"} \X {f \in Files : box[f] # "none"} ELSE {}
    /\ UNCHANGED <<contractVars, flags, remote, writing, exported, runs>>

-----------------------------------------------------------------------------
(* storage.Upload: SFTP cuts the remote file, a bucket keeps the old object *)
(* until the new one is complete.                                           *)
OpenRemote(d) ==
    /\ stage = "upload" /\ writing = None /\ d \in todo
    /\ writing' = d
    /\ remote' \in {remote, [remote EXCEPT ![d] = "part"]}
    /\ UNCHANGED <<contractVars, stage, flags, sealed, box, todo, exported, runs>>

WriteRemote(d) ==
    /\ stage = "upload" /\ writing = d
    /\ remote' = [remote EXCEPT ![d] = Local(d)]
    /\ todo' = todo \ {d} /\ writing' = None
    /\ UNCHANGED <<contractVars, stage, flags, sealed, box, exported, runs>>

(* Mutant: the local copy goes whether or not the upload succeeded. *)
UploadFailsDropped ==
    /\ stage = "upload"
    /\ Enter(IF flags.keepLocal THEN "record" ELSE "drop")
    /\ UNCHANGED <<contractVars, flags, sealed, box, remote, exported, runs>>

(* NewCloudStorage or UploadDirectory fails: an error is logged. *)
UploadFails ==
    /\ stage = "upload" /\ Enter("record")
    /\ UNCHANGED <<contractVars, flags, sealed, box, remote, exported, runs>>

Uploaded ==
    /\ stage = "upload" /\ todo = {}
    /\ Enter(IF flags.keepLocal THEN "record" ELSE "drop")
    /\ UNCHANGED <<contractVars, flags, sealed, box, remote, exported, runs>>

(* The history, the incremental metadata and the audit log are told, as    *)
(* far as they can be.                                                     *)
Record ==
    /\ Goto("record", "done")
    /\ UNCHANGED <<contractVars, flags, sealed, box, remote, walk, exported, runs>>

Return == stage = "done" /\ Stops /\ UNCHANGED contractVars

(* A signal, or a crash. *)
Dies ==
    /\ stage \notin {"off", "done"} /\ Stops
    /\ IF call = "idle" THEN UNCHANGED contractVars ELSE Over

Next ==
    \/ \E o \in Setups : Start(o)
    \/ CallExport \/ ExportWorks \/ ExportSucceeds \/ ExportFails
    \/ MakeOVA \/ Verify \/ StageFails
    \/ \E f \in Files : OpenSealed(f) \/ WriteSealed(f)
    \/ Encrypted \/ RemoveEnds \/ Rename
    \/ \E d \in Docs : RemoveLocal(d) \/ OpenRemote(d) \/ WriteRemote(d)
    \/ UploadFails \/ Uploaded \/ Record \/ Return \/ Dies

Spec == Init /\ [][Next]_vars

-----------------------------------------------------------------------------
(* Properties. *)

(* Once an export has succeeded, every file is whole somewhere, in the     *)
(* clear or encrypted, whatever step of this or a later run fails or is    *)
(* cut short: EncryptFile, RemoveAll, Rename and Upload each destroy a     *)
(* copy, and never the last one.                                           *)
Kept(f) ==
    \/ "whole" \in {dir[f], sealed[f], box[f]}
    \/ \E form \in {"plain", "enc"} : remote[<<form, f>>] = "whole"

ExportKept == exported => \A f \in Files : Kept(f)

(* A run that was asked to encrypt and reports success has left no file in *)
(* the clear in the export directory, though the removal of the clear      *)
(* files may fail with a mere warning.                                     *)
NoClearCopyLeft ==
    stage = "done" /\ flags.encrypt => \A f \in Files : dir[f] = "none"

(* A run that was asked to encrypt uploads nothing in the clear.           *)
ClearStaysHome ==
    [][\A f \in Files : remote'[<<"plain", f>>] # remote[<<"plain", f>>]
                            => ~flags.encrypt]_vars
=============================================================================

------------------------- MODULE HyperExportProofs -------------------------
(***************************************************************************)
(* Proofs about the command line's pipeline, for any files, any flags and  *)
(* any number of runs.                                                     *)
(*                                                                         *)
(* ExportKept is not inductive: what may be destroyed next depends on how  *)
(* far the run is.  Safe says, stage by stage, where every file is whole;  *)
(* each stage that destroys a copy hands over to one that needs it no more.*)
(* CallState ties the stage to the contract of ExportOVF, and Clear says   *)
(* from which stage on an encrypted export holds nothing in the clear.     *)
(***************************************************************************)
EXTENDS HyperExport, TLAPS

AllWhole == \A f \in Files : dir[f] = "whole"

CallState ==
    /\ call # "idle" <=> stage = "export"
    /\ packaged => call # "idle" /\ AllWhole
    /\ call = "done" => packaged

(* Where every file is whole, and what the walks have done. *)
Safe ==
    /\ stage \in {"ova", "verify", "encrypt"} => AllWhole
    /\ stage = "encrypt" => \A f \in Files : f \notin todo => box[f] = "whole"
    /\ stage \in {"clear", "rename"} => \A f \in Files : box[f] = "whole"
    /\ stage = "upload" => \A f \in Files : dir[f] = "whole" \/ sealed[f] = "whole"
    /\ stage = "drop" => \A f \in Files : \/ remote[<<"plain", f>>] = "whole"
                                          \/ remote[<<"enc", f>>] = "whole"

Sent ==
    stage = "upload" =>
        /\ todo \subseteq Present
        /\ \A d \in Docs : Local(d) = "whole" /\ d \notin todo => remote[d] = "whole"

(* What a walk writes it has yet to visit, and nobody else writes. *)
Walked == writing # None => stage \in {"encrypt", "upload"} /\ writing \in todo

Clear ==
    stage \in {"upload", "drop", "record", "done"} /\ flags.encrypt
        => \A f \in Files : dir[f] = "none"

Inv == TypeOK /\ CallState /\ Safe /\ Sent /\ Walked /\ Clear /\ ExportKept

-----------------------------------------------------------------------------
(* A document of a file is a pair of a form and the file. *)
LEMMA DocsAre ==
    /\ \A f \in Files : <<"plain", f>> \in Docs /\ <<"enc", f>> \in Docs
    /\ \A d \in Docs : \/ \E f \in Files : d = <<"plain", f>>
                       \/ \E f \in Files : d = <<"enc", f>>
BY DEF Docs

(* What the export directory holds of a document, by its form. *)
LEMMA LocalIs ==
    \A f \in Files : Local(<<"plain", f>>) = dir[f] /\ Local(<<"enc", f>>) = sealed[f]
BY DEF Local

(* Nothing is on disk before the first run. *)
LEMMA InitInv == Init => Inv
<1> SUFFICES ASSUME Init PROVE Inv
  OBVIOUS
<1> USE DEF Init, ContractInit
<1>1. ContractTypeOK BY DEF ContractTypeOK, Amounts
<1>2. runs \in 0 .. MaxRuns BY RunsBounded
<1>3. sealed \in [Files -> Amounts] /\ box \in [Files -> Amounts] /\ remote \in [Docs -> Amounts]
  BY DEF Amounts
<1>4. TypeOK BY <1>1, <1>2, <1>3 DEF TypeOK, Stages
<1>5. CallState /\ Safe /\ Sent /\ Walked /\ Clear /\ ExportKept
  BY DEF CallState, Safe, Sent, Walked, Clear, ExportKept
<1> QED BY <1>4, <1>5 DEF Inv

(* Types, action by action. *)
LEMMA StepTypes == TypeOK /\ [Next]_vars => TypeOK'
<1> SUFFICES ASSUME TypeOK, [Next]_vars PROVE TypeOK'
  OBVIOUS
<1> USE DEF TypeOK, ContractTypeOK, Amounts, Stages
<1>1. ASSUME NEW o \in Setups, Start(o) PROVE TypeOK'
  BY <1>1, RunsBounded DEF Start, Goto, contractVars, walk
<1>2. CASE CallExport BY <1>2 DEF CallExport, Goto, Begin, walk
<1>3. CASE ExportWorks
  <2>1. ContractTypeOK'
    BY <1>3 DEF ExportWorks, Working, Package, Succeed, Fail, Write
  <2> QED BY <1>3, <2>1 DEF ExportWorks, walk
<1>4. CASE ExportSucceeds BY <1>4 DEF ExportSucceeds, Goto, Over, walk
<1>5. CASE ExportFails BY <1>5 DEF ExportFails, Over, Stops
<1>6. CASE MakeOVA BY <1>6 DEF MakeOVA, Goto, contractVars, walk
<1>7. CASE Verify
  <2>1. stage' \in Stages /\ todo' \subseteq Files \cup Docs /\ writing' = None
    BY <1>7 DEF Verify, Enter, AfterChecking, AfterSealing, Present
  <2> QED BY <1>7, <2>1 DEF Verify, contractVars
<1>8. CASE StageFails BY <1>8 DEF StageFails, Stops, contractVars
<1>9. ASSUME NEW f \in Files, OpenSealed(f) PROVE TypeOK'
  BY <1>9 DEF OpenSealed, contractVars
<1>10. ASSUME NEW f \in Files, WriteSealed(f) PROVE TypeOK'
  BY <1>10 DEF WriteSealed, contractVars
<1>11. CASE Encrypted BY <1>11 DEF Encrypted, Goto, contractVars, walk
<1>12. CASE RemoveEnds BY <1>12 DEF RemoveEnds, Goto, contractVars, walk
<1>13. CASE Rename
  <2>1. stage' \in Stages /\ todo' \subseteq Files \cup Docs
    BY <1>13 DEF Rename, AfterSealing, Docs
  <2> QED BY <1>13, <2>1 DEF Rename, contractVars
<1>14. ASSUME NEW d \in Docs, RemoveLocal(d) PROVE TypeOK'
  <2>1. dir' \in [Files -> Amounts] /\ sealed' \in [Files -> Amounts]
    BY <1>14 DEF RemoveLocal
  <2> QED BY <1>14, <2>1 DEF RemoveLocal, walk
<1>15. ASSUME NEW d \in Docs, OpenRemote(d) PROVE TypeOK'
  BY <1>15 DEF OpenRemote, contractVars
<1>16. ASSUME NEW d \in Docs, WriteRemote(d) PROVE TypeOK'
  <2>1. Local(d) \in Amounts
    BY DEF Local, Docs
  <2> QED BY <1>16, <2>1 DEF WriteRemote, contractVars
<1>17. CASE UploadFails BY <1>17 DEF UploadFails, Enter, contractVars
<1>18. CASE Uploaded BY <1>18 DEF Uploaded, Enter, contractVars
<1>19. CASE Record BY <1>19 DEF Record, Goto, contractVars, walk
<1>20. CASE Return BY <1>20 DEF Return, Stops, contractVars
<1>21. CASE Dies BY <1>21 DEF Dies, Stops, contractVars, Over
<1>22. CASE UNCHANGED vars BY <1>22 DEF vars, contractVars, walk
<1> QED BY <1>1, <1>2, <1>3, <1>4, <1>5, <1>6, <1>7, <1>8, <1>9, <1>10, <1>11, <1>12,
           <1>13, <1>14, <1>15, <1>16, <1>17, <1>18, <1>19, <1>20, <1>21, <1>22 DEF Next

-----------------------------------------------------------------------------
(* The call's state and the stage move together. *)
LEMMA StepCall == Inv /\ [Next]_vars => CallState'
<1> SUFFICES ASSUME Inv, [Next]_vars PROVE CallState'
  OBVIOUS
<1> USE DEF Inv, TypeOK, ContractTypeOK, CallState, AllWhole
<1>1. CASE UNCHANGED contractVars /\ (stage = "export" <=> stage' = "export")
  BY <1>1 DEF contractVars
<1>2. CASE CallExport BY <1>2 DEF CallExport, Goto, Begin
<1>3. CASE ExportWorks
  BY <1>3 DEF ExportWorks, Working, Package, Succeed, Fail, Write
<1>4. CASE ExportSucceeds \/ ExportFails \/ Dies
  BY <1>4, <1>1 DEF ExportSucceeds, ExportFails, Dies, Goto, Over, Stops
<1>5. ASSUME NEW d \in Docs, RemoveLocal(d) PROVE CallState'
  BY <1>5 DEF RemoveLocal
<1>6. CASE \/ \E o \in Setups : Start(o)
           \/ MakeOVA \/ StageFails \/ Encrypted \/ RemoveEnds \/ Record \/ Return
           \/ \E f \in Files : OpenSealed(f) \/ WriteSealed(f)
           \/ \E d \in Docs : OpenRemote(d) \/ WriteRemote(d)
           \/ UNCHANGED vars
  BY <1>1, <1>6 DEF Start, MakeOVA, StageFails, Encrypted, RemoveEnds, Record, Return,
     OpenSealed, WriteSealed, OpenRemote, WriteRemote, vars, Goto, Stops
<1>7. CASE Verify \/ UploadFails \/ Uploaded \/ Rename
  BY <1>1, <1>7 DEF Verify, UploadFails, Uploaded, Rename, Enter, AfterChecking, AfterSealing
<1> QED BY <1>2, <1>3, <1>4, <1>5, <1>6, <1>7 DEF Next

(* Outside of ExportOVF only RemoveLocal takes plain files, only the       *)
(* pipeline writes the others.                                             *)
LEMMA StepSafe == Inv /\ [Next]_vars => Safe' /\ Clear'
<1> SUFFICES ASSUME Inv, [Next]_vars PROVE Safe' /\ Clear'
  OBVIOUS
<1> USE DEF Inv, TypeOK, ContractTypeOK, CallState, AllWhole, Safe, Clear
<1>1. CASE stage' \in {"off", "checks", "export"} BY <1>1
<1>2. CASE \/ \E o \in Setups : Start(o)
           \/ CallExport \/ ExportWorks \/ ExportFails \/ StageFails \/ Return \/ Dies
  BY <1>1, <1>2 DEF Start, CallExport, ExportWorks, ExportFails, StageFails, Return, Dies,
     Goto, Stops
<1>3. CASE ExportSucceeds BY <1>3 DEF ExportSucceeds, Goto, Over
<1>4. CASE MakeOVA BY <1>4 DEF MakeOVA, Goto, contractVars
<1>5. CASE Verify
  BY <1>5 DEF Verify, Enter, AfterChecking, AfterSealing, contractVars
<1>6. ASSUME NEW f \in Files, OpenSealed(f) PROVE Safe' /\ Clear'
  BY <1>6 DEF OpenSealed, contractVars
<1>7. ASSUME NEW f \in Files, WriteSealed(f) PROVE Safe' /\ Clear'
  BY <1>7 DEF WriteSealed, contractVars
<1>8. CASE Encrypted BY <1>8 DEF Encrypted, Goto, contractVars, walk
<1>9. ASSUME NEW d \in Docs, RemoveLocal(d) PROVE Safe' /\ Clear'
  BY <1>9 DEF RemoveLocal
<1>10. CASE RemoveEnds BY <1>10 DEF RemoveEnds, Goto, contractVars, walk
<1>11. CASE Rename
  <2>1. \A f \in Files : dir[f] = "none"
    BY <1>11, DocsAre, LocalIs DEF Rename, Present
  <2> QED BY <1>11, <2>1 DEF Rename, AfterSealing, contractVars
<1>12. ASSUME NEW d \in Docs, OpenRemote(d) PROVE Safe' /\ Clear'
  BY <1>12 DEF OpenRemote, contractVars
<1>13. ASSUME NEW d \in Docs, WriteRemote(d) PROVE Safe' /\ Clear'
  BY <1>13 DEF WriteRemote, contractVars
<1>14. CASE UploadFails BY <1>14 DEF UploadFails, Enter, contractVars
<1>15. CASE Uploaded
  <2>1. \A f \in Files : \/ remote[<<"plain", f>>] = "whole"
                         \/ remote[<<"enc", f>>] = "whole"
    BY <1>15, DocsAre DEF Uploaded, Sent, Local
  <2> QED BY <1>15, <2>1 DEF Uploaded, Enter, contractVars
<1>16. CASE Record BY <1>16 DEF Record, Goto, contractVars
<1>17. CASE UNCHANGED vars BY <1>17 DEF vars, contractVars, walk
<1> QED BY <1>2, <1>3, <1>4, <1>5, <1>6, <1>7, <1>8, <1>9, <1>10, <1>11, <1>12, <1>13,
           <1>14, <1>15, <1>16, <1>17 DEF Next

(* The walk of UploadDirectory has sent what it no longer has to visit. *)
LEMMA StepSent == Inv /\ [Next]_vars => Sent'
<1> SUFFICES ASSUME Inv, [Next]_vars PROVE Sent'
  OBVIOUS
<1> USE DEF Inv, TypeOK, ContractTypeOK, Sent, Present
<1>1. CASE stage' # "upload" BY <1>1
<1>2. CASE \/ \E o \in Setups : Start(o)
           \/ CallExport \/ ExportWorks \/ ExportSucceeds \/ ExportFails \/ MakeOVA
           \/ StageFails \/ Encrypted \/ RemoveEnds \/ UploadFails \/ Uploaded
           \/ Record \/ Return \/ Dies
           \/ \E f \in Files : OpenSealed(f) \/ WriteSealed(f)
           \/ \E d \in Docs : RemoveLocal(d)
  BY <1>1, <1>2 DEF Start, CallExport, ExportWorks, ExportSucceeds, ExportFails, MakeOVA,
     StageFails, Encrypted, RemoveEnds, UploadFails, Uploaded, Record, Return, Dies,
     OpenSealed, WriteSealed, RemoveLocal, Goto, Stops, Enter
<1>3. CASE Verify
  BY <1>3, <1>1 DEF Verify, Enter, AfterChecking, AfterSealing, contractVars, Local
<1>4. CASE Rename
  <2>1. \A f \in Files : dir'[f] = "none"
    BY <1>4, DocsAre, LocalIs DEF Rename, Present, contractVars
  <2>2. \A f \in Files : Local(<<"plain", f>>)' = dir'[f] /\ Local(<<"enc", f>>)' = sealed'[f]
    BY DEF Local
  <2>3. \A d \in todo' : \E f \in Files : d = <<"enc", f>> /\ sealed'[f] # "none"
    BY <1>4 DEF Rename
  <2>4. todo' \subseteq Present'
    BY <2>2, <2>3, DocsAre
  <2>5. ASSUME stage' = "upload", NEW f \in Files, sealed'[f] = "whole"
        PROVE  <<"enc", f>> \in todo'
    <3>1. flags.upload BY <1>4, <2>5 DEF Rename, AfterSealing
    <3> QED BY <1>4, <2>5, <3>1 DEF Rename
  <2>6. ASSUME stage' = "upload", NEW d \in Docs, Local(d)' = "whole"
        PROVE  d \in todo'
    <3>1. CASE \E f \in Files : d = <<"plain", f>> BY <2>1, <2>2, <2>6, <3>1
    <3>2. CASE \E f \in Files : d = <<"enc", f>> BY <2>2, <2>5, <2>6, <3>2
    <3> QED BY <3>1, <3>2, DocsAre
  <2> QED BY <2>4, <2>6 DEF Docs
<1>5. ASSUME NEW d \in Docs, OpenRemote(d) PROVE Sent'
  BY <1>5 DEF OpenRemote, contractVars, Local
<1>6. ASSUME NEW d \in Docs, WriteRemote(d) PROVE Sent'
  BY <1>6 DEF WriteRemote, contractVars, Local
<1>7. CASE UNCHANGED vars BY <1>7 DEF vars, contractVars, walk, Local
<1> QED BY <1>2, <1>3, <1>4, <1>5, <1>6, <1>7 DEF Next

(* A walk writes one file at a time, one it is to visit. *)
LEMMA StepWalked == Inv /\ [Next]_vars => Walked'
<1> SUFFICES ASSUME Inv, [Next]_vars PROVE Walked'
  OBVIOUS
<1> USE DEF Inv, Walked
<1>1. CASE writing' = None BY <1>1
<1>2. CASE UNCHANGED walk /\ (stage \in {"encrypt", "upload"} => UNCHANGED stage)
  BY <1>2 DEF walk
<1>3. CASE \/ ExportFails \/ StageFails \/ Return \/ Dies \/ Verify \/ UploadFails \/ Uploaded
           \/ \E f \in Files : WriteSealed(f)
           \/ \E d \in Docs : WriteRemote(d)
  BY <1>1, <1>3 DEF ExportFails, StageFails, Return, Dies, Stops, Verify, UploadFails, Uploaded,
     Enter, WriteSealed, WriteRemote
<1>4. CASE \/ \E o \in Setups : Start(o)
           \/ CallExport \/ ExportWorks \/ ExportSucceeds \/ MakeOVA \/ RemoveEnds \/ Record
           \/ \E d \in Docs : RemoveLocal(d)
           \/ UNCHANGED vars
  BY <1>2, <1>4 DEF Start, CallExport, ExportWorks, ExportSucceeds, MakeOVA, RemoveEnds, Record,
     RemoveLocal, Goto, vars
<1>5. CASE Encrypted BY <1>5 DEF Encrypted, Goto, walk
<1>6. CASE Rename BY <1>6 DEF Rename
<1>7. CASE \/ \E f \in Files : OpenSealed(f)
           \/ \E d \in Docs : OpenRemote(d)
  BY <1>7 DEF OpenSealed, OpenRemote
<1> QED BY <1>3, <1>4, <1>5, <1>6, <1>7 DEF Next

(* No step takes the last whole copy of a file. *)
LEMMA StepKept == Inv /\ [Next]_vars => ExportKept'
<1> SUFFICES ASSUME Inv, [Next]_vars, exported' PROVE \A f \in Files : Kept(f)'
  BY DEF ExportKept
<1> USE DEF Inv, TypeOK, ContractTypeOK, ExportKept, Kept
<1>1. CASE UNCHANGED <<dir, sealed, box, remote, exported>> BY <1>1
<1>2. CASE \/ \E o \in Setups : Start(o)
           \/ CallExport \/ ExportFails \/ MakeOVA \/ Verify \/ StageFails \/ Encrypted
           \/ RemoveEnds \/ UploadFails \/ Uploaded \/ Record \/ Return \/ Dies
           \/ UNCHANGED vars
  BY <1>1, <1>2 DEF Start, CallExport, Begin, ExportFails, MakeOVA, Verify, StageFails,
     Encrypted, RemoveEnds, UploadFails, Uploaded, Record, Return, Dies, Stops, Over,
     Enter, contractVars, vars
<1>3. CASE ExportWorks
  BY <1>3 DEF ExportWorks, Working, Package, Succeed, Fail, Write
<1>4. CASE ExportSucceeds
  BY <1>4 DEF ExportSucceeds, Over, CallState, AllWhole
<1>5. ASSUME NEW c \in Files, OpenSealed(c) PROVE \A f \in Files : Kept(f)'
  BY <1>5 DEF OpenSealed, contractVars, Safe, AllWhole
<1>6. ASSUME NEW c \in Files, WriteSealed(c) PROVE \A f \in Files : Kept(f)'
  BY <1>6 DEF WriteSealed, contractVars
<1>7. ASSUME NEW d \in Docs, RemoveLocal(d) PROVE \A f \in Files : Kept(f)'
  BY <1>7 DEF RemoveLocal, Safe
<1>8. CASE Rename
  BY <1>8 DEF Rename, Safe, contractVars
<1>9. ASSUME NEW d \in Docs, OpenRemote(d) PROVE \A f \in Files : Kept(f)'
  BY <1>9 DEF OpenRemote, Safe, contractVars
<1>10. ASSUME NEW d \in Docs, WriteRemote(d) PROVE \A f \in Files : Kept(f)'
  BY <1>10 DEF WriteRemote, Safe, contractVars
<1> QED BY <1>2, <1>3, <1>4, <1>5, <1>6, <1>7, <1>8, <1>9, <1>10 DEF Next

-----------------------------------------------------------------------------
THEOREM Safety == Spec => []Inv
<1>1. Inv /\ [Next]_vars => Inv'
  BY StepTypes, StepCall, StepSafe, StepSent, StepWalked, StepKept DEF Inv
<1> QED BY InitInv, <1>1, PTL DEF Spec

(* TypeOK, and with it the bound on runs. *)
THEOREM TypesSafe == Spec => []TypeOK
<1>1. Inv => TypeOK BY DEF Inv
<1> QED BY <1>1, Safety, PTL

(* ExportKept: after an export that succeeded no step of run, in whatever  *)
(* order runs fail or die, takes the last whole copy of a file.            *)
THEOREM KeptSafe == Spec => []ExportKept
<1>1. Inv => ExportKept BY DEF Inv
<1> QED BY <1>1, Safety, PTL

(* NoClearCopyLeft: a warning of os.RemoveAll before the rename never ends *)
(* in a successful run that left a clear file.                             *)
THEOREM NoClearSafe == Spec => []NoClearCopyLeft
<1>1. Inv => NoClearCopyLeft BY DEF Inv, Clear, NoClearCopyLeft
<1> QED BY <1>1, Safety, PTL

(* ClearStaysHome: a run that was asked to encrypt sends no clear file.    *)
THEOREM ClearHomeSafe == Spec => ClearStaysHome
<1> DEFINE Stays == \A f \in Files : remote'[<<"plain", f>>] # remote[<<"plain", f>>]
                                        => ~flags.encrypt
<1>1. ASSUME Inv, Next PROVE Stays
  <2> USE DEF Inv, TypeOK, ContractTypeOK
  <2>1. CASE UNCHANGED remote BY <2>1
  <2>2. ASSUME NEW d \in Docs, OpenRemote(d) \/ WriteRemote(d) PROVE Stays
    <3>1. d \in Present /\ stage = "upload" /\ \A c \in Docs \ {d} : remote'[c] = remote[c]
      BY <1>1, <2>2, NoneIsNoFile DEF OpenRemote, WriteRemote, Sent, Walked
    <3> QED BY <1>1, <3>1, DocsAre, LocalIs DEF Clear, Present
  <2> QED BY <1>1, <2>1, <2>2 DEF Next, Start, CallExport, ExportWorks, ExportSucceeds,
       ExportFails, MakeOVA, Verify, StageFails, OpenSealed, WriteSealed, Encrypted,
       RemoveLocal, RemoveEnds, Rename, UploadFails, Uploaded, Record, Return, Dies, Stops
<1>2. Inv /\ [Next]_vars => [Stays]_vars
  BY <1>1
<1> QED BY <1>2, Safety, PTL DEF Spec, ClearStaysHome
=============================================================================

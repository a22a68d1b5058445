------------------------- MODULE FileLifecycleProofs -------------------------
(***************************************************************************)
(* Proofs for FileLifecycle: the three safety properties, for any number of *)
(* files, requests, workers and folders, and any limits.                    *)
(***************************************************************************)
EXTENDS FileLifecycle, TLAPS

(* What a file's age says of it. *)
AgeInv ==
    \A f \in Files :
        /\ age[f] = NotIssued => row[f] = "none" /\ f \notin object /\ f \notin putting
        /\ age[f] >= DayOld => f \notin putting

(* A request works on a file that was issued. *)
RequestInv ==
    \A r \in Requests :
        req[r] # Idle => req[r].file \in Files /\ age[req[r].file] # NotIssued

(* What a job's list says of the files in it. *)
Fits(w, f) ==
    /\ age[f] # NotIssued
    /\ phase[w] = "failed" => age[f] >= DayOld
    /\ phase[w] = "temp" => folder[f] = "temp" /\ age[f] = WeekOld
    /\ phase[w] = "orphans" => row[f] # "pending"

ListInv ==
    \A w \in Workers : \A f \in todo[w] : Fits(w, f)

(* Nothing brings back the object that a job has just deleted. *)
CurrentInv ==
    \A w \in Workers :
        current[w] # NoFile => age[current[w]] >= DayOld /\ current[w] \notin object

(* A file about to lose its object was completed, if it is, too late. *)
DoomedInv ==
    \A f \in Files : BeingDeleted(f) /\ row[f] = "completed" => f \in doubtful

FileInv ==
    /\ TypeOK
    /\ AgeInv
    /\ RequestInv
    /\ ListInv
    /\ CurrentInv
    /\ DoomedInv
    /\ LossExplained
    /\ LeftoversExplained

-----------------------------------------------------------------------------
(* A batch is part of what it is taken from. *)
LEMMA BatchPart ==
    ASSUME NEW S, NEW T \in Batches(S)
    PROVE  T \subseteq S
BY DEF Batches

(* What the storage lists is in it. *)
LEMMA ListingPart == Listing \subseteq object
BY DEF Listing, FirstKeys

(* A worker's list that only loses files says of them what it said. *)
LEMMA ListShrinks ==
    ASSUME ListInv, NEW w \in Workers,
           todo'[w] \subseteq todo[w], phase'[w] = phase[w],
           \A v \in Workers \ {w} : todo'[v] = todo[v] /\ phase'[v] = phase[v],
           UNCHANGED <<row, folder, age>>
    PROVE  ListInv'
<1> SUFFICES ASSUME NEW v \in Workers, NEW f \in todo'[v] PROVE Fits(v, f)'
    BY DEF ListInv
<1>1. f \in todo[v] /\ phase'[v] = phase[v]
    BY v = w \/ v # w
<1>2. Fits(v, f)
    BY <1>1 DEF ListInv
<1> QED BY <1>1, <1>2 DEF Fits

(* Nothing is said yet of a list of keys, but that the files were issued. *)
LEMMA ListLoaded ==
    ASSUME ListInv, NEW w \in Workers,
           \A f \in todo'[w] : age[f] # NotIssued, phase'[w] = "listed",
           \A v \in Workers \ {w} : todo'[v] = todo[v] /\ phase'[v] = phase[v],
           UNCHANGED <<row, folder, age>>
    PROVE  ListInv'
<1> SUFFICES ASSUME NEW v \in Workers, NEW f \in todo'[v] PROVE Fits(v, f)'
    BY DEF ListInv
<1>1. CASE v = w
    BY <1>1 DEF Fits
<1>2. CASE v # w
    <2>1. f \in todo[v] /\ phase'[v] = phase[v]
        BY <1>2
    <2>2. Fits(v, f)
        BY <2>1 DEF ListInv
    <2> QED BY <2>1, <2>2 DEF Fits
<1> QED BY <1>1, <1>2

(* The initial state. *)
LEMMA FileInit == Init => FileInv
BY FileAssumption DEF Init, FileInv, AgeInv, RequestInv, ListInv, Fits, CurrentInv,
   DoomedInv, BeingDeleted, LossExplained, LeftoversExplained, TypeOK, Statuses, Steps,
   Phases, Idle, NotIssued, UrlValid, UrlExpired, DayOld, WeekOld

(* Every step keeps the invariant. *)
LEMMA FileStep == FileInv /\ [Next]_vars => FileInv'
<1> SUFFICES ASSUME FileInv, [Next]_vars PROVE FileInv'
    OBVIOUS
<1> USE FileAssumption
<1>s. CASE UNCHANGED vars
    BY <1>s DEF FileInv, AgeInv, RequestInv, ListInv, Fits, CurrentInv, DoomedInv,
       BeingDeleted, LossExplained, LeftoversExplained, vars, files, jobs, history,
       TypeOK, Statuses, Steps, Phases, Idle, NotIssued, UrlValid, UrlExpired, DayOld,
       WeekOld
<1>1. ASSUME NEW f \in Files, GetPresignedUploadUrl(f) PROVE FileInv'
    <2>1. TypeOK'
        BY <1>1 DEF FileInv, GetPresignedUploadUrl, jobs, history, TypeOK, Statuses,
           Steps, Phases, Idle, NotIssued, UrlValid, UrlExpired, DayOld, WeekOld
    <2>2. AgeInv'
        BY <2>1, <1>1 DEF FileInv, GetPresignedUploadUrl, jobs, history, AgeInv,
           RequestInv, Idle, TypeOK, NotIssued, UrlValid, UrlExpired, DayOld, WeekOld
    <2>3. RequestInv'
        BY <2>1, <1>1 DEF FileInv, GetPresignedUploadUrl, jobs, history, RequestInv,
           AgeInv, Idle, TypeOK, Steps, NotIssued, UrlValid, UrlExpired, DayOld, WeekOld
    <2>4. ListInv'
        BY <2>1, <1>1 DEF FileInv, GetPresignedUploadUrl, jobs, history, ListInv, Fits,
           AgeInv, RequestInv, Idle, TypeOK, NotIssued, UrlValid, UrlExpired, DayOld,
           WeekOld
    <2>5. CurrentInv'
        BY <2>1, <1>1 DEF FileInv, GetPresignedUploadUrl, jobs, history, CurrentInv,
           AgeInv, ListInv, Fits, TypeOK, NotIssued, UrlValid, UrlExpired, DayOld,
           WeekOld
    <2>6. DoomedInv'
        BY <2>1, <1>1 DEF FileInv, GetPresignedUploadUrl, jobs, history, DoomedInv,
           BeingDeleted, Idle, TypeOK
    <2>7. LossExplained'
        BY <2>1, <1>1 DEF FileInv, GetPresignedUploadUrl, jobs, history, LossExplained,
           DoomedInv, BeingDeleted, ListInv, Fits, TypeOK, NotIssued, UrlValid,
           UrlExpired, DayOld, WeekOld
    <2>8. LeftoversExplained'
        BY <2>1, <1>1 DEF FileInv, GetPresignedUploadUrl, jobs, history,
           LeftoversExplained, CurrentInv, Idle, TypeOK
    <2> QED BY <2>1, <2>2, <2>3, <2>4, <2>5, <2>6, <2>7, <2>8 DEF FileInv
<1>2. ASSUME NEW f \in Files, PutBegins(f) PROVE FileInv'
    <2>1. TypeOK'
        BY <1>2 DEF FileInv, PutBegins, jobs, history, TypeOK, Statuses, Steps, Phases,
           Idle, NotIssued, UrlValid, UrlExpired, DayOld, WeekOld
    <2>2. AgeInv'
        BY <2>1, <1>2 DEF FileInv, PutBegins, jobs, history, AgeInv, RequestInv, Idle,
           TypeOK, NotIssued, UrlValid, UrlExpired, DayOld, WeekOld
    <2>3. RequestInv' /\ ListInv' /\ CurrentInv' /\ DoomedInv' /\ LossExplained' /\ LeftoversExplained'
        BY <1>2 DEF FileInv, PutBegins, jobs, history, RequestInv, ListInv, Fits,
           CurrentInv, DoomedInv, LossExplained, LeftoversExplained, BeingDeleted
    <2> QED BY <2>1, <2>2, <2>3 DEF FileInv
<1>3. ASSUME NEW f \in Files, PutEnds(f) PROVE FileInv'
    <2>1. TypeOK'
        BY <1>3 DEF FileInv, PutEnds, jobs, TypeOK, Statuses, Steps, Phases, Idle,
           NotIssued, UrlValid, UrlExpired, DayOld, WeekOld
    <2>2. AgeInv'
        BY <2>1, <1>3 DEF FileInv, PutEnds, jobs, AgeInv, RequestInv, Idle, TypeOK,
           NotIssued, UrlValid, UrlExpired, DayOld, WeekOld
    <2>3. CurrentInv'
        BY <2>1, <1>3 DEF FileInv, PutEnds, jobs, CurrentInv, AgeInv, ListInv, Fits,
           TypeOK, NotIssued, UrlValid, UrlExpired, DayOld, WeekOld
    <2>4. LossExplained'
        BY <2>1, <1>3 DEF FileInv, PutEnds, jobs, LossExplained, DoomedInv,
           BeingDeleted, ListInv, Fits, TypeOK, NotIssued, UrlValid, UrlExpired, DayOld,
           WeekOld
    <2>5. LeftoversExplained'
        BY <2>1, <1>3 DEF FileInv, PutEnds, jobs, LeftoversExplained, CurrentInv, Idle,
           TypeOK
    <2>6. RequestInv' /\ ListInv' /\ DoomedInv'
        BY <1>3 DEF FileInv, PutEnds, jobs, RequestInv, ListInv, Fits, DoomedInv,
           BeingDeleted
    <2> QED BY <2>1, <2>2, <2>3, <2>4, <2>5, <2>6 DEF FileInv
<1>4. ASSUME NEW f \in Files, TimePasses(f) PROVE FileInv'
    <2>1. TypeOK'
        BY <1>4 DEF FileInv, TimePasses, jobs, history, TypeOK, Statuses, Steps, Phases,
           Idle, NotIssued, UrlValid, UrlExpired, DayOld, WeekOld
    <2>2. AgeInv'
        BY <2>1, <1>4 DEF FileInv, TimePasses, jobs, history, AgeInv, RequestInv, Idle,
           TypeOK, NotIssued, UrlValid, UrlExpired, DayOld, WeekOld
    <2>3. RequestInv'
        BY <2>1, <1>4 DEF FileInv, TimePasses, jobs, history, RequestInv, AgeInv, Idle,
           TypeOK, Steps, NotIssued, UrlValid, UrlExpired, DayOld, WeekOld
    <2>4. ListInv'
        BY <2>1, <1>4 DEF FileInv, TimePasses, jobs, history, ListInv, Fits, AgeInv,
           RequestInv, Idle, TypeOK, NotIssued, UrlValid, UrlExpired, DayOld, WeekOld
    <2>5. CurrentInv'
        BY <2>1, <1>4 DEF FileInv, TimePasses, jobs, history, CurrentInv, AgeInv,
           ListInv, Fits, TypeOK, NotIssued, UrlValid, UrlExpired, DayOld, WeekOld
    <2>6. LossExplained'
        BY <2>1, <1>4 DEF FileInv, TimePasses, jobs, history, LossExplained, DoomedInv,
           BeingDeleted, ListInv, Fits, TypeOK, NotIssued, UrlValid, UrlExpired, DayOld,
           WeekOld
    <2>7. DoomedInv' /\ LeftoversExplained'
        BY <1>4 DEF FileInv, TimePasses, jobs, history, DoomedInv, LeftoversExplained,
           BeingDeleted
    <2> QED BY <2>1, <2>2, <2>3, <2>4, <2>5, <2>6, <2>7 DEF FileInv
<1>5. ASSUME NEW r \in Requests, NEW f \in Files, CancelUpload(r, f) PROVE FileInv'
    <2>1. TypeOK'
        BY <1>5 DEF FileInv, CancelUpload, Begin, files, jobs, history, TypeOK,
           Statuses, Steps, Phases, Idle, NotIssued, UrlValid, UrlExpired, DayOld,
           WeekOld
    <2>2. RequestInv'
        BY <2>1, <1>5 DEF FileInv, CancelUpload, Begin, files, jobs, history,
           RequestInv, AgeInv, Idle, TypeOK, Steps, NotIssued, UrlValid, UrlExpired,
           DayOld, WeekOld
    <2>3. DoomedInv'
        BY <2>1, <1>5 DEF FileInv, CancelUpload, Begin, files, jobs, history, DoomedInv,
           BeingDeleted, Idle, TypeOK
    <2>4. LeftoversExplained'
        BY <2>1, <1>5 DEF FileInv, CancelUpload, Begin, files, jobs, history,
           LeftoversExplained, CurrentInv, Idle, TypeOK
    <2>5. AgeInv' /\ ListInv' /\ CurrentInv' /\ LossExplained'
        BY <1>5 DEF FileInv, CancelUpload, Begin, files, jobs, history, AgeInv, ListInv,
           Fits, CurrentInv, LossExplained
    <2> QED BY <2>1, <2>2, <2>3, <2>4, <2>5 DEF FileInv
<1>6. ASSUME NEW r \in Requests, NEW f \in Files, CompleteUpload(r, f) PROVE FileInv'
    <2>1. TypeOK'
        BY <1>6 DEF FileInv, CompleteUpload, Begin, files, jobs, history, TypeOK,
           Statuses, Steps, Phases, Idle, NotIssued, UrlValid, UrlExpired, DayOld,
           WeekOld
    <2>2. RequestInv'
        BY <2>1, <1>6 DEF FileInv, CompleteUpload, Begin, files, jobs, history,
           RequestInv, AgeInv, Idle, TypeOK, Steps, NotIssued, UrlValid, UrlExpired,
           DayOld, WeekOld
    <2>3. DoomedInv'
        BY <2>1, <1>6 DEF FileInv, CompleteUpload, Begin, files, jobs, history,
           DoomedInv, BeingDeleted, Idle, TypeOK
    <2>4. LeftoversExplained'
        BY <2>1, <1>6 DEF FileInv, CompleteUpload, Begin, files, jobs, history,
           LeftoversExplained, CurrentInv, Idle, TypeOK
    <2>5. AgeInv' /\ ListInv' /\ CurrentInv' /\ LossExplained'
        BY <1>6 DEF FileInv, CompleteUpload, Begin, files, jobs, history, AgeInv,
           ListInv, Fits, CurrentInv, LossExplained
    <2> QED BY <2>1, <2>2, <2>3, <2>4, <2>5 DEF FileInv
<1>7. ASSUME NEW r \in Requests, NEW f \in Files, Destroy(r, f) PROVE FileInv'
    <2>1. TypeOK'
        BY <1>7 DEF FileInv, Destroy, Begin, files, jobs, history, TypeOK, Statuses,
           Steps, Phases, Idle, NotIssued, UrlValid, UrlExpired, DayOld, WeekOld
    <2>2. RequestInv'
        BY <2>1, <1>7 DEF FileInv, Destroy, Begin, files, jobs, history, RequestInv,
           AgeInv, Idle, TypeOK, Steps, NotIssued, UrlValid, UrlExpired, DayOld, WeekOld
    <2>3. DoomedInv'
        BY <2>1, <1>7 DEF FileInv, Destroy, Begin, files, jobs, history, DoomedInv,
           BeingDeleted, Idle, TypeOK
    <2>4. LeftoversExplained'
        BY <2>1, <1>7 DEF FileInv, Destroy, Begin, files, jobs, history,
           LeftoversExplained, CurrentInv, Idle, TypeOK
    <2>5. AgeInv' /\ ListInv' /\ CurrentInv' /\ LossExplained'
        BY <1>7 DEF FileInv, Destroy, Begin, files, jobs, history, AgeInv, ListInv,
           Fits, CurrentInv, LossExplained
    <2> QED BY <2>1, <2>2, <2>3, <2>4, <2>5 DEF FileInv
<1>8. ASSUME NEW r \in Requests, CancelDelete(r) PROVE FileInv'
    <2>1. TypeOK'
        BY <1>8 DEF FileInv, CancelDelete, GoOn, DeleteObject, jobs, TypeOK, Statuses,
           Steps, Phases, Idle, NotIssued, UrlValid, UrlExpired, DayOld, WeekOld
    <2>2. AgeInv'
        BY <2>1, <1>8 DEF FileInv, CancelDelete, GoOn, DeleteObject, jobs, AgeInv,
           RequestInv, Idle, TypeOK, NotIssued, UrlValid, UrlExpired, DayOld, WeekOld
    <2>3. RequestInv'
        BY <2>1, <1>8 DEF FileInv, CancelDelete, GoOn, DeleteObject, jobs, RequestInv,
           AgeInv, Idle, TypeOK, Steps, NotIssued, UrlValid, UrlExpired, DayOld, WeekOld
    <2>4. CurrentInv'
        BY <2>1, <1>8 DEF FileInv, CancelDelete, GoOn, DeleteObject, jobs, CurrentInv,
           AgeInv, ListInv, Fits, TypeOK, NotIssued, UrlValid, UrlExpired, DayOld,
           WeekOld
    <2>5. DoomedInv'
        BY <2>1, <1>8 DEF FileInv, CancelDelete, GoOn, DeleteObject, jobs, DoomedInv,
           BeingDeleted, Idle, TypeOK
    <2>6. LossExplained'
        BY <2>1, <1>8 DEF FileInv, CancelDelete, GoOn, DeleteObject, jobs,
           LossExplained, DoomedInv, BeingDeleted, ListInv, Fits, TypeOK, NotIssued,
           UrlValid, UrlExpired, DayOld, WeekOld
    <2>7. LeftoversExplained'
        BY <2>1, <1>8 DEF FileInv, CancelDelete, GoOn, DeleteObject, jobs,
           LeftoversExplained, CurrentInv, Idle, TypeOK
    <2>8. ListInv'
        <3>1. UNCHANGED <<row, folder, age, phase, todo>>
            BY <1>8 DEF CancelDelete, DeleteObject, jobs
        <3> QED BY <3>1 DEF FileInv, ListInv, Fits
    <2> QED BY <2>1, <2>2, <2>3, <2>4, <2>5, <2>6, <2>7, <2>8 DEF FileInv
<1>9. ASSUME NEW r \in Requests, CancelFind(r) PROVE FileInv'
    <2>1. TypeOK'
        BY <1>9 DEF FileInv, CancelFind, GoOn, Finish, files, jobs, history, TypeOK,
           Statuses, Steps, Phases, Idle, NotIssued, UrlValid, UrlExpired, DayOld,
           WeekOld
    <2>2. RequestInv'
        BY <2>1, <1>9 DEF FileInv, CancelFind, GoOn, Finish, files, jobs, history,
           RequestInv, AgeInv, Idle, TypeOK, Steps, NotIssued, UrlValid, UrlExpired,
           DayOld, WeekOld
    <2>3. DoomedInv'
        BY <2>1, <1>9 DEF FileInv, CancelFind, GoOn, Finish, files, jobs, history,
           DoomedInv, BeingDeleted, Idle, TypeOK
    <2>4. LeftoversExplained'
        BY <2>1, <1>9 DEF FileInv, CancelFind, GoOn, Finish, files, jobs, history,
           LeftoversExplained, CurrentInv, Idle, TypeOK
    <2>5. AgeInv' /\ ListInv' /\ CurrentInv' /\ LossExplained'
        BY <1>9 DEF FileInv, CancelFind, GoOn, Finish, files, jobs, history, AgeInv,
           ListInv, Fits, CurrentInv, LossExplained
    <2> QED BY <2>1, <2>2, <2>3, <2>4, <2>5 DEF FileInv
<1>10. ASSUME NEW r \in Requests, CancelSave(r) PROVE FileInv'
    <2>1. TypeOK'
        BY <1>10 DEF FileInv, CancelSave, Finish, jobs, history, TypeOK, Statuses,
           Steps, Phases, Idle, NotIssued, UrlValid, UrlExpired, DayOld, WeekOld
    <2>2. AgeInv'
        BY <2>1, <1>10 DEF FileInv, CancelSave, Finish, jobs, history, AgeInv,
           RequestInv, Idle, TypeOK, NotIssued, UrlValid, UrlExpired, DayOld, WeekOld
    <2>3. RequestInv'
        BY <2>1, <1>10 DEF FileInv, CancelSave, Finish, jobs, history, RequestInv,
           AgeInv, Idle, TypeOK, Steps, NotIssued, UrlValid, UrlExpired, DayOld, WeekOld
    <2>4. ListInv'
        BY <2>1, <1>10 DEF FileInv, CancelSave, Finish, jobs, history, ListInv, Fits,
           AgeInv, RequestInv, Idle, TypeOK, NotIssued, UrlValid, UrlExpired, DayOld,
           WeekOld
    <2>5. DoomedInv'
        BY <2>1, <1>10 DEF FileInv, CancelSave, Finish, jobs, history, DoomedInv,
           BeingDeleted, Idle, TypeOK
    <2>6. LossExplained'
        BY <2>1, <1>10 DEF FileInv, CancelSave, Finish, jobs, history, LossExplained,
           DoomedInv, BeingDeleted, ListInv, Fits, TypeOK, NotIssued, UrlValid,
           UrlExpired, DayOld, WeekOld
    <2>7. LeftoversExplained'
        BY <2>1, <1>10 DEF FileInv, CancelSave, Finish, jobs, history,
           LeftoversExplained, CurrentInv, Idle, TypeOK
    <2>8. CurrentInv'
        BY <1>10 DEF FileInv, CancelSave, Finish, jobs, history, CurrentInv
    <2> QED BY <2>1, <2>2, <2>3, <2>4, <2>5, <2>6, <2>7, <2>8 DEF FileInv
<1>11. ASSUME NEW r \in Requests, CompleteSave(r) PROVE FileInv'
    <2>1. TypeOK'
        <3>1. req[r] # Idle /\ req[r].file \in Files
            BY <1>11 DEF FileInv, RequestInv, CompleteSave, Finish, Idle
        <3>2. row' \in [Files -> Statuses]
            BY <1>11, <3>1 DEF FileInv, TypeOK, CompleteSave, Statuses
        <3>3. doubtful' \subseteq Files
            BY <1>11, <3>1 DEF FileInv, TypeOK, CompleteSave
        <3>4. req' \in [Requests -> [step : Steps, file : Files] \cup {Idle}]
            BY <1>11 DEF FileInv, TypeOK, CompleteSave, Finish
        <3> QED
            BY <1>11, <3>2, <3>3, <3>4 DEF FileInv, TypeOK, CompleteSave, jobs
    <2>2. AgeInv'
        BY <2>1, <1>11 DEF FileInv, CompleteSave, Finish, jobs, AgeInv, RequestInv,
           Idle, TypeOK, NotIssued, UrlValid, UrlExpired, DayOld, WeekOld
    <2>3. RequestInv'
        BY <2>1, <1>11 DEF FileInv, CompleteSave, Finish, jobs, RequestInv, AgeInv,
           Idle, TypeOK, Steps, NotIssued, UrlValid, UrlExpired, DayOld, WeekOld
    <2>4. ListInv'
        BY <2>1, <1>11 DEF FileInv, CompleteSave, Finish, jobs, ListInv, Fits, AgeInv,
           RequestInv, Idle, TypeOK, NotIssued, UrlValid, UrlExpired, DayOld, WeekOld
    <2>5. DoomedInv'
        BY <2>1, <1>11 DEF FileInv, CompleteSave, Finish, jobs, DoomedInv, BeingDeleted,
           Idle, TypeOK
    <2>6. LossExplained'
        BY <2>1, <1>11 DEF FileInv, CompleteSave, Finish, jobs, LossExplained,
           DoomedInv, BeingDeleted, ListInv, Fits, TypeOK, NotIssued, UrlValid,
           UrlExpired, DayOld, WeekOld
    <2>7. LeftoversExplained'
        BY <2>1, <1>11 DEF FileInv, CompleteSave, Finish, jobs, LeftoversExplained,
           CurrentInv, Idle, TypeOK
    <2>8. CurrentInv'
        BY <1>11 DEF FileInv, CompleteSave, Finish, jobs, CurrentInv
    <2> QED BY <2>1, <2>2, <2>3, <2>4, <2>5, <2>6, <2>7, <2>8 DEF FileInv
<1>12. ASSUME NEW r \in Requests, DestroyRow(r) PROVE FileInv'
    <2>1. TypeOK'
        BY <1>12 DEF FileInv, DestroyRow, GoOn, jobs, history, TypeOK, Statuses, Steps,
           Phases, Idle, NotIssued, UrlValid, UrlExpired, DayOld, WeekOld
    <2>2. AgeInv'
        BY <2>1, <1>12 DEF FileInv, DestroyRow, GoOn, jobs, history, AgeInv, RequestInv,
           Idle, TypeOK, NotIssued, UrlValid, UrlExpired, DayOld, WeekOld
    <2>3. RequestInv'
        BY <2>1, <1>12 DEF FileInv, DestroyRow, GoOn, jobs, history, RequestInv, AgeInv,
           Idle, TypeOK, Steps, NotIssued, UrlValid, UrlExpired, DayOld, WeekOld
    <2>4. ListInv'
        BY <2>1, <1>12 DEF FileInv, DestroyRow, GoOn, jobs, history, ListInv, Fits,
           AgeInv, RequestInv, Idle, TypeOK, NotIssued, UrlValid, UrlExpired, DayOld,
           WeekOld
    <2>5. DoomedInv'
        BY <2>1, <1>12 DEF FileInv, DestroyRow, GoOn, jobs, history, DoomedInv,
           BeingDeleted, Idle, TypeOK
    <2>6. LossExplained'
        BY <2>1, <1>12 DEF FileInv, DestroyRow, GoOn, jobs, history, LossExplained,
           DoomedInv, BeingDeleted, ListInv, Fits, TypeOK, NotIssued, UrlValid,
           UrlExpired, DayOld, WeekOld
    <2>7. LeftoversExplained'
        BY <2>1, <1>12 DEF FileInv, DestroyRow, GoOn, jobs, history, LeftoversExplained,
           CurrentInv, Idle, TypeOK
    <2>8. CurrentInv'
        BY <1>12 DEF FileInv, DestroyRow, GoOn, jobs, history, CurrentInv
    <2> QED BY <2>1, <2>2, <2>3, <2>4, <2>5, <2>6, <2>7, <2>8 DEF FileInv
<1>13. ASSUME NEW r \in Requests, DestroyObject(r) PROVE FileInv'
    <2>1. TypeOK'
        BY <1>13 DEF FileInv, DestroyObject, Finish, DeleteObject, Leak, jobs, TypeOK,
           Statuses, Steps, Phases, Idle, NotIssued, UrlValid, UrlExpired, DayOld,
           WeekOld
    <2>2. AgeInv'
        BY <2>1, <1>13 DEF FileInv, DestroyObject, Finish, DeleteObject, Leak, jobs,
           AgeInv, RequestInv, Idle, TypeOK, NotIssued, UrlValid, UrlExpired, DayOld,
           WeekOld
    <2>3. RequestInv'
        BY <2>1, <1>13 DEF FileInv, DestroyObject, Finish, DeleteObject, Leak, jobs,
           RequestInv, AgeInv, Idle, TypeOK, Steps, NotIssued, UrlValid, UrlExpired,
           DayOld, WeekOld
    <2>4. CurrentInv'
        BY <2>1, <1>13 DEF FileInv, DestroyObject, Finish, DeleteObject, Leak, jobs,
           CurrentInv, AgeInv, ListInv, Fits, TypeOK, NotIssued, UrlValid, UrlExpired,
           DayOld, WeekOld
    <2>5. DoomedInv'
        BY <2>1, <1>13 DEF FileInv, DestroyObject, Finish, DeleteObject, Leak, jobs,
           DoomedInv, BeingDeleted, Idle, TypeOK
    <2>6. LossExplained'
        BY <2>1, <1>13 DEF FileInv, DestroyObject, Finish, DeleteObject, Leak, jobs,
           LossExplained, DoomedInv, BeingDeleted, ListInv, Fits, TypeOK, NotIssued,
           UrlValid, UrlExpired, DayOld, WeekOld
    <2>7. LeftoversExplained'
        BY <2>1, <1>13 DEF FileInv, DestroyObject, Finish, DeleteObject, Leak, jobs,
           LeftoversExplained, CurrentInv, Idle, TypeOK
    <2>8. ListInv'
        <3>1. UNCHANGED <<row, folder, age, phase, todo>>
            BY <1>13 DEF DestroyObject, DeleteObject, Leak, jobs
        <3> QED BY <3>1 DEF FileInv, ListInv, Fits
    <2> QED BY <2>1, <2>2, <2>3, <2>4, <2>5, <2>6, <2>7, <2>8 DEF FileInv
<1>14. ASSUME NEW r \in Requests, RequestDies(r) PROVE FileInv'
    <2>1. TypeOK'
        <3>1. req[r] # Idle => req[r].file \in Files
            BY DEF FileInv, RequestInv
        <3>2. leaked' \subseteq Files
            BY <1>14, <3>1 DEF FileInv, TypeOK, RequestDies, Leak
        <3>3. req' \in [Requests -> [step : Steps, file : Files] \cup {Idle}]
            BY <1>14 DEF FileInv, TypeOK, RequestDies
        <3> QED BY <1>14, <3>2, <3>3 DEF FileInv, TypeOK, RequestDies, files, jobs
    <2>2. RequestInv'
        BY <2>1, <1>14 DEF FileInv, RequestDies, Leak, files, jobs, RequestInv, AgeInv,
           Idle, TypeOK, Steps, NotIssued, UrlValid, UrlExpired, DayOld, WeekOld
    <2>3. DoomedInv'
        BY <2>1, <1>14 DEF FileInv, RequestDies, Leak, files, jobs, DoomedInv,
           BeingDeleted, Idle, TypeOK
    <2>4. LeftoversExplained'
        BY <2>1, <1>14 DEF FileInv, RequestDies, Leak, files, jobs, LeftoversExplained,
           CurrentInv, Idle, TypeOK
    <2>5. AgeInv' /\ ListInv' /\ CurrentInv' /\ LossExplained'
        BY <1>14 DEF FileInv, RequestDies, Leak, files, jobs, AgeInv, ListInv, Fits,
           CurrentInv, LossExplained
    <2> QED BY <2>1, <2>2, <2>3, <2>4, <2>5 DEF FileInv
<1>15. ASSUME NEW w \in Workers, StartJob(w) PROVE FileInv'
    <2>1. TypeOK'
        BY <1>15, BatchPart DEF FileInv, StartJob, Enter, Failed, files, history,
           TypeOK, Statuses, Steps, Phases, Idle, NotIssued, UrlValid, UrlExpired,
           DayOld, WeekOld
    <2>2. ListInv'
        BY <2>1, <1>15, BatchPart DEF FileInv, StartJob, Enter, Failed, files, history,
           ListInv, Fits, AgeInv, RequestInv, Idle, TypeOK, NotIssued, UrlValid,
           UrlExpired, DayOld, WeekOld
    <2>3. DoomedInv'
        BY <2>1, <1>15, BatchPart DEF FileInv, StartJob, Enter, Failed, files, history,
           DoomedInv, BeingDeleted, Idle, TypeOK
    <2>4. AgeInv' /\ RequestInv' /\ CurrentInv' /\ LossExplained' /\ LeftoversExplained'
        BY <1>15 DEF FileInv, StartJob, Enter, Failed, files, history, AgeInv,
           RequestInv, CurrentInv, LossExplained, LeftoversExplained
    <2> QED BY <2>1, <2>2, <2>3, <2>4 DEF FileInv
<1>16. ASSUME NEW w \in Workers, FindTemp(w) PROVE FileInv'
    <2>1. TypeOK'
        BY <1>16, BatchPart DEF FileInv, FindTemp, Enter, OldTemp, files, history,
           TypeOK, Statuses, Steps, Phases, Idle, NotIssued, UrlValid, UrlExpired,
           DayOld, WeekOld
    <2>2. ListInv'
        <3>1. todo'[w] \subseteq OldTemp /\ phase'[w] = "temp"
            BY <1>16, BatchPart DEF FileInv, FindTemp, Enter, TypeOK
        <3>2. \A v \in Workers \ {w} : todo'[v] = todo[v] /\ phase'[v] = phase[v]
            BY <1>16 DEF FileInv, FindTemp, Enter, TypeOK
        <3>3. UNCHANGED <<row, folder, age>>
            BY <1>16 DEF FileInv, FindTemp, Enter, files
        <3> QED
            BY <2>1, <3>1, <3>2, <3>3 DEF FileInv, ListInv, Fits, TypeOK, OldTemp,
               NotIssued, UrlValid, UrlExpired, DayOld, WeekOld
    <2>3. DoomedInv'
        BY <2>1, <1>16, BatchPart DEF FileInv, FindTemp, Enter, OldTemp, files, history,
           DoomedInv, BeingDeleted, Idle, TypeOK
    <2>4. AgeInv' /\ RequestInv' /\ CurrentInv' /\ LossExplained' /\ LeftoversExplained'
        BY <1>16 DEF FileInv, FindTemp, Enter, OldTemp, files, history, AgeInv,
           RequestInv, CurrentInv, LossExplained, LeftoversExplained
    <2> QED BY <2>1, <2>2, <2>3, <2>4 DEF FileInv
<1>17. ASSUME NEW w \in Workers, ListStorage(w) PROVE FileInv'
    <2>1. TypeOK'
        BY <1>17, ListingPart DEF FileInv, ListStorage, Enter, files, history, TypeOK,
           Statuses, Steps, Phases, Idle, NotIssued, UrlValid, UrlExpired, DayOld,
           WeekOld
    <2>2. ListInv'
        <3>1. todo'[w] = Listing /\ phase'[w] = "listed"
            BY <1>17 DEF FileInv, ListStorage, Enter, TypeOK
        <3>2. \A v \in Workers \ {w} : todo'[v] = todo[v] /\ phase'[v] = phase[v]
            BY <1>17 DEF FileInv, ListStorage, Enter, TypeOK
        <3>3. UNCHANGED <<row, folder, age>>
            BY <1>17 DEF ListStorage, Enter, files
        <3>4. \A f \in todo'[w] : age[f] # NotIssued
            BY <3>1, ListingPart DEF FileInv, AgeInv, TypeOK
        <3> QED BY <3>1, <3>2, <3>3, <3>4, ListLoaded DEF FileInv
    <2>3. DoomedInv'
        BY <2>1, <1>17, ListingPart DEF FileInv, ListStorage, Enter, files, history,
           DoomedInv, BeingDeleted, Idle, TypeOK
    <2>4. AgeInv' /\ RequestInv' /\ CurrentInv' /\ LossExplained' /\ LeftoversExplained'
        BY <1>17 DEF FileInv, ListStorage, Enter, files, history, AgeInv, RequestInv,
           CurrentInv, LossExplained, LeftoversExplained
    <2> QED BY <2>1, <2>2, <2>3, <2>4 DEF FileInv
<1>18. ASSUME NEW w \in Workers, ReadKeys(w) PROVE FileInv'
    <2>1. TypeOK'
        BY <1>18, BatchPart DEF FileInv, ReadKeys, Orphans, files, history, TypeOK,
           Statuses, Steps, Phases, Idle, NotIssued, UrlValid, UrlExpired, DayOld,
           WeekOld
    <2>2. ListInv'
        <3>1. todo'[w] \subseteq {f \in todo[w] : row[f] = "none"} /\ phase'[w] = "orphans"
            BY <1>18, BatchPart DEF FileInv, ReadKeys, Orphans, TypeOK
        <3>2. \A v \in Workers \ {w} : todo'[v] = todo[v] /\ phase'[v] = phase[v]
            BY <1>18 DEF FileInv, ReadKeys, Orphans, TypeOK
        <3>3. UNCHANGED <<row, folder, age>>
            BY <1>18 DEF FileInv, ReadKeys, Orphans, files
        <3> QED
            BY <2>1, <3>1, <3>2, <3>3 DEF FileInv, ListInv, Fits, TypeOK, NotIssued,
               UrlValid, UrlExpired, DayOld, WeekOld
    <2>3. DoomedInv'
        BY <2>1, <1>18, BatchPart DEF FileInv, ReadKeys, Orphans, files, history,
           DoomedInv, BeingDeleted, Idle, TypeOK
    <2>4. AgeInv' /\ RequestInv' /\ CurrentInv' /\ LossExplained' /\ LeftoversExplained'
        BY <1>18 DEF FileInv, ReadKeys, Orphans, files, history, AgeInv, RequestInv,
           CurrentInv, LossExplained, LeftoversExplained
    <2> QED BY <2>1, <2>2, <2>3, <2>4 DEF FileInv
<1>19. ASSUME NEW w \in Workers, NEW f \in Files, CleanObject(w, f) PROVE FileInv'
    <2>1. TypeOK'
        BY <1>19 DEF FileInv, CleanObject, Visit, DeleteObject, TypeOK, Statuses, Steps,
           Phases, Idle, NotIssued, UrlValid, UrlExpired, DayOld, WeekOld
    <2>2. AgeInv'
        BY <2>1, <1>19 DEF FileInv, CleanObject, Visit, DeleteObject, AgeInv,
           RequestInv, Idle, TypeOK, NotIssued, UrlValid, UrlExpired, DayOld, WeekOld
    <2>3. ListInv'
        <3>1. todo'[w] \subseteq todo[w] /\ phase'[w] = phase[w]
            BY <1>19 DEF FileInv, CleanObject, Visit, TypeOK
        <3>2. \A v \in Workers \ {w} : todo'[v] = todo[v] /\ phase'[v] = phase[v]
            BY <1>19 DEF FileInv, CleanObject, Visit, TypeOK
        <3>3. UNCHANGED <<row, folder, age>>
            BY <1>19 DEF CleanObject
        <3> QED BY <3>1, <3>2, <3>3, ListShrinks DEF FileInv
    <2>4. CurrentInv'
        <3>1. age[f] >= DayOld
            BY <1>19 DEF FileInv, ListInv, Fits, CleanObject, Visit, DayOld, WeekOld
        <3>2. \A v \in Workers \ {w} : current'[v] = current[v]
            BY <1>19 DEF FileInv, TypeOK, CleanObject
        <3>3. current'[w] = f /\ object' = object \ {f} /\ age' = age
            BY <1>19 DEF FileInv, TypeOK, CleanObject, DeleteObject
        <3> QED BY <3>1, <3>2, <3>3 DEF FileInv, CurrentInv
    <2>5. DoomedInv'
        BY <2>1, <1>19 DEF FileInv, CleanObject, Visit, DeleteObject, DoomedInv,
           BeingDeleted, Idle, TypeOK
    <2>6. LossExplained'
        BY <2>1, <1>19 DEF FileInv, CleanObject, Visit, DeleteObject, LossExplained,
           DoomedInv, BeingDeleted, ListInv, Fits, TypeOK, NotIssued, UrlValid,
           UrlExpired, DayOld, WeekOld
    <2>7. LeftoversExplained'
        BY <2>1, <1>19 DEF FileInv, CleanObject, Visit, DeleteObject,
           LeftoversExplained, CurrentInv, Idle, TypeOK
    <2>8. RequestInv'
        BY <1>19 DEF FileInv, CleanObject, Visit, DeleteObject, RequestInv
    <2> QED BY <2>1, <2>2, <2>3, <2>4, <2>5, <2>6, <2>7, <2>8 DEF FileInv
<1>20. ASSUME NEW w \in Workers, NEW f \in Files, CleanFails(w, f) PROVE FileInv'
    <2>1. TypeOK'
        BY <1>20 DEF FileInv, CleanFails, Visit, files, history, TypeOK, Statuses,
           Steps, Phases, Idle, NotIssued, UrlValid, UrlExpired, DayOld, WeekOld
    <2>2. ListInv'
        <3>1. todo'[w] \subseteq todo[w] /\ phase'[w] = phase[w]
            BY <1>20 DEF FileInv, CleanFails, Visit, TypeOK
        <3>2. \A v \in Workers \ {w} : todo'[v] = todo[v] /\ phase'[v] = phase[v]
            BY <1>20 DEF FileInv, CleanFails, Visit, TypeOK
        <3>3. UNCHANGED <<row, folder, age>>
            BY <1>20 DEF CleanFails, files
        <3> QED BY <3>1, <3>2, <3>3, ListShrinks DEF FileInv
    <2>3. DoomedInv'
        BY <2>1, <1>20 DEF FileInv, CleanFails, Visit, files, history, DoomedInv,
           BeingDeleted, Idle, TypeOK
    <2>4. AgeInv' /\ RequestInv' /\ CurrentInv' /\ LossExplained' /\ LeftoversExplained'
        BY <1>20 DEF FileInv, CleanFails, Visit, files, history, AgeInv, RequestInv,
           CurrentInv, LossExplained, LeftoversExplained
    <2> QED BY <2>1, <2>2, <2>3, <2>4 DEF FileInv
<1>21. ASSUME NEW w \in Workers, NEW f \in Files, CleanOrphan(w, f) PROVE FileInv'
    <2>1. TypeOK'
        BY <1>21 DEF FileInv, CleanOrphan, Visit, DeleteObject, TypeOK, Statuses, Steps,
           Phases, Idle, NotIssued, UrlValid, UrlExpired, DayOld, WeekOld
    <2>2. AgeInv'
        BY <2>1, <1>21 DEF FileInv, CleanOrphan, Visit, DeleteObject, AgeInv,
           RequestInv, Idle, TypeOK, NotIssued, UrlValid, UrlExpired, DayOld, WeekOld
    <2>3. ListInv'
        <3>1. todo'[w] \subseteq todo[w] /\ phase'[w] = phase[w]
            BY <1>21 DEF FileInv, CleanOrphan, Visit, TypeOK
        <3>2. \A v \in Workers \ {w} : todo'[v] = todo[v] /\ phase'[v] = phase[v]
            BY <1>21 DEF FileInv, CleanOrphan, Visit, TypeOK
        <3>3. UNCHANGED <<row, folder, age>>
            BY <1>21 DEF CleanOrphan
        <3> QED BY <3>1, <3>2, <3>3, ListShrinks DEF FileInv
    <2>4. CurrentInv'
        BY <2>1, <1>21 DEF FileInv, CleanOrphan, Visit, DeleteObject, CurrentInv,
           AgeInv, ListInv, Fits, TypeOK, NotIssued, UrlValid, UrlExpired, DayOld,
           WeekOld
    <2>5. DoomedInv'
        BY <2>1, <1>21 DEF FileInv, CleanOrphan, Visit, DeleteObject, DoomedInv,
           BeingDeleted, Idle, TypeOK
    <2>6. LossExplained'
        BY <2>1, <1>21 DEF FileInv, CleanOrphan, Visit, DeleteObject, LossExplained,
           DoomedInv, BeingDeleted, ListInv, Fits, TypeOK, NotIssued, UrlValid,
           UrlExpired, DayOld, WeekOld
    <2>7. LeftoversExplained'
        BY <2>1, <1>21 DEF FileInv, CleanOrphan, Visit, DeleteObject,
           LeftoversExplained, CurrentInv, Idle, TypeOK
    <2>8. RequestInv'
        BY <1>21 DEF FileInv, CleanOrphan, Visit, DeleteObject, RequestInv
    <2> QED BY <2>1, <2>2, <2>3, <2>4, <2>5, <2>6, <2>7, <2>8 DEF FileInv
<1>22. ASSUME NEW w \in Workers, CleanRow(w) PROVE FileInv'
    <2>1. TypeOK'
        BY <1>22 DEF FileInv, CleanRow, history, TypeOK, Statuses, Steps, Phases, Idle,
           NotIssued, UrlValid, UrlExpired, DayOld, WeekOld
    <2>2. AgeInv'
        BY <2>1, <1>22 DEF FileInv, CleanRow, history, AgeInv, RequestInv, Idle, TypeOK,
           NotIssued, UrlValid, UrlExpired, DayOld, WeekOld
    <2>3. ListInv'
        BY <2>1, <1>22 DEF FileInv, CleanRow, history, ListInv, Fits, AgeInv,
           RequestInv, Idle, TypeOK, NotIssued, UrlValid, UrlExpired, DayOld, WeekOld
    <2>4. CurrentInv'
        BY <2>1, <1>22 DEF FileInv, CleanRow, history, CurrentInv, AgeInv, ListInv,
           Fits, TypeOK, NotIssued, UrlValid, UrlExpired, DayOld, WeekOld
    <2>5. DoomedInv'
        BY <2>1, <1>22 DEF FileInv, CleanRow, history, DoomedInv, BeingDeleted, Idle,
           TypeOK
    <2>6. LossExplained'
        BY <2>1, <1>22 DEF FileInv, CleanRow, history, LossExplained, DoomedInv,
           BeingDeleted, ListInv, Fits, TypeOK, NotIssued, UrlValid, UrlExpired, DayOld,
           WeekOld
    <2>7. LeftoversExplained'
        BY <2>1, <1>22 DEF FileInv, CleanRow, history, LeftoversExplained, CurrentInv,
           Idle, TypeOK
    <2>8. RequestInv'
        BY <1>22 DEF FileInv, CleanRow, history, RequestInv
    <2> QED BY <2>1, <2>2, <2>3, <2>4, <2>5, <2>6, <2>7, <2>8 DEF FileInv
<1>23. ASSUME NEW w \in Workers, CleanRowFails(w) PROVE FileInv'
    <2>1. TypeOK'
        BY <1>23 DEF FileInv, CleanRowFails, files, history, TypeOK, Statuses, Steps,
           Phases, Idle, NotIssued, UrlValid, UrlExpired, DayOld, WeekOld
    <2>2. CurrentInv'
        BY <2>1, <1>23 DEF FileInv, CleanRowFails, files, history, CurrentInv, AgeInv,
           ListInv, Fits, TypeOK, NotIssued, UrlValid, UrlExpired, DayOld, WeekOld
    <2>3. AgeInv' /\ RequestInv' /\ ListInv' /\ DoomedInv' /\ LossExplained' /\ LeftoversExplained'
        BY <1>23 DEF FileInv, CleanRowFails, files, history, AgeInv, RequestInv,
           ListInv, Fits, DoomedInv, LossExplained, LeftoversExplained, BeingDeleted
    <2> QED BY <2>1, <2>2, <2>3 DEF FileInv
<1>24. ASSUME NEW w \in Workers, JobDone(w) PROVE FileInv'
    <2>1. TypeOK'
        BY <1>24 DEF FileInv, JobDone, Enter, files, history, TypeOK, Statuses, Steps,
           Phases, Idle, NotIssued, UrlValid, UrlExpired, DayOld, WeekOld
    <2>2. ListInv'
        BY <2>1, <1>24 DEF FileInv, JobDone, Enter, files, history, ListInv, Fits,
           AgeInv, RequestInv, Idle, TypeOK, NotIssued, UrlValid, UrlExpired, DayOld,
           WeekOld
    <2>3. DoomedInv'
        BY <2>1, <1>24 DEF FileInv, JobDone, Enter, files, history, DoomedInv,
           BeingDeleted, Idle, TypeOK
    <2>4. AgeInv' /\ RequestInv' /\ CurrentInv' /\ LossExplained' /\ LeftoversExplained'
        BY <1>24 DEF FileInv, JobDone, Enter, files, history, AgeInv, RequestInv,
           CurrentInv, LossExplained, LeftoversExplained
    <2> QED BY <2>1, <2>2, <2>3, <2>4 DEF FileInv
<1>25. ASSUME NEW w \in Workers, JobEnds(w) PROVE FileInv'
    <2>1. TypeOK'
        BY <1>25 DEF FileInv, JobEnds, files, history, TypeOK, Statuses, Steps, Phases,
           Idle, NotIssued, UrlValid, UrlExpired, DayOld, WeekOld
    <2>2. ListInv'
        BY <2>1, <1>25 DEF FileInv, JobEnds, files, history, ListInv, Fits, AgeInv,
           RequestInv, Idle, TypeOK, NotIssued, UrlValid, UrlExpired, DayOld, WeekOld
    <2>3. CurrentInv'
        BY <2>1, <1>25 DEF FileInv, JobEnds, files, history, CurrentInv, AgeInv,
           ListInv, Fits, TypeOK, NotIssued, UrlValid, UrlExpired, DayOld, WeekOld
    <2>4. DoomedInv'
        BY <2>1, <1>25 DEF FileInv, JobEnds, files, history, DoomedInv, BeingDeleted,
           Idle, TypeOK
    <2>5. AgeInv' /\ RequestInv' /\ LossExplained' /\ LeftoversExplained'
        BY <1>25 DEF FileInv, JobEnds, files, history, AgeInv, RequestInv,
           LossExplained, LeftoversExplained
    <2> QED BY <2>1, <2>2, <2>3, <2>4, <2>5 DEF FileInv
<1> QED
    BY <1>s, <1>1, <1>2, <1>3, <1>4, <1>5, <1>6, <1>7, <1>8, <1>9, <1>10, <1>11, <1>12,
       <1>13, <1>14, <1>15, <1>16, <1>17, <1>18, <1>19, <1>20, <1>21, <1>22, <1>23,
       <1>24, <1>25 DEF Next, Upload, Request, Job

(* The invariant holds. *)
THEOREM FileInvariant == Spec => []FileInv
BY FileInit, FileStep, PTL DEF Spec

(* The variables have their types. *)
THEOREM TypeCorrect == Spec => []TypeOK
<1>1. FileInv => TypeOK
    BY DEF FileInv
<1> QED BY <1>1, FileInvariant, PTL

(* A completed file without its object was completed while the object was *)
(* missing or about to be deleted, or is an old one in "temp".            *)
THEOREM LossesExplained == Spec => []LossExplained
<1>1. FileInv => LossExplained
    BY DEF FileInv
<1> QED BY <1>1, FileInvariant, PTL

(* An object without a row waits for its deletion, or was left by a failure *)
(* or a late upload.                                                        *)
THEOREM LeftoversAreExplained == Spec => []LeftoversExplained
<1>1. FileInv => LeftoversExplained
    BY DEF FileInv
<1> QED BY <1>1, FileInvariant, PTL

(* The cleaner of orphans spares pending and completed uploads. *)
THEOREM LiveFilesSpared == Spec => []CleanerSparesLive
<1>1. FileInv => CleanerSparesLive
    BY DEF FileInv, TypeOK, ListInv, Fits, DoomedInv, BeingDeleted, CleanerSparesLive
<1> QED BY <1>1, FileInvariant, PTL

=============================================================================

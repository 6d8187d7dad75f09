-------------------------------- MODULE Import --------------------------------
(***************************************************************************)
(* The import_blueprint service.  A blueprint is fetched; its author and   *)
(* name give the path that Home Assistant's own importer would use, so     *)
(* that blueprints of different sources may claim the same path.  Whether  *)
(* the path may be taken is decided from what a scan has listed there or   *)
(* from the file, and then come the validations and the wait for the lock  *)
(* of the path, while scans, users and other imports go on.                *)
(*                                                                         *)
(* One path.  A file is its source and its text.                           *)
(***************************************************************************)
EXTENDS FiniteSets

CONSTANTS
    Url,        \* canonical URLs whose blueprints claim the path
    Importer,   \* calls of the service
    Text,       \* texts of blueprints
    NoUrl,      \* no source_url; not listed
    NoFile      \* no such file

ASSUME ImportAssumption == NoUrl \notin Url

Content == [url: Url \cup {NoUrl}, text: Text]
ASSUME NoFileAssumption == NoFile \notin Content

VARIABLES
    target,     \* the file
    listed,     \* data[full_path]["source_url"]
    scanFile,   \* what the scan in progress has read, and whether it still holds
    imports,    \* progress of each call; edited: history, outside held meanwhile
    outside     \* history: a user has changed the file since what is listed was read

importVars == <<target, listed, scanFile, imports, outside>>

Call == [step: {"idle", "fetched", "captured", "checked", "prepared"},
         url: Url \cup {NoUrl}, text: Text \cup {NoUrl}, expects: Content \cup {NoFile},
         final: Url \cup {NoUrl}, edited: BOOLEAN]
NoImport == [step |-> "idle", url |-> NoUrl, text |-> NoUrl, expects |-> NoFile,
             final |-> NoUrl, edited |-> FALSE]
NoScan == [reading |-> FALSE, file |-> NoFile, current |-> TRUE]

ImportInit ==
    /\ target \in Content \cup {NoFile}
    /\ listed = NoUrl
    /\ scanFile = NoScan
    /\ imports = [i \in Importer |-> NoImport]
    /\ outside = FALSE

------------------------------------------------------------------------------
\* _async_fetch_import_data; requests that fail and files that are no blueprint
\* end the call.
FetchImport(i, url, text) ==
    /\ imports[i] = NoImport
    /\ imports' = [imports EXCEPT ![i] =
                      [NoImport EXCEPT !.step = "fetched", !.url = url, !.text = text,
                                       !.edited = outside]]
    /\ UNCHANGED <<target, listed, scanFile, outside>>

\* _check_import_path_conflicts captures the revision first ...
CaptureTarget(i) ==
    /\ imports[i].step = "fetched"
    /\ imports' = [imports EXCEPT ![i].step = "captured", ![i].expects = target]
    /\ UNCHANGED <<target, listed, scanFile, outside>>

\* ... and then asks whose path it is: what is listed, else what the file says
\* by now.  A file without a source belongs to the user.
Existing(i) ==
    IF listed # NoUrl THEN listed
    ELSE IF imports[i].expects # NoFile /\ target # NoFile THEN target.url
    ELSE NoUrl

Taken(i) == IF Existing(i) = NoUrl THEN imports[i].expects # NoFile
            ELSE Existing(i) # imports[i].url

CheckTarget(i) ==
    /\ imports[i].step = "captured"
    /\ ~Taken(i)
    /\ imports' = [imports EXCEPT ![i].step = "checked"]
    /\ UNCHANGED <<target, listed, scanFile, outside>>

EndImport(i) ==
    /\ imports' = [imports EXCEPT ![i] = NoImport]
    /\ UNCHANGED <<target, listed, scanFile, outside>>

\* The path is taken.
ConflictingImport(i) ==
    /\ imports[i].step = "captured"
    /\ Taken(i)
    /\ EndImport(i)

\* The templates, the schema or the dummy inputs are rejected.
InvalidImport(i) ==
    /\ imports[i].step = "checked"
    /\ EndImport(i)

\* Under the lock of the path the install is prepared: a listed source is kept.
PrepareImport(i) ==
    /\ imports[i].step = "checked"
    /\ \A j \in Importer : imports[j].step # "prepared"
    /\ imports' = [imports EXCEPT ![i].step = "prepared",
                                  ![i].final = IF listed # NoUrl THEN listed ELSE imports[i].url]
    /\ UNCHANGED <<target, listed, scanFile, outside>>

\* The list and the history: an import that a user's change has misled counts as
\* another change of the user.
Committed(i) ==
    /\ listed' = imports[i].final
    /\ imports' = [j \in Importer |->
                      IF j = i THEN NoImport
                      ELSE [imports[j] EXCEPT
                              !.edited = @ \/ (imports[j].step # "idle" /\ imports[i].edited)]]
    /\ outside' = (outside \/ imports[i].edited)
    /\ scanFile' = [scanFile EXCEPT !.current = @ /\ ~(scanFile.reading /\ imports[i].edited)]

\* Mutation: whatever is there is replaced.
CommitBlindly(i) ==
    /\ imports[i].step = "prepared"
    /\ target' = [url |-> imports[i].final, text |-> imports[i].text]
    /\ Committed(i)

\* The file store commits over the captured revision only, and what was
\* installed is listed.
CommitImport(i) ==
    /\ imports[i].step = "prepared"
    /\ target = imports[i].expects
    /\ target' = [url |-> imports[i].final, text |-> imports[i].text]
    /\ Committed(i)

RefuseImport(i) ==
    /\ imports[i].step = "prepared"
    /\ target # imports[i].expects
    /\ EndImport(i)

------------------------------------------------------------------------------
(* Scans and users.                                                        *)

ScanReads ==
    /\ ~scanFile.reading
    /\ scanFile' = [reading |-> TRUE, file |-> target, current |-> TRUE]
    /\ UNCHANGED <<target, listed, imports, outside>>

\* A file without a source is not listed.
ScanLists ==
    /\ scanFile.reading
    /\ listed' = IF scanFile.file = NoFile THEN NoUrl ELSE scanFile.file.url
    /\ outside' = ~scanFile.current
    /\ scanFile' = NoScan
    /\ UNCHANGED <<target, imports>>

UserWrites(file) ==
    /\ target' = file
    /\ outside' = TRUE
    /\ scanFile' = [scanFile EXCEPT !.current = ~scanFile.reading]
    /\ imports' = [i \in Importer |->
                      [imports[i] EXCEPT !.edited = imports[i].step # "idle"]]
    /\ UNCHANGED listed

ImportNext ==
    \/ \E i \in Importer :
          \/ \E url \in Url, text \in Text : FetchImport(i, url, text)
          \/ CaptureTarget(i) \/ CheckTarget(i) \/ ConflictingImport(i)
          \/ InvalidImport(i) \/ PrepareImport(i)
          \/ CommitImport(i) \/ RefuseImport(i)
    \/ ScanReads \/ ScanLists
    \/ \E file \in Content \cup {NoFile} : UserWrites(file)

------------------------------------------------------------------------------
(* Properties.                                                             *)

ImportTypeOK ==
    /\ target \in Content \cup {NoFile}
    /\ listed \in Url \cup {NoUrl}
    /\ scanFile \in [reading: BOOLEAN, file: Content \cup {NoFile}, current: BOOLEAN]
    /\ imports \in [Importer -> Call]
    /\ outside \in BOOLEAN

\* An import replaces nothing but an older version of what it imports, and what
\* it installs is tracked under its own source, whichever imports and scans
\* overlap.  The exception is a file that a user has changed or removed during
\* the import or since what is listed was read: the list is believed.
ImportsOwnFile ==
    [][\A i \in Importer :
          /\ imports[i].step = "prepared"
          /\ target' # target
          /\ imports'[i] = NoImport
          /\ ~imports[i].edited
          => /\ target = NoFile \/ target.url = imports[i].url
             /\ target'.url = imports[i].url]_importVars
==============================================================================

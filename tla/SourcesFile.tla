----------------------------- MODULE SourcesFile -----------------------------
(* work-sources.json, which LCP and the host share.  Every PUT writes it     *)
(* through one temporary file.  Files are told from their names: a rename    *)
(* moves a name, and a writer that has the file open goes on writing to it.  *)
EXTENDS Integers, Sequences

CONSTANTS
  SourceValues,          \* contents a PUT may send, each of another length
  Putters,               \* threads that serve PUT /api/work/sources
  MaxPuts, MaxFileCrashes

NoFile == 0
Torn == "torn"
Opened == "opened"       \* opened for writing, nothing in it yet
Unreadable == "unreadable"

ASSUME FileAssumption == SourceValues \cap {Torn, Opened, Unreadable} = {}

VARIABLES
  file,       \* content of each file
  temp, real, \* the files that work-sources.json.tmp and work-sources.json name
  put,        \* what each putter is doing
  met,        \* two writers had the temporary file open at once
  putsLeft, fileCrashesLeft

fileVars == <<file, temp, real, put, met, putsLeft, fileCrashesLeft>>

Away == [at |-> "idle"]

FileInit ==
  /\ file = <<>> /\ temp = NoFile /\ real = NoFile
  /\ put = [w \in Putters |-> Away] /\ met = FALSE
  /\ putsLeft = MaxPuts /\ fileCrashesLeft = MaxFileCrashes

-----------------------------------------------------------------------------
(* save_sources *)

\* Mutant: the file is written in its place.
OpenInPlace(w, x) ==
  /\ put[w] = Away /\ putsLeft > 0 /\ putsLeft' = putsLeft - 1
  /\ LET f == IF real = NoFile THEN Len(file) + 1 ELSE real IN
     /\ file' = IF f = real THEN [file EXCEPT ![f] = Opened] ELSE Append(file, Opened)
     /\ temp' = NoFile /\ real' = f
     /\ put' = [put EXCEPT ![w] = [at |-> "write", value |-> x, fd |-> f]]
     /\ met' = (met \/ \E u \in Putters : put[u] # Away)
  /\ UNCHANGED fileCrashesLeft

(* open(tmp, "w"): a new file, or the one another writer has open, emptied. *)
OpenTemp(w, x) ==
  /\ put[w] = Away /\ putsLeft > 0 /\ putsLeft' = putsLeft - 1
  /\ LET f == IF temp = NoFile THEN Len(file) + 1 ELSE temp IN
     /\ file' = IF temp = NoFile THEN Append(file, Opened) ELSE [file EXCEPT ![f] = Opened]
     /\ temp' = f
     /\ put' = [put EXCEPT ![w] = [at |-> "write", value |-> x, fd |-> f]]
     /\ met' = (met \/ \E u \in Putters : put[u] # Away)
  /\ UNCHANGED <<real, fileCrashesLeft>>

(* The text goes out when the file is closed; over a longer text it leaves   *)
(* the end of that one.                                                      *)
WriteText(w) ==
  LET p == put[w] IN
  /\ p.at = "write"
  /\ \E x \in IF file[p.fd] \in {Opened, p.value} THEN {p.value} ELSE {p.value, Torn} : file' = [file EXCEPT ![p.fd] = x]
  /\ put' = [put EXCEPT ![w].at = "rename"]
  /\ UNCHANGED <<temp, real, met, putsLeft, fileCrashesLeft>>

\* Mutant: the file is linked to its name and the temporary name stays.
RenameByLink(w) ==
  /\ put[w].at = "rename"
  /\ real' = (IF temp = NoFile THEN real ELSE temp) /\ put' = [put EXCEPT ![w] = Away]
  /\ UNCHANGED <<file, temp, met, putsLeft, fileCrashesLeft>>

(* os.replace, which fails when another writer has taken the name away. *)
RenameTemp(w) ==
  /\ put[w].at = "rename"
  /\ IF temp = NoFile THEN UNCHANGED <<temp, real>> ELSE real' = temp /\ temp' = NoFile
  /\ put' = [put EXCEPT ![w] = Away]
  /\ UNCHANGED <<file, met, putsLeft, fileCrashesLeft>>

(* The process dies; what was opened stays as it is. *)
FileCrash ==
  /\ fileCrashesLeft > 0 /\ fileCrashesLeft' = fileCrashesLeft - 1
  /\ put' = [w \in Putters |-> Away]
  /\ UNCHANGED <<file, temp, real, met, putsLeft>>

(* load_sources: None when the file is absent or no JSON. *)
Sources == IF real = NoFile \/ file[real] \in {Torn, Opened} THEN Unreadable ELSE file[real]

PutStep(w) == WriteText(w) \/ RenameTemp(w)

FileNext ==
  \/ \E w \in Putters : PutStep(w) \/ \E x \in SourceValues : OpenTemp(w, x)
  \/ FileCrash

FileSpec == FileInit /\ [][FileNext]_fileVars

-----------------------------------------------------------------------------
(* Well-formed files and names. *)
FileTypeOK ==
  /\ \A i \in DOMAIN file : file[i] \in SourceValues \cup {Torn, Opened}
  /\ {temp, real} \subseteq 0..Len(file) /\ (temp = real => temp = NoFile)

(* A reader never finds half a sources file: whatever is interrupted, the    *)
(* file under the real name is whole, unless two writers had the temporary   *)
(* one open at once (save_sources: temporary file and os.replace).           *)
SourcesAreWhole == real # NoFile /\ ~met => Sources # Unreadable

(* "Validate + atomically persist the sources file" (save_sources). *)
SourcesNeverTorn == real # NoFile => Sources # Unreadable
=============================================================================

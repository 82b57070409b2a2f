---------------------------- MODULE StdinCompile ----------------------------
(***************************************************************************)
(* "IStudio --stdin" as several processes run it at the same time: the     *)
(* useStdin branch of main() in src/main.cpp, with the loading of the      *)
(* source by Compiler::compileWithTarget and Config::loadSourceCode.       *)
(*                                                                         *)
(* Every process writes what it read from its standard input to ONE path,  *)
(* temp_directory_path() / "istudio-stdin-src.ipl", compiles that path and *)
(* removes it.  The file system is modelled the way the calls see it: the  *)
(* path names at most one file, an open file stays readable and writable   *)
(* after its name is removed, std::ofstream truncates what it opens and    *)
(* writes at its own offset.  A text is a sequence of the parts the        *)
(* library writes and reads it in.                                         *)
(***************************************************************************)
EXTENDS Integers, Sequences

CONSTANTS Process,   \* the processes started with --stdin
          Part,      \* what one write or read transfers
          Payload,   \* the text on each process's standard input
          Valid,     \* the texts that compile; all else it takes is fixed
          Leftover,  \* the file of an earlier run, if the path names one
          Faults     \* whether opening and writing the file may fail

ASSUME PayloadAssumption == Payload \in [Process -> Seq(Part)]

ASSUME LeftoverAssumption == Leftover \notin Process

NoFile == "no file"
Hole   == "hole"

ASSUME NoFileAssumption == NoFile \notin Process \cup {Leftover}

File == Process \cup {Leftover}   \* a file is known by the process that made it

VARIABLES
  pc,        \* pc[p]: where process p is
  name,      \* the file that the path names
  content,   \* content[f]: what is in file f
  out,       \* out[p]: the file that p's std::ofstream has open
  written,   \* written[p]: the parts p has written
  in,        \* in[p]: the file that p's std::ifstream has open
  loaded,    \* loaded[p]: the parts p has read, Config::source_code_ at the end
  exit,      \* exit[p]: the exit code of p
  owner      \* history: the process, if any, that opened the file last, has
             \* written all it meant to so far, and saw nobody else change it

vars == <<pc, name, content, out, written, in, loaded, exit, owner>>

Running == {"write", "load", "read", "compile", "remove"}
Ended   == {"refused", "done", "killed"}

NoExit == -1

-----------------------------------------------------------------------------
Goto(p, from, to) == pc[p] = from /\ pc' = [pc EXCEPT ![p] = to]

\* Somebody changes the file system: whoever owned the file before does no more.
Touch(p) == owner' = IF owner = p THEN p ELSE NoFile

\* The grammar and the translation are resolved and standard input is read;
\* a missing file or an empty payload ends the process.
ReadStdin(p) ==
  /\ \/ Goto(p, "start", "open") /\ Payload[p] # <<>> /\ UNCHANGED exit
     \/ Goto(p, "start", "refused") /\ exit' = [exit EXCEPT ![p] = 1]
  /\ UNCHANGED <<name, content, out, written, in, loaded, owner>>

\* Mutant: the file is opened without truncating it.
OpenUntruncated(p) ==
  /\ Goto(p, "open", "write")
  /\ LET f == IF name = NoFile THEN p ELSE name IN
     /\ name' = f /\ out' = [out EXCEPT ![p] = f] /\ UNCHANGED content
  /\ owner' = p /\ UNCHANGED <<written, in, loaded, exit>>

\* std::ofstream out(tempFile): the file is made, or truncated if there is one.
Open(p) ==
  /\ Goto(p, "open", "write")
  /\ LET f == IF name = NoFile THEN p ELSE name IN
     /\ name' = f
     /\ content' = [content EXCEPT ![f] = <<>>]
     /\ out' = [out EXCEPT ![p] = f]
  /\ owner' = p
  /\ UNCHANGED <<written, in, loaded, exit>>

\* The stream's state is not tested: a process that cannot open the file goes
\* on to compile what is there.
OpenFails(p) ==
  /\ Faults /\ Goto(p, "open", "load") /\ Touch(p)
  /\ UNCHANGED <<name, content, out, written, in, loaded, exit>>

\* What is in a file after a part is written behind the first n.
Written(text, n, part) ==
  [i \in 1 .. (IF n < Len(text) THEN Len(text) ELSE n + 1) |->
     CASE i = n + 1                   -> part
       [] i # n + 1 /\ i <= Len(text) -> text[i]
       [] i # n + 1 /\ i > Len(text)  -> Hole]

\* out << sourceCode: the next part goes behind those the process has written.
Write(p) ==
  /\ pc[p] = "write" /\ written[p] < Len(Payload[p])
  /\ content' = [content EXCEPT ![out[p]] =
                   Written(@, written[p], Payload[p][written[p] + 1])]
  /\ written' = [written EXCEPT ![p] = @ + 1]
  /\ Touch(p)
  /\ UNCHANGED <<pc, name, out, in, loaded, exit>>

\* A write that fails sets the stream's state, which nothing tests.
WriteFails(p) ==
  /\ Faults /\ Goto(p, "write", "load") /\ written[p] < Len(Payload[p])
  /\ owner' = IF owner = p THEN NoFile ELSE owner
  /\ UNCHANGED <<name, content, out, written, in, loaded, exit>>

Close(p) ==
  /\ Goto(p, "write", "load") /\ written[p] = Len(Payload[p])
  /\ UNCHANGED <<name, content, out, written, in, loaded, exit, owner>>

\* Mutant: the file is taken to be there.
LoadUnchecked(p) ==
  /\ Goto(p, "load", "read") /\ in' = [in EXCEPT ![p] = name]
  /\ UNCHANGED <<name, content, out, written, loaded, exit, owner>>

\* loadSourceCode opens the path again: it may name another file, or none.
Load(p) ==
  /\ \/ /\ name # NoFile /\ Goto(p, "load", "read")
        /\ in' = [in EXCEPT ![p] = name] /\ UNCHANGED exit
     \/ /\ name = NoFile /\ Goto(p, "load", "remove")
        /\ exit' = [exit EXCEPT ![p] = 1] /\ UNCHANGED in
  /\ UNCHANGED <<name, content, out, written, loaded, owner>>

\* buffer << file.rdbuf(), up to the end that the file has by then.
Read(p) ==
  /\ \/ /\ pc[p] = "read" /\ Len(loaded[p]) < Len(content[in[p]])
        /\ loaded' = [loaded EXCEPT ![p] =
                        Append(@, content[in[p]][Len(@) + 1])]
        /\ UNCHANGED pc
     \/ /\ Goto(p, "read", "compile")
        /\ Len(loaded[p]) >= Len(content[in[p]]) /\ UNCHANGED loaded
  /\ UNCHANGED <<name, content, out, written, in, exit, owner>>

Compile(p) ==
  /\ Goto(p, "compile", "remove")
  /\ exit' = [exit EXCEPT ![p] = IF loaded[p] \in Valid THEN 0 ELSE 1]
  /\ UNCHANGED <<name, content, out, written, in, loaded, owner>>

\* Mutant: the file is only removed after a success.
RemoveOnSuccess(p) ==
  /\ Goto(p, "remove", "done") /\ Touch(p)
  /\ name' = IF exit[p] = 0 THEN NoFile ELSE name
  /\ UNCHANGED <<content, out, written, in, loaded, exit>>

\* std::filesystem::remove: no error when the name is gone already.
Remove(p) ==
  /\ Goto(p, "remove", "done") /\ Touch(p)
  /\ name' = NoFile
  /\ UNCHANGED <<content, out, written, in, loaded, exit>>

\* A process is killed, or ends in the exception of a remove that failed.
Kill(p) ==
  /\ pc[p] \notin Ended /\ pc' = [pc EXCEPT ![p] = "killed"]
  /\ UNCHANGED <<name, content, out, written, in, loaded, exit, owner>>

-----------------------------------------------------------------------------
Init ==
  /\ pc = [p \in Process |-> "start"]
  /\ name \in {NoFile, Leftover}
  /\ \E text \in {<<>>} \cup {Payload[p] : p \in Process} :
       content = [f \in File |-> IF f = name THEN text ELSE <<>>]
  /\ out = [p \in Process |-> NoFile]
  /\ written = [p \in Process |-> 0]
  /\ in = [p \in Process |-> NoFile]
  /\ loaded = [p \in Process |-> <<>>]
  /\ exit = [p \in Process |-> NoExit]
  /\ owner = NoFile

Terminated == (\A p \in Process : pc[p] \in Ended) /\ UNCHANGED vars

Next ==
  \/ \E p \in Process :
       \/ ReadStdin(p) \/ Open(p) \/ OpenFails(p)
       \/ Write(p) \/ WriteFails(p) \/ Close(p)
       \/ Load(p) \/ Read(p) \/ Compile(p) \/ Remove(p) \/ Kill(p)
  \/ Terminated

Spec == Init /\ [][Next]_vars

-----------------------------------------------------------------------------
(* Correctness *)

Text == Seq(Part \cup {Hole})

TypeOK ==
  /\ pc \in [Process -> Running \cup Ended \cup {"start", "open"}]
  /\ name \in File \cup {NoFile}
  /\ content \in [File -> Text]
  /\ out \in [Process -> File \cup {NoFile}]
  /\ \A p \in Process : pc[p] = "write" => out[p] \in File
  /\ written \in [Process -> Nat]
  /\ \A p \in Process : written[p] <= Len(Payload[p])
  /\ in \in [Process -> File \cup {NoFile}]
  /\ \A p \in Process : pc[p] = "read" => in[p] \in File
  /\ loaded \in [Process -> Text]
  /\ exit \in [Process -> {NoExit, 0, 1}]
  /\ owner \in Process \cup {NoFile}

(***************************************************************************)
(* A process that has the file to itself from its opening to its removal   *)
(* reports on the text it was given, whatever an earlier run that was      *)
(* killed has left at the path.                                            *)
(***************************************************************************)
OwnersReportTheirPayload ==
  \A p \in Process : owner = p /\ pc[p] \in {"remove", "done"} =>
    exit[p] = IF Payload[p] \in Valid THEN 0 ELSE 1

(***************************************************************************)
(* The temporary file goes away: once a process has come to its end, a     *)
(* file at the path means that another one is still using the path or was  *)
(* killed.                                                                 *)
(***************************************************************************)
TemporaryFileIsRemoved ==
  (\E p \in Process : pc[p] = "done") /\ name # NoFile =>
    \E p \in Process : pc[p] \in Running \cup {"killed"}

(***************************************************************************)
(* docs/feature_matrix.md: "Persists stdin payload to                      *)
(* `istudio-stdin-src.ipl`, compiles, then deletes file."                  *)
(***************************************************************************)
PayloadIsCompiled ==
  \A p \in Process : exit[p] = 0 => loaded[p] = Payload[p]
=============================================================================

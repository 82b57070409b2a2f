----------------------------- MODULE StdinProofs -----------------------------
(***************************************************************************)
(* Theorems about StdinCompile, for any number of processes, any payloads  *)
(* and any earlier file at the path.                                       *)
(***************************************************************************)
EXTENDS StdinCompile, SequenceTheorems, TLAPS

\* What is in one text so far is the beginning of another.
Begins(s, t) ==
  Len(s) <= Len(t) /\ \A i \in 1 .. Len(s) : s[i] = t[i]

-----------------------------------------------------------------------------
(* Texts *)

\* A payload is a text.
LEMMA PayloadText ==
  ASSUME NEW p \in Process
  PROVE  /\ Payload[p] \in Text
         /\ Len(Payload[p]) \in Nat
         /\ \A i \in 1 .. Len(Payload[p]) : Payload[p][i] \in Part
<1>1. Payload[p] \in Seq(Part)
  BY PayloadAssumption
<1>2. Part \subseteq Part \cup {Hole}
  OBVIOUS
<1>3. Payload[p] \in Seq(Part \cup {Hole})
  BY <1>1, <1>2, SeqMonotonic
<1>4. \A i \in 1 .. Len(Payload[p]) : Payload[p][i] \in Part
  BY <1>1, ElementOfSeq
<1> QED BY <1>1, <1>3, <1>4 DEF Text

\* A text that begins another and is as long is the other.
LEMMA BeginsAll ==
  ASSUME NEW s \in Text, NEW t \in Text, Begins(s, t), Len(s) >= Len(t)
  PROVE  s = t
<1>1. Len(s) = Len(t) /\ \A i \in 1 .. Len(s) : s[i] = t[i]
  BY LenProperties DEF Begins, Text
<1> QED BY <1>1, SeqEqual DEF Text

\* What Written makes of a text.
LEMMA WrittenText ==
  ASSUME NEW text \in Text, NEW n \in Nat, NEW part \in Part
  PROVE  /\ Written(text, n, part) \in Text
         /\ Len(Written(text, n, part)) = IF n < Len(text) THEN Len(text) ELSE n + 1
         /\ Len(text) = n =>
              /\ \A i \in 1 .. n : Written(text, n, part)[i] = text[i]
              /\ Written(text, n, part)[n + 1] = part
<1> DEFINE size == IF n < Len(text) THEN Len(text) ELSE n + 1
<1>1. Len(text) \in Nat /\ size \in Nat /\ n + 1 \in 1 .. size
  BY LenProperties DEF Text
<1>2. \A i \in 1 .. Len(text) : text[i] \in Part \cup {Hole}
  BY ElementOfSeq DEF Text
<1>3. Written(text, n, part) \in [1 .. size -> Part \cup {Hole}]
  BY <1>1, <1>2 DEF Written
<1>4. Written(text, n, part) \in Text /\ Len(Written(text, n, part)) = size
  BY <1>1, <1>3, SeqDef, LenProperties DEF Text
<1>5. Written(text, n, part)[n + 1] = part
  BY <1>1 DEF Written
<1>6. Len(text) = n => \A i \in 1 .. n : Written(text, n, part)[i] = text[i]
  BY <1>1 DEF Written
<1> QED BY <1>4, <1>5, <1>6

\* Appending the next part of a text to its beginning.
LEMMA BeginsAppend ==
  ASSUME NEW s \in Text, NEW t \in Text, Begins(s, t), Len(s) < Len(t)
  PROVE  /\ Append(s, t[Len(s) + 1]) \in Text
         /\ Begins(Append(s, t[Len(s) + 1]), t)
<1>1. Len(s) \in Nat /\ Len(t) \in Nat /\ Len(s) + 1 \in 1 .. Len(t)
  BY LenProperties DEF Text
<1>2. t[Len(s) + 1] \in Part \cup {Hole}
  BY <1>1, ElementOfSeq DEF Text
<1>3. /\ Append(s, t[Len(s) + 1]) \in Text
      /\ Len(Append(s, t[Len(s) + 1])) = Len(s) + 1
      /\ \A i \in 1 .. Len(s) : Append(s, t[Len(s) + 1])[i] = s[i]
      /\ Append(s, t[Len(s) + 1])[Len(s) + 1] = t[Len(s) + 1]
  BY <1>2, AppendProperties DEF Text
<1> QED BY <1>1, <1>3 DEF Begins

-----------------------------------------------------------------------------
(* Type correctness *)

\* One step per action; only Write and Read make a text.
LEMMA StepType ==
  ASSUME TypeOK, NEW p \in Process,
         \/ ReadStdin(p) \/ Open(p) \/ OpenFails(p)
         \/ Write(p) \/ WriteFails(p) \/ Close(p)
         \/ Load(p) \/ Read(p) \/ Compile(p) \/ Remove(p) \/ Kill(p)
  PROVE  TypeOK'
<1>1. CASE ReadStdin(p)
  BY <1>1 DEF TypeOK, ReadStdin, Goto, Running, Ended
<1>2. CASE Open(p)
  <2>1. <<>> \in Text
    BY EmptySeq DEF Text
  <2>2. (IF name = NoFile THEN p ELSE name) \in File
    BY DEF TypeOK, File
  <2> QED BY <1>2, <2>1, <2>2 DEF TypeOK, Open, Goto, Running, Ended
<1>3. CASE OpenFails(p)
  BY <1>3 DEF TypeOK, OpenFails, Goto, Touch, Running, Ended
<1>4. CASE Write(p)
  <2>1. out[p] \in File /\ content[out[p]] \in Text
    BY <1>4 DEF TypeOK, Write
  <2>2. /\ written[p] \in Nat
        /\ Payload[p][written[p] + 1] \in Part
        /\ written[p] + 1 <= Len(Payload[p])
    BY <1>4, PayloadText DEF TypeOK, Write
  <2>3. Written(content[out[p]], written[p], Payload[p][written[p] + 1]) \in Text
    BY <2>1, <2>2, WrittenText
  <2> QED BY <1>4, <2>1, <2>2, <2>3 DEF TypeOK, Write, Touch
<1>5. CASE WriteFails(p)
  BY <1>5 DEF TypeOK, WriteFails, Goto, Running, Ended
<1>6. CASE Close(p)
  BY <1>6 DEF TypeOK, Close, Goto, Running, Ended
<1>7. CASE Load(p)
  <2>1. CASE name # NoFile /\ Goto(p, "load", "read")
    BY <1>7, <2>1 DEF TypeOK, Load, Goto, Running, Ended
  <2>2. CASE name = NoFile /\ Goto(p, "load", "remove")
    BY <1>7, <2>2 DEF TypeOK, Load, Goto, Running, Ended
  <2> QED BY <1>7, <2>1, <2>2 DEF Load
<1>8. CASE Read(p)
  <2>1. CASE pc' = pc
    <3>1. /\ in[p] \in File /\ Len(loaded[p]) < Len(content[in[p]])
          /\ loaded' = [loaded EXCEPT ![p] =
                          Append(@, content[in[p]][Len(@) + 1])]
      BY <1>8, <2>1 DEF TypeOK, Read, Goto
    <3>2. loaded[p] \in Text /\ content[in[p]] \in Text
      BY <3>1 DEF TypeOK
    <3>3. content[in[p]][Len(loaded[p]) + 1] \in Part \cup {Hole}
      BY <3>1, <3>2, ElementOfSeq, LenProperties DEF Text
    <3>4. Append(loaded[p], content[in[p]][Len(loaded[p]) + 1]) \in Text
      BY <3>2, <3>3, AppendProperties DEF Text
    <3> QED BY <1>8, <2>1, <3>1, <3>4 DEF TypeOK, Read
  <2>2. CASE Goto(p, "read", "compile") /\ UNCHANGED loaded
    BY <1>8, <2>2 DEF TypeOK, Read, Goto, Running, Ended
  <2> QED BY <1>8, <2>1, <2>2 DEF Read
<1>9. CASE Compile(p)
  BY <1>9 DEF TypeOK, Compile, Goto, Running, Ended
<1>10. CASE Remove(p)
  BY <1>10 DEF TypeOK, Remove, Goto, Touch, Running, Ended
<1>11. CASE Kill(p)
  BY <1>11 DEF TypeOK, Kill, Running, Ended
<1> QED BY <1>1, <1>2, <1>3, <1>4, <1>5, <1>6, <1>7, <1>8, <1>9, <1>10, <1>11

LEMMA InitType ==
  ASSUME Init PROVE TypeOK
<1>1. <<>> \in Text /\ \A p \in Process : Payload[p] \in Text
  BY EmptySeq, PayloadText DEF Text
<1>2. content \in [File -> Text]
  BY <1>1 DEF Init
<1>3. ASSUME NEW p \in Process PROVE 0 <= Len(Payload[p])
  BY PayloadText
<1> QED BY <1>1, <1>2, <1>3 DEF Init, TypeOK, File, Running, Ended

(***************************************************************************)
(* The state keeps its types: whoever opens, truncates, writes or removes  *)
(* the file, a process that writes or reads has a file open.               *)
(***************************************************************************)
THEOREM Typing == Spec => []TypeOK
<1>1. Init => TypeOK
  BY InitType
<1>2. TypeOK /\ [Next]_vars => TypeOK'
  <2> SUFFICES ASSUME TypeOK, [Next]_vars PROVE TypeOK'
    OBVIOUS
  <2>1. CASE UNCHANGED vars
    BY <2>1 DEF vars, TypeOK
  <2>2. CASE Next /\ ~UNCHANGED vars
    BY <2>2, StepType DEF Next, Terminated
  <2> QED BY <2>1, <2>2
<1> QED BY <1>1, <1>2, PTL DEF Spec

-----------------------------------------------------------------------------
(* The temporary file goes away *)

(***************************************************************************)
(* Only an opening gives the path a file again, and the process that did   *)
(* so is then running: TemporaryFileIsRemoved, for any number of           *)
(* processes, is inductive once the types are known.                       *)
(***************************************************************************)
THEOREM FileGoesAway == Spec => []TemporaryFileIsRemoved
<1>1. Init => TemporaryFileIsRemoved
  BY DEF Init, TemporaryFileIsRemoved
<1>2. TypeOK /\ TemporaryFileIsRemoved /\ [Next]_vars => TemporaryFileIsRemoved'
  <2> SUFFICES ASSUME TypeOK, TemporaryFileIsRemoved, [Next]_vars
               PROVE  TemporaryFileIsRemoved'
    OBVIOUS
  <2>1. CASE UNCHANGED vars
    BY <2>1 DEF vars, TemporaryFileIsRemoved
  <2>2. ASSUME NEW p \in Process,
               \/ ReadStdin(p) \/ OpenFails(p) \/ Write(p) \/ WriteFails(p)
               \/ Close(p) \/ Load(p) \/ Read(p) \/ Compile(p)
        PROVE  TemporaryFileIsRemoved'
    <3>1. /\ name' = name
          /\ pc'[p] \in Running \/ pc[p] = "start"
          /\ pc'[p] # "done" /\ pc[p] # "killed"
          /\ pc[p] \in Running => pc'[p] \in Running
          /\ \A q \in Process : q # p => pc'[q] = pc[q]
      BY <2>2 DEF TypeOK, ReadStdin, OpenFails, Write, WriteFails, Close, Load,
                  Read, Compile, Goto, Running
    <3> QED BY <3>1 DEF TemporaryFileIsRemoved, Running
  <2>3. ASSUME NEW p \in Process, Open(p) PROVE TemporaryFileIsRemoved'
    BY <2>3 DEF TypeOK, TemporaryFileIsRemoved, Open, Goto, Running
  <2>4. ASSUME NEW p \in Process, Remove(p) PROVE TemporaryFileIsRemoved'
    BY <2>4 DEF TemporaryFileIsRemoved, Remove
  <2>5. ASSUME NEW p \in Process, Kill(p) PROVE TemporaryFileIsRemoved'
    BY <2>5 DEF TypeOK, TemporaryFileIsRemoved, Kill
  <2>6. CASE Next
    BY <2>1, <2>2, <2>3, <2>4, <2>5, <2>6 DEF Next, Terminated
  <2> QED BY <2>1, <2>6
<1> QED BY <1>1, <1>2, Typing, PTL DEF Spec

-----------------------------------------------------------------------------
(* The owner of the file *)

\* What holds of the process that owns the file, at every place it can be at:
\* the path names the file it wrote, the file holds what it has written, and
\* what it has loaded is the beginning of that.
Owned(p) ==
  /\ pc[p] \notin {"start", "open", "refused"}
  /\ pc[p] \in {"write", "load", "read"} =>
       /\ name = out[p] /\ name # NoFile
       /\ Len(content[name]) = written[p]
       /\ Begins(content[name], Payload[p])
  /\ pc[p] \in {"load", "read"} => written[p] = Len(Payload[p])
  /\ pc[p] = "read" => in[p] = name /\ Begins(loaded[p], Payload[p])
  /\ pc[p] = "compile" => loaded[p] = Payload[p]
  /\ pc[p] \in {"remove", "done"} =>
       exit[p] = IF Payload[p] \in Valid THEN 0 ELSE 1

\* A process that has not begun to write has written nothing, and one that has
\* not begun to read has loaded nothing.
Fresh ==
  \A p \in Process :
    /\ pc[p] \in {"start", "open"} => written[p] = 0
    /\ pc[p] \in {"start", "open", "write", "load"} => loaded[p] = <<>>

OwnerInv == TypeOK /\ Fresh /\ \A p \in Process : owner = p => Owned(p)

Step(p) ==
  \/ ReadStdin(p) \/ Open(p) \/ OpenFails(p) \/ Write(p) \/ WriteFails(p)
  \/ Close(p) \/ Load(p) \/ Read(p) \/ Compile(p) \/ Remove(p) \/ Kill(p)

LEMMA StepFresh ==
  ASSUME TypeOK, Fresh, NEW p \in Process, Step(p)
  PROVE  Fresh'
<1>1. ASSUME NEW q \in Process, q # p
      PROVE  pc'[q] = pc[q] /\ written'[q] = written[q] /\ loaded'[q] = loaded[q]
  BY <1>1 DEF Step, TypeOK, ReadStdin, Open, OpenFails, Write, WriteFails, Close,
              Load, Read, Compile, Remove, Kill, Goto
<1>2. /\ pc'[p] \in {"start", "open"} => written'[p] = 0
      /\ pc'[p] \in {"start", "open", "write", "load"} => loaded'[p] = <<>>
  BY DEF Fresh, Step, TypeOK, ReadStdin, Open, OpenFails, Write, WriteFails,
         Close, Load, Read, Compile, Remove, Kill, Goto
<1> QED BY <1>1, <1>2 DEF Fresh

\* A step of another process that leaves p the owner changes nothing that p
\* has to do with.
LEMMA OthersKeepOwned ==
  ASSUME OwnerInv, NEW p \in Process, NEW q \in Process, q # p, Step(q),
         owner' = p
  PROVE  Owned(p)'
<1>1. /\ owner = p /\ name' = name /\ content' = content
      /\ pc'[p] = pc[p] /\ out'[p] = out[p] /\ written'[p] = written[p]
      /\ in'[p] = in[p] /\ loaded'[p] = loaded[p] /\ exit'[p] = exit[p]
  BY NoFileAssumption
  DEF OwnerInv, Step, TypeOK, ReadStdin, Open, OpenFails, Write, WriteFails,
      Close, Load, Read, Compile, Remove, Kill, Goto, Touch
<1>2. Owned(p)
  BY <1>1 DEF OwnerInv
<1> QED BY <1>1, <1>2 DEF Owned, Begins

\* The steps of the owner, one by one.
LEMMA OwnerKeepsOwned ==
  ASSUME OwnerInv, NEW p \in Process, Step(p), owner' = p
  PROVE  Owned(p)'
<1>1. TypeOK /\ Fresh /\ (owner = p => Owned(p)) /\ p # NoFile
  BY NoFileAssumption DEF OwnerInv
<1>2. ASSUME \/ ReadStdin(p) \/ OpenFails(p) \/ WriteFails(p) PROVE FALSE
  BY <1>1, <1>2 DEF ReadStdin, OpenFails, WriteFails, Goto, Touch, Owned
<1>3. CASE Open(p)
  <2> DEFINE f == IF name = NoFile THEN p ELSE name
  <2>1. f \in File /\ f # NoFile
    BY <1>1, NoFileAssumption DEF TypeOK, File
  <2>2. /\ name' = f /\ out'[p] = f /\ content'[f] = <<>> /\ pc'[p] = "write"
        /\ written'[p] = 0
    BY <1>1, <1>3, <2>1 DEF TypeOK, Fresh, Open, Goto
  <2>3. Len(content'[f]) = 0 /\ Len(Payload[p]) \in Nat
    BY <2>2, EmptySeq, PayloadText
  <2>4. Payload'[p] = Payload[p] /\ Begins(content'[f], Payload[p])
    BY <2>3 DEF Begins
  <2> HIDE DEF f
  <2> QED BY <2>1, <2>2, <2>3, <2>4 DEF Owned, Begins
<1>4. CASE Write(p)
  <2> DEFINE text == content[name]
             n    == written[p]
  <2>1. /\ owner = p /\ pc[p] = "write" /\ pc'[p] = "write" /\ name' = name
        /\ out' = out /\ n < Len(Payload[p])
    BY <1>1, <1>4 DEF Write, Touch
  <2>2. /\ name = out[p] /\ name # NoFile /\ Len(text) = n
        /\ Begins(text, Payload[p])
    BY <1>1, <2>1 DEF Owned
  <2>3. /\ text \in Text /\ n \in Nat /\ Payload[p][n + 1] \in Part
        /\ Len(Payload[p]) \in Nat
    <3>1. text \in Text /\ n \in Nat
      BY <1>1, <2>2 DEF TypeOK
    <3>2. Len(Payload[p]) \in Nat /\ n + 1 \in 1 .. Len(Payload[p])
      BY <2>1, <3>1, PayloadText
    <3> QED BY <3>1, <3>2, PayloadText
  <2>4. /\ content'[name] = Written(text, n, Payload[p][n + 1])
        /\ written'[p] = n + 1
    BY <1>1, <1>4, <2>2 DEF TypeOK, Write
  <2> DEFINE after == Written(text, n, Payload[p][n + 1])
  <2>5. /\ Len(after) = n + 1
        /\ \A i \in 1 .. n : after[i] = text[i]
        /\ after[n + 1] = Payload[p][n + 1]
    <3> HIDE DEF text, n
    <3> QED BY <2>2, <2>3, WrittenText
  <2> HIDE DEF text, n, after
  <2>6. Begins(after, Payload[p])
    <3>1. \A i \in 1 .. n + 1 : i \in 1 .. n \/ i = n + 1
      BY <2>3
    <3>2. \A i \in 1 .. n : text[i] = Payload[p][i]
      BY <2>2 DEF Begins
    <3> QED BY <2>1, <2>3, <2>5, <3>1, <3>2 DEF Begins
  <2>7. /\ name' = out'[p] /\ name' # NoFile /\ pc'[p] = "write"
        /\ Len(content'[name']) = written'[p]
        /\ Begins(content'[name'], Payload[p])
    BY <2>1, <2>2, <2>4, <2>5, <2>6 DEF after
  <2> QED BY <2>7 DEF Owned, Begins
<1>5. CASE Close(p)
  BY <1>1, <1>5 DEF Close, Goto, Owned, TypeOK, Begins
<1>6. CASE Load(p)
  <2>1. /\ owner = p /\ pc[p] = "load" /\ Owned(p) /\ loaded[p] = <<>>
    BY <1>1, <1>6 DEF Load, Goto, Fresh
  <2>2. Begins(loaded[p], Payload[p])
    BY <2>1, EmptySeq, PayloadText DEF Begins
  <2> QED BY <1>1, <1>6, <2>1, <2>2 DEF Load, Goto, Owned, TypeOK, Begins
<1>7. CASE Read(p)
  <2>1. /\ owner = p /\ pc[p] = "read" /\ Owned(p)
        /\ UNCHANGED <<name, content, out, written, in, exit>>
    BY <1>1, <1>7 DEF Read, Goto
  <2>2. /\ in[p] = name /\ Len(content[name]) = Len(Payload[p])
        /\ Begins(loaded[p], Payload[p])
        /\ \A i \in 1 .. Len(Payload[p]) : content[name][i] = Payload[p][i]
    BY <2>1 DEF Owned, Begins
  <2>3. loaded[p] \in Text /\ Payload[p] \in Text /\ Len(Payload[p]) \in Nat
        /\ Len(loaded[p]) \in Nat
    BY <1>1, PayloadText, LenProperties DEF TypeOK, Text
  <2>4. CASE /\ Len(loaded[p]) < Len(content[in[p]]) /\ UNCHANGED pc
             /\ loaded' = [loaded EXCEPT ![p] =
                             Append(@, content[in[p]][Len(@) + 1])]
    <3>1. /\ Len(loaded[p]) < Len(Payload[p])
          /\ loaded'[p] = Append(loaded[p], content[name][Len(loaded[p]) + 1])
      BY <1>1, <2>2, <2>4 DEF TypeOK
    <3>2. content[name][Len(loaded[p]) + 1] = Payload[p][Len(loaded[p]) + 1]
      BY <2>2, <2>3, <3>1
    <3>3. Begins(loaded'[p], Payload[p])
      BY <2>2, <2>3, <3>1, <3>2, BeginsAppend
    <3> QED BY <2>1, <2>4, <3>3 DEF Owned, Begins
  <2>5. CASE /\ Goto(p, "read", "compile") /\ UNCHANGED loaded
             /\ Len(loaded[p]) >= Len(content[in[p]])
    <3>1. Len(loaded[p]) >= Len(Payload[p])
      BY <2>2, <2>5
    <3>2. loaded[p] = Payload[p]
      BY <2>2, <2>3, <3>1, BeginsAll
    <3> QED BY <1>1, <2>5, <3>2 DEF Goto, TypeOK, Owned
  <2> QED BY <1>7, <2>4, <2>5 DEF Read
<1>8. CASE Compile(p)
  BY <1>1, <1>8 DEF Compile, Goto, Owned, TypeOK
<1>9. CASE Remove(p)
  BY <1>1, <1>9 DEF Remove, Goto, Touch, Owned, TypeOK
<1>10. CASE Kill(p)
  BY <1>1, <1>10 DEF Kill, Owned, TypeOK
<1> QED BY <1>2, <1>3, <1>4, <1>5, <1>6, <1>7, <1>8, <1>9, <1>10 DEF Step

(***************************************************************************)
(* A process that nobody interfered with between its opening of the file   *)
(* and its removal exits with the code its payload deserves, for any       *)
(* number of processes, any payloads, whatever an earlier run left at the  *)
(* path and whatever fails or is killed elsewhere.                         *)
(***************************************************************************)
THEOREM OwnersAreRight == Spec => []OwnersReportTheirPayload
<1>1. Init => OwnerInv
  <2> SUFFICES ASSUME Init PROVE OwnerInv
    OBVIOUS
  <2>1. TypeOK
    BY InitType
  <2> QED BY <2>1, NoFileAssumption DEF Init, OwnerInv, Fresh
<1>2. OwnerInv /\ [Next]_vars => OwnerInv'
  <2> SUFFICES ASSUME OwnerInv, [Next]_vars PROVE OwnerInv'
    OBVIOUS
  <2>1. CASE UNCHANGED vars
    BY <2>1 DEF vars, OwnerInv, TypeOK, Fresh, Owned, Begins
  <2>2. ASSUME NEW p \in Process, Step(p) PROVE OwnerInv'
    <3>1. TypeOK'
      BY <2>2, StepType DEF OwnerInv, Step
    <3>2. Fresh'
      BY <2>2, StepFresh DEF OwnerInv
    <3>3. ASSUME NEW q \in Process, owner' = q PROVE Owned(q)'
      <4>1. CASE q = p
        BY <2>2, <3>3, <4>1, OwnerKeepsOwned
      <4>2. CASE q # p
        BY <2>2, <3>3, <4>2, OthersKeepOwned
      <4> QED BY <4>1, <4>2
    <3> QED BY <3>1, <3>2, <3>3 DEF OwnerInv
  <2> QED BY <2>1, <2>2 DEF Next, Step, Terminated
<1>3. OwnerInv => OwnersReportTheirPayload
  BY DEF OwnerInv, Owned, OwnersReportTheirPayload
<1> QED BY <1>1, <1>2, <1>3, PTL DEF Spec
=============================================================================

--------------------------- MODULE GeneratorProofs ---------------------------
(***************************************************************************)
(* Theorems about the code generators, for every set of programs and rule  *)
(* files.                                                                  *)
(***************************************************************************)
EXTENDS PythonGenerator, Numbers, SequenceTheorems

-----------------------------------------------------------------------------
(* How far a rule file has been read *)

Headers(k) == {n \in 1 .. k : File[n].kind = "header"}

\* The templates up to line k in the section under the header at line h.
Templates(h, k) ==
  {n \in h + 1 .. k : /\ \A m \in Headers(n) : m <= h
                      /\ File[n].kind = "entry"
                      /\ Begins(File[n], 8, "template") /\ File[n].hasValue}

IsTemplate(template, h, k) ==
  IF Templates(h, k) = {} THEN template = <<>>
  ELSE \E n \in Templates(h, k) : /\ \A m \in Templates(h, k) : m <= n
                                  /\ template = File[n].value

IsList(list) == list \in Seq(Range(list))

\* A list has a rule for each section up to line k, in their order.
Lists(list, k) ==
  \E at \in [1 .. Len(list) -> Headers(k)] :
    /\ \A i, j \in 1 .. Len(list) : i < j => at[i] < at[j]
    /\ \A h \in Headers(k) : \E i \in 1 .. Len(list) : at[i] = h
    /\ \A i \in 1 .. Len(list) : /\ list[i].nodeType = File[at[i]].type
                                 /\ IsTemplate(list[i].template, at[i], k)

\* Of the section that is being read the type and the last template are known.
ReadTo(k) ==
  /\ lines = SubSeq(File, k + 1, Len(File))
  /\ \/ currentType = "" /\ Headers(k) = {} /\ parsed = <<>>
     \/ \E h \in Headers(k) :
          /\ \A m \in Headers(k) : m <= h
          /\ currentType = File[h].type
          /\ IsTemplate(currentTemplate, h, k)
          /\ Lists(parsed, h - 1)

ReadInv ==
  /\ language \in Language
  /\ reading \in {"start", "lines", "loaded"}
  /\ IsList(parsed)
  /\ reading = "start" => currentType = "" /\ parsed = <<>>
  /\ reading # "loaded" => rules = NoRules
  /\ Generator # "generic" => rules = NoRules /\ reading # "lines"
  /\ reading = "lines" =>
       language \in DOMAIN RuleFiles /\ \E k \in 0 .. Len(File) : ReadTo(k)
  /\ RulesAreTheSections

-----------------------------------------------------------------------------
(* The lines of a file *)

\* A file is a sequence whose headers name a type.
LEMMA FileIsASequence ==
  /\ Len(File) \in Nat
  /\ File \in Seq(Range(File))
  /\ DOMAIN File = 1 .. Len(File)
  /\ \A n \in DOMAIN File : File[n].kind = "header" => File[n].type # ""
<1>1. CASE language \in DOMAIN RuleFiles
  <2> DEFINE file == RuleFiles[language]
  <2>1. Len(file) \in Nat /\ file = [n \in 1 .. Len(file) |-> file[n]]
    BY <1>1, RuleFilesAssumption
  <2>2. DOMAIN file = 1 .. Len(file)
    BY <2>1
  <2>3. file \in Seq(Range(file))
    <3>1. \A n \in 1 .. Len(file) : file[n] \in Range(file)
      BY <2>2 DEF Range
    <3>2. [n \in 1 .. Len(file) |-> file[n]] \in Seq(Range(file))
      <4> HIDE DEF file
      <4> QED BY <2>1, <3>1, IsASeq
    <3> QED BY <2>1, <3>2
  <2> QED BY <1>1, <2>1, <2>2, <2>3, RuleFilesAssumption DEF File
<1>2. CASE language \notin DOMAIN RuleFiles
  <2>1. File = <<>>
    BY <1>2 DEF File
  <2> QED BY <2>1, EmptySeq
<1> QED BY <1>1, <1>2

LEMMA FileLength == Len(File) \in Nat
BY FileIsASequence

\* The next line is the one behind those that have been read.
LEMMA NextLine ==
  ASSUME NEW k \in 0 .. Len(File), lines = SubSeq(File, k + 1, Len(File)), lines # <<>>
  PROVE  /\ k + 1 \in 1 .. Len(File)
         /\ Head(lines) = File[k + 1]
         /\ Tail(lines) = SubSeq(File, k + 2, Len(File))
<1>1. Len(File) \in Nat /\ File \in Seq(Range(File))
  BY FileIsASequence
<1>2. k + 1 <= Len(File)
  BY <1>1, SubSeqEmpty
<1> QED BY <1>1, <1>2, HeadTailOfSubSeq

LEMMA LastLine ==
  ASSUME NEW k \in 0 .. Len(File), lines = SubSeq(File, k + 1, Len(File)), lines = <<>>
  PROVE  k = Len(File)
<1>1. Len(File) \in Nat /\ File \in Seq(Range(File)) /\ DOMAIN File = 1 .. Len(File)
  BY FileIsASequence
<1>2. \A i \in k + 1 .. Len(File) : File[i] \in Range(File)
  BY <1>1, ElementOfSeq
<1>3. Len(SubSeq(File, k + 1, Len(File)))
        = IF k + 1 <= Len(File) THEN Len(File) - (k + 1) + 1 ELSE 0
  BY <1>1, <1>2, SubSeqProperties
<1>4. Len(SubSeq(File, k + 1, Len(File))) = 0
  BY EmptySeq
<1>5. Len(File) \in Nat /\ k \in Int /\ k <= Len(File)
  BY <1>1
<1>6. ~(k + 1 <= Len(File))
  <2>1. SUFFICES ASSUME k + 1 <= Len(File)
                 PROVE  FALSE
    OBVIOUS
  <2>2. Len(SubSeq(File, k + 1, Len(File))) = Len(File) - (k + 1) + 1
    BY <1>3, <2>1
  <2> QED BY <1>4, <1>5, <2>1, <2>2
<1> QED BY <1>5, <1>6

-----------------------------------------------------------------------------
(* What a line adds *)

\* A line that is no header opens no section.
LEMMA HeadersStay ==
  ASSUME NEW k \in Nat, File[k + 1].kind # "header"
  PROVE  Headers(k + 1) = Headers(k)
BY DEF Headers

LEMMA HeadersGrow ==
  ASSUME NEW k \in Nat, File[k + 1].kind = "header"
  PROVE  Headers(k + 1) = Headers(k) \cup {k + 1}
BY DEF Headers

\* A line that is no template of a section leaves the templates there are.
LEMMA TemplatesStay ==
  ASSUME NEW k \in Nat, NEW h \in 1 .. k,
         \/ File[k + 1].kind # "entry"
         \/ ~Begins(File[k + 1], 8, "template")
         \/ ~File[k + 1].hasValue
         \/ \E m \in Headers(k + 1) : m > h
  PROVE  Templates(h, k + 1) = Templates(h, k)
<1>1. k + 1 \notin Templates(h, k + 1)
  BY DEF Templates, Headers
<1> QED BY <1>1 DEF Templates

LEMMA TemplatesGrow ==
  ASSUME NEW k \in Nat, NEW h \in 1 .. k,
         File[k + 1].kind = "entry", Begins(File[k + 1], 8, "template"),
         File[k + 1].hasValue, \A m \in Headers(k) : m <= h
  PROVE  IsTemplate(File[k + 1].value, h, k + 1)
<1>1. Headers(k + 1) = Headers(k)
  BY HeadersStay
<1>2. k + 1 \in Templates(h, k + 1)
  BY <1>1 DEF Templates
<1>3. \A m \in Templates(h, k + 1) : m <= k + 1
  BY DEF Templates
<1> QED BY <1>2, <1>3 DEF IsTemplate

\* The sections in front of a header are finished.
LEMMA TemplatesEnd ==
  ASSUME NEW k \in Nat, NEW h \in 1 .. k, NEW g \in Headers(k), h < g
  PROVE  Templates(h, k) = Templates(h, g - 1)
<1>1. g \in 1 .. k /\ File[g].kind = "header"
  BY DEF Headers
<1>2. \A n \in g .. k : g \in Headers(n)
  BY <1>1 DEF Headers
<1>3. \A n \in Templates(h, k) : n \in h + 1 .. k /\ n < g
  BY <1>1, <1>2 DEF Templates
<1> QED BY <1>1, <1>3 DEF Templates

-----------------------------------------------------------------------------
(* The rules that are saved *)

LEMMA AppendToList ==
  ASSUME NEW list, IsList(list), NEW x
  PROVE  /\ IsList(Append(list, x))
         /\ Len(list) \in Nat /\ Len(Append(list, x)) = Len(list) + 1
         /\ \A i \in 1 .. Len(list) : Append(list, x)[i] = list[i]
         /\ Append(list, x)[Len(list) + 1] = x
<1> DEFINE S == Range(list) \cup {x}
<1>1. list \in Seq(S)
  BY SeqMonotonic DEF IsList
<1>2. x \in S
  OBVIOUS
<1>3. Append(list, x) \in Seq(S)
  <2> HIDE DEF S
  <2> QED BY <1>1, <1>2, AppendProperties
<1>4. IsList(Append(list, x))
  <2> HIDE DEF S
  <2> QED BY <1>3, SeqOfRange DEF IsList
<1> HIDE DEF S
<1> QED BY <1>1, <1>2, <1>4, LenProperties, AppendProperties

\* The list that is saved at a header, or at the end, has all the sections.
LEMMA SavedLists ==
  ASSUME NEW k \in 0 .. Len(File), ReadTo(k), IsList(parsed)
  PROVE  IsList(Saved) /\ Lists(Saved, k)
<1>1. CASE currentType = "" /\ Headers(k) = {} /\ parsed = <<>>
  <2>1. Saved = <<>> /\ Len(Saved) = 0
    BY <1>1, EmptySeq DEF Saved
  <2>2. [i \in 1 .. Len(Saved) |-> i] \in [1 .. Len(Saved) -> Headers(k)]
    BY <2>1
  <2>3. Lists(Saved, k)
    BY <1>1, <2>1, <2>2 DEF Lists
  <2> QED BY <1>1, <2>1, <2>3
<1>2. ASSUME NEW h \in Headers(k), \A m \in Headers(k) : m <= h,
             currentType = File[h].type, IsTemplate(currentTemplate, h, k),
             Lists(parsed, h - 1)
      PROVE  IsList(Saved) /\ Lists(Saved, k)
  <2> DEFINE rule == [nodeType |-> currentType, template |-> currentTemplate,
                      mappings |-> Mappings(currentMappings)]
             last == Len(parsed) + 1
  <2>1. h \in 1 .. k /\ File[h].kind = "header" /\ Len(File) \in Nat
    BY <1>2, FileIsASequence DEF Headers
  <2>2. currentType # ""
    <3>1. DOMAIN File = 1 .. Len(File)
      BY FileIsASequence
    <3>2. h \in DOMAIN File
      BY <2>1, <3>1
    <3> QED BY <1>2, <2>1, <3>2, FileIsASequence
  <2>3. Saved = Append(parsed, rule)
    BY <2>2 DEF Saved
  <2>4. rule.nodeType = File[h].type /\ IsTemplate(rule.template, h, k)
    BY <1>2
  <2> HIDE DEF rule
  <2>5. /\ IsList(Saved) /\ Len(parsed) \in Nat /\ Len(Saved) = last
        /\ \A i \in 1 .. Len(parsed) : Saved[i] = parsed[i]
        /\ Saved[last] = rule
    BY <2>3, AppendToList
  <2>6. PICK before \in [1 .. Len(parsed) -> Headers(h - 1)] :
          /\ \A i, j \in 1 .. Len(parsed) : i < j => before[i] < before[j]
          /\ \A g \in Headers(h - 1) : \E i \in 1 .. Len(parsed) : before[i] = g
          /\ \A i \in 1 .. Len(parsed) :
               /\ parsed[i].nodeType = File[before[i]].type
               /\ IsTemplate(parsed[i].template, before[i], h - 1)
    BY <1>2 DEF Lists
  <2> DEFINE at == [i \in 1 .. last |-> IF i = last THEN h ELSE before[i]]
  <2>7. \A g \in Headers(h - 1) : g \in Headers(k) /\ g < h /\ g \in 1 .. k
    BY <2>1 DEF Headers
  <2>8. \A i \in 1 .. last : i = last \/ i \in 1 .. Len(parsed)
    BY <2>5
  <2>9. \A i \in 1 .. Len(parsed) : at[i] = before[i] /\ before[i] \in Headers(h - 1)
    BY <2>5, <2>6
  <2>10. at[last] = h /\ last \in 1 .. last
    BY <2>5
  <2>11. \A i \in 1 .. last : at[i] \in Headers(k)
    BY <1>2, <2>7, <2>8, <2>9, <2>10
  <2>12. at \in [1 .. Len(Saved) -> Headers(k)]
    BY <2>5, <2>11
  <2> HIDE DEF at
  <2>13. ASSUME NEW i \in 1 .. last, NEW j \in 1 .. last, i < j
         PROVE  at[i] < at[j]
    <3>1. i \in 1 .. Len(parsed) /\ at[i] < h
      BY <2>5, <2>7, <2>8, <2>9, <2>13
    <3>2. CASE j = last
      BY <2>10, <3>1, <3>2
    <3>3. CASE j \in 1 .. Len(parsed)
      BY <2>6, <2>9, <2>13, <3>1, <3>3
    <3> QED BY <2>8, <3>2, <3>3
  <2>14. ASSUME NEW g \in Headers(k)
         PROVE  \E i \in 1 .. last : at[i] = g
    <3>1. CASE g = h
      BY <2>10, <3>1
    <3>2. CASE g # h
      <4>1. g \in Headers(h - 1)
        BY <1>2, <2>1, <3>2 DEF Headers
      <4>2. PICK i \in 1 .. Len(parsed) : before[i] = g
        BY <2>6, <4>1
      <4> QED BY <2>5, <2>9, <4>2
    <3> QED BY <3>1, <3>2
  <2>15. ASSUME NEW i \in 1 .. last
         PROVE  /\ Saved[i].nodeType = File[at[i]].type
                /\ IsTemplate(Saved[i].template, at[i], k)
    <3>1. CASE i = last
      BY <2>4, <2>5, <2>10, <3>1
    <3>2. CASE i \in 1 .. Len(parsed)
      <4>1. Templates(at[i], k) = Templates(at[i], h - 1)
        <5>1. k \in Nat /\ at[i] \in 1 .. k /\ h \in Headers(k) /\ at[i] < h
          <6>1. k \in Nat
            BY <2>1
          <6>2. at[i] \in Headers(h - 1)
            BY <2>9, <3>2
          <6> QED BY <1>2, <2>7, <6>1, <6>2
        <5> QED BY <5>1, TemplatesEnd
      <4>2. IsTemplate(parsed[i].template, at[i], h - 1)
        BY <2>6, <2>9, <3>2
      <4>3. IsTemplate(Saved[i].template, at[i], k)
        BY <2>5, <3>2, <4>1, <4>2 DEF IsTemplate
      <4> QED BY <2>5, <2>6, <2>9, <3>2, <4>3
    <3> QED BY <2>8, <3>1, <3>2
  <2>16. Lists(Saved, k)
    BY <2>5, <2>12, <2>13, <2>14, <2>15 DEF Lists
  <2> QED BY <2>5, <2>16
<1> QED BY <1>1, <1>2 DEF ReadTo

-----------------------------------------------------------------------------
(* The rules that are loaded *)

\* What the last section of a type has for a template is its last template.
LEMMA ValueOfSection ==
  ASSUME NEW h \in Headers(Len(File)),
         \A m \in Headers(Len(File)) : File[m].type = File[h].type => m <= h,
         NEW template, IsTemplate(template, h, Len(File))
  PROVE  Value(File[h].type, "template") = template
<1> DEFINE type == File[h].type
           headers == {n \in DOMAIN File : File[n].kind = "header"}
           IsStart(n) == File[n].type = type
                           /\ \A m \in headers : File[m].type = type => m <= n
           start == CHOOSE n \in headers : IsStart(n)
           at == {n \in LastSection(type) : /\ File[n].kind = "entry"
                                            /\ Begins(File[n], 8, "template")
                                            /\ File[n].hasValue}
<1>1. Len(File) \in Nat /\ DOMAIN File = 1 .. Len(File)
  BY FileIsASequence
<1>2. headers = Headers(Len(File))
  BY <1>1 DEF Headers
<1>3. h \in headers /\ IsStart(h)
  BY <1>2
<1>4. start \in headers /\ IsStart(start)
  BY <1>3
<1>5. \A n \in headers : n \in Nat
  BY <1>1
<1>6. start = h
  <2>1. start <= h /\ h <= start
    BY <1>3, <1>4
  <2>2. start \in Nat /\ h \in Nat
    BY <1>3, <1>4, <1>5
  <2> QED BY <2>1, <2>2
<1>7. LastSection(type)
        = {n \in DOMAIN File : n > start /\ \A m \in headers : m <= start \/ m > n}
  BY DEF LastSection
<1>8. LastSection(type)
        = {n \in DOMAIN File : n > h /\ \A m \in headers : m <= h \/ m > n}
  <2> HIDE DEF start
  <2> QED BY <1>6, <1>7
<1> HIDE DEF start, type
<1>9. at = Templates(h, Len(File))
  <2>1. ASSUME NEW n
        PROVE  n \in at <=> n \in Templates(h, Len(File))
    <3>1. n \in at <=> /\ n \in 1 .. Len(File) /\ n > h
                       /\ \A m \in headers : m <= h \/ m > n
                       /\ File[n].kind = "entry"
                       /\ Begins(File[n], 8, "template") /\ File[n].hasValue
      BY <1>1, <1>8
    <3>2. n \in Templates(h, Len(File))
            <=> /\ n \in h + 1 .. Len(File) /\ \A m \in Headers(n) : m <= h
                /\ File[n].kind = "entry"
                /\ Begins(File[n], 8, "template") /\ File[n].hasValue
      BY DEF Templates
    <3>3. h \in 1 .. Len(File)
      BY <1>1, <1>3
    <3>4. ASSUME n \in 1 .. Len(File)
          PROVE  (\A m \in headers : m <= h \/ m > n) <=> (\A m \in Headers(n) : m <= h)
      <4>1. \A m : m \in Headers(n) <=> m \in headers /\ m <= n
        BY <1>1, <3>4 DEF Headers
      <4>2. \A m \in headers : m <= n \/ m > n
        BY <1>5, <3>4
      <4>3. \A m \in headers : ~(m <= n /\ m > n)
        BY <1>5, <3>4
      <4> HIDE DEF headers
      <4> QED BY <4>1, <4>2, <4>3
    <3>5. n \in h + 1 .. Len(File) <=> n \in 1 .. Len(File) /\ n > h
      BY <1>1, <3>3
    <3> HIDE DEF headers, at
    <3> QED BY <3>1, <3>2, <3>4, <3>5
  <2> HIDE DEF at
  <2> QED BY <2>1
<1>10. Value(type, "template")
         = IF at = {} THEN <<>> ELSE File[CHOOSE n \in at : \A m \in at : m <= n].value
  BY DEF Value
<1>11. CASE at = {}
  BY <1>9, <1>10, <1>11 DEF IsTemplate, type
<1>12. CASE at # {}
  <2> HIDE DEF at
  <2>1. PICK n \in at : (\A m \in at : m <= n) /\ template = File[n].value
    BY <1>9, <1>12 DEF IsTemplate
  <2> DEFINE last == CHOOSE i \in at : \A m \in at : m <= i
  <2>2. last \in at /\ \A m \in at : m <= last
    BY <2>1
  <2>3. \A i \in at : i \in Int
    BY <1>9 DEF Templates, Headers
  <2>4. last = n
    <3> HIDE DEF last
    <3>1. last <= n /\ n <= last /\ last \in Int /\ n \in Int
      BY <2>1, <2>2, <2>3
    <3> QED BY <3>1
  <2>5. Value(type, "template") = File[last].value
    BY <1>10, <1>12
  <2> HIDE DEF last
  <2> QED BY <2>1, <2>4, <2>5 DEF type
<1> QED BY <1>11, <1>12

\* The rules that are loaded from a list are the last ones of their types.
LEMMA LoadedRules ==
  ASSUME NEW list, IsList(list)
  PROVE  /\ DOMAIN Loaded(list) = {list[n].nodeType : n \in DOMAIN list}
         /\ \A type \in DOMAIN Loaded(list) :
              \E n \in DOMAIN list :
                /\ list[n].nodeType = type /\ Loaded(list)[type] = list[n]
                /\ \A m \in DOMAIN list : list[m].nodeType = type => m <= n
<1>1. DOMAIN Loaded(list) = {list[n].nodeType : n \in DOMAIN list}
  BY DEF Loaded
<1>2. ASSUME NEW type \in DOMAIN Loaded(list)
      PROVE  \E n \in DOMAIN list :
               /\ list[n].nodeType = type /\ Loaded(list)[type] = list[n]
               /\ \A m \in DOMAIN list : list[m].nodeType = type => m <= n
  <2> DEFINE of == {n \in DOMAIN list : list[n].nodeType = type}
             IsLast(n) == list[n].nodeType = type
                            /\ \A m \in DOMAIN list : list[m].nodeType = type => m <= n
             last == CHOOSE n \in DOMAIN list : IsLast(n)
  <2>1. Len(list) \in Nat /\ DOMAIN list = 1 .. Len(list)
    BY LenProperties DEF IsList
  <2>2. of # {} /\ of \subseteq 0 .. Len(list)
    BY <1>1, <1>2, <2>1
  <2>3. \E n \in of : \A m \in of : m <= n
    <3> HIDE DEF of
    <3> QED BY <2>1, <2>2, GreatestNumber
  <2>4. \E n \in DOMAIN list : IsLast(n)
    BY <2>3
  <2>5. last \in DOMAIN list /\ IsLast(last)
    BY <2>4
  <2>6. Loaded(list)[type] = list[last]
    BY <1>1, <1>2 DEF Loaded
  <2> HIDE DEF last
  <2> QED BY <2>5, <2>6
<1> QED BY <1>1, <1>2

\* The rules of a file that has been read to its end are its sections.
LEMMA LoadedSections ==
  ASSUME NEW list, IsList(list), Lists(list, Len(File)),
         rules' = Loaded(list), language' = language
  PROVE  RulesAreTheSections'
<1> DEFINE all == Headers(Len(File))
<1>1. Len(File) \in Nat /\ DOMAIN File = 1 .. Len(File) /\ File' = File
  BY FileIsASequence DEF File
<1>2. PICK at \in [1 .. Len(list) -> all] :
        /\ \A i, j \in 1 .. Len(list) : i < j => at[i] < at[j]
        /\ \A h \in all : \E i \in 1 .. Len(list) : at[i] = h
        /\ \A i \in 1 .. Len(list) : /\ list[i].nodeType = File[at[i]].type
                                     /\ IsTemplate(list[i].template, at[i], Len(File))
  BY DEF Lists
<1>3. Len(list) \in Nat /\ DOMAIN list = 1 .. Len(list)
  BY LenProperties DEF IsList
<1>4. all = {n \in DOMAIN File : File[n].kind = "header"}
  BY <1>1 DEF Headers
<1>5. \A h \in all : h \in Int
  BY <1>1, <1>4
<1> HIDE DEF all
<1>6. DOMAIN rules' = {File[n].type : n \in all}
  <2>1. DOMAIN rules' = {list[n].nodeType : n \in 1 .. Len(list)}
    BY <1>3, LoadedRules
  <2>2. \A n \in 1 .. Len(list) : at[n] \in all
    BY <1>2
  <2> QED BY <1>2, <2>1, <2>2
<1>7. ASSUME NEW type \in DOMAIN rules'
      PROVE  rules'[type].template = Value(type, "template")
  <2>1. PICK n \in 1 .. Len(list) :
          /\ list[n].nodeType = type /\ rules'[type] = list[n]
          /\ \A m \in 1 .. Len(list) : list[m].nodeType = type => m <= n
    BY <1>3, <1>7, LoadedRules
  <2>2. at[n] \in all /\ File[at[n]].type = type
    BY <1>2, <2>1
  <2>3. ASSUME NEW h \in all, File[h].type = type
        PROVE  h <= at[n]
    <3>1. PICK m \in 1 .. Len(list) : at[m] = h
      BY <1>2
    <3>2. m <= n
      BY <1>2, <2>1, <2>3, <3>1
    <3>3. m = n \/ m < n
      BY <1>3, <3>2
    <3> QED BY <1>2, <1>5, <2>2, <3>1, <3>3
  <2>4. IsTemplate(list[n].template, at[n], Len(File))
    BY <1>2
  <2>5. Value(File[at[n]].type, "template") = list[n].template
    BY <2>2, <2>3, <2>4, ValueOfSection DEF all
  <2> QED BY <2>1, <2>2, <2>5
<1>8. \A type, key : Value(type, key)' = Value(type, key)
  BY <1>1 DEF Value, LastSection
<1> QED BY <1>1, <1>4, <1>6, <1>7, <1>8 DEF RulesAreTheSections

-----------------------------------------------------------------------------
(* Steps *)

\* What every generate function does for a node.
Emits(p) ==
  /\ p \in Printed \ DOMAIN text /\ reading = "loaded"
  /\ \A q \in Printed : Precedes(q, p) => q \in DOMAIN text
  /\ DOMAIN text' = DOMAIN text \cup {p}
  /\ \A q \in DOMAIN text : text'[q] = text[q]
  /\ UNCHANGED <<fileVars, ast>>

LEMMA DueEmits ==
  ASSUME NEW kind, NEW p \in Due(kind), NEW texts, Emit(p, texts)
  PROVE  Emits(p)
<1>1. /\ p \in Printed \ DOMAIN text /\ reading = "loaded"
      /\ \A q \in Printed : Precedes(q, p) => q \in DOMAIN text
  BY DEF Due
<1>2. PICK pieces \in texts :
        text' = [q \in DOMAIN text \cup {p} |-> IF q = p THEN pieces ELSE text[q]]
  BY DEF Emit
<1>3. DOMAIN text' = DOMAIN text \cup {p} /\ \A q \in DOMAIN text : text'[q] = text[q]
  BY <1>1, <1>2
<1> QED BY <1>1, <1>3 DEF Emit, Emits

LEMMA Generating ==
  ASSUME Generate \/ JavaGenerate \/ PythonGenerate
  PROVE  \E p : Emits(p)
<1>1. CASE SameInJava
  BY <1>1, DueEmits
     DEF SameInJava, GenerateVariableDeclaration, GenerateAssignment,
         GenerateBinaryOperation, GenerateUnaryOperation, GenerateCallExpression,
         GenerateLiteral, GenerateIdentifier, GenerateReturn,
         GenerateExpressionStatement, GenerateIf, GenerateWhile
<1>2. CASE GenerateProgram \/ GenerateFunction \/ GenerateFor
  BY <1>2, DueEmits DEF GenerateProgram, GenerateFunction, GenerateFor
<1>3. CASE GenerateBlock
  BY <1>3, DueEmits, Zenon DEF GenerateBlock
<1>4. CASE JavaProgram
  BY <1>4, DueEmits, Zenon DEF JavaProgram
<1>5. CASE JavaBlock
  BY <1>5, DueEmits, Zenon DEF JavaBlock
<1>6. CASE JavaFunction \/ JavaFor
  BY <1>6, DueEmits DEF JavaFunction, JavaFor
<1>7. CASE PythonGenerate /\ ~SameInJava
  BY <1>7, DueEmits
     DEF PythonGenerate, SameAsDefault, SameInJava, PythonProgram, PythonFunction,
         PythonVariableDeclaration, PythonAssignment, PythonUnaryOperation,
         PythonBlock, PythonReturn, PythonExpressionStatement, PythonIf,
         PythonWhile, PythonFor
<1> QED BY <1>1, <1>2, <1>3, <1>4, <1>5, <1>6, <1>7 DEF Generate, JavaGenerate

-----------------------------------------------------------------------------
(* Reading *)

LEMMA ReadStays ==
  ASSUME ReadInv, UNCHANGED fileVars
  PROVE  ReadInv'
<1>1. /\ language' = language /\ reading' = reading /\ lines' = lines
      /\ currentType' = currentType /\ currentTemplate' = currentTemplate
      /\ parsed' = parsed /\ rules' = rules
  BY DEF fileVars
<1>2. File' = File /\ Generator' = Generator
  BY <1>1 DEF File, Generator
<1>3. \A k : Headers(k)' = Headers(k)
  BY <1>2 DEF Headers
<1>4. \A h, k : Templates(h, k)' = Templates(h, k)
  BY <1>2, <1>3 DEF Templates
<1>5. \A template, h, k : IsTemplate(template, h, k)' <=> IsTemplate(template, h, k)
  BY <1>2, <1>4 DEF IsTemplate
<1>6. \A list, k : Lists(list, k)' <=> Lists(list, k)
  BY <1>2, <1>3, <1>5 DEF Lists
<1>7. \A k : ReadTo(k)' <=> ReadTo(k)
  BY <1>1, <1>2, <1>3, <1>5, <1>6 DEF ReadTo
<1>8. \A type, key : Value(type, key)' = Value(type, key)
  BY <1>2 DEF Value, LastSection
<1>9. RulesAreTheSections' <=> RulesAreTheSections
  BY <1>1, <1>2, <1>8 DEF RulesAreTheSections
<1> QED BY <1>1, <1>2, <1>7, <1>9 DEF ReadInv

LEMMA ReadInit ==
  ASSUME FileInit
  PROVE  ReadInv
<1>1. IsList(<<>>)
  BY EmptySeq DEF IsList
<1> QED BY <1>1 DEF FileInit, ReadInv, RulesAreTheSections

\* A file that is not read makes no rules.
LEMMA CreateGeneratorReads ==
  ASSUME ReadInv, CreateGenerator
  PROVE  ReadInv'
<1>1. /\ reading = "start" /\ rules' = rules /\ rules = NoRules
      /\ language' = language /\ language \in Language
      /\ currentType' = "" /\ parsed' = <<>> /\ IsList(parsed')
  BY DEF CreateGenerator, ReadInv
<1>2. File' = File /\ Generator' = Generator /\ Generator = GeneratorFor(language)
  BY <1>1 DEF File, Generator
<1>3. Len(File) \in Nat /\ File \in Seq(Range(File))
  BY FileIsASequence
<1>4. CASE Generator = "generic" /\ language \in DOMAIN RuleFiles
  <2>1. reading' = "lines" /\ lines' = File
    BY <1>2, <1>4 DEF CreateGenerator, File
  <2>2. lines' = SubSeq(File, 0 + 1, Len(File))'
    <3>1. SubSeq(File, 1, Len(File)) = File
      BY <1>3, SubSeqFull
    <3> QED BY <1>2, <2>1, <3>1
  <2>3. Headers(0)' = {}
    BY DEF Headers
  <2>4. currentType' = "" /\ Headers(0)' = {} /\ parsed' = <<>>
    BY <1>1, <2>3
  <2>5. ReadTo(0)'
    BY <2>2, <2>4 DEF ReadTo
  <2>6. 0 \in 0 .. Len(File)
    BY <1>3
  <2>7. RulesAreTheSections'
    BY <2>1 DEF RulesAreTheSections
  <2> QED BY <1>1, <1>2, <1>4, <2>1, <2>5, <2>6, <2>7 DEF ReadInv
<1>5. CASE ~(Generator = "generic" /\ language \in DOMAIN RuleFiles)
  <2>1. reading' = "loaded"
    BY <1>2, <1>5 DEF CreateGenerator
  <2>2. RulesAreTheSections'
    <3>1. CASE Generator # "generic"
      BY <1>1, <1>2, <3>1 DEF RulesAreTheSections
    <3>2. CASE Generator = "generic"
      <4>1. File' = <<>>
        BY <1>2, <1>5, <3>2 DEF File
      <4>2. DOMAIN File' = {}
        BY <4>1
      <4>3. DOMAIN rules' = {}
        BY <1>1 DEF NoRules
      <4> QED BY <4>2, <4>3 DEF RulesAreTheSections
    <3> QED BY <3>1, <3>2
  <2> QED BY <1>1, <1>2, <2>1, <2>2 DEF ReadInv
<1> QED BY <1>4, <1>5

\* A step over a line reaches the next line.
LEMMA LineRead ==
  ASSUME ReadInv, NEW kind, Line(kind), UNCHANGED <<language, reading, rules>>,
         IsList(parsed'),
         ASSUME NEW k \in 0 .. Len(File) - 1, ReadTo(k), File[k + 1].kind = kind,
                File[k + 1] = Head(lines), lines' = SubSeq(File, k + 2, Len(File)),
                File' = File
         PROVE  ReadTo(k + 1)'
  PROVE  ReadInv'
<1>1. reading = "lines" /\ lines # <<>> /\ Head(lines).kind = kind /\ lines' = Tail(lines)
  BY DEF Line
<1>2. PICK k \in 0 .. Len(File) : ReadTo(k)
  BY <1>1 DEF ReadInv
<1>3. /\ k + 1 \in 1 .. Len(File) /\ Head(lines) = File[k + 1]
      /\ Tail(lines) = SubSeq(File, k + 2, Len(File))
  BY <1>1, <1>2, NextLine DEF ReadTo
<1>4. File' = File /\ Generator' = Generator
  BY DEF File, Generator
<1>5. Len(File) \in Nat
  BY FileIsASequence
<1>6. k \in 0 .. Len(File) - 1
  BY <1>3, <1>5
<1>7. ReadTo(k + 1)'
  BY <1>1, <1>2, <1>3, <1>4, <1>6
<1>8. RulesAreTheSections'
  BY <1>1 DEF RulesAreTheSections
<1> QED BY <1>1, <1>3, <1>4, <1>7, <1>8 DEF ReadInv

\* A line that is no header keeps what is known of the sections before.
LEMMA LineInSection ==
  ASSUME NEW k \in 0 .. Len(File) - 1, ReadTo(k), File[k + 1].kind # "header",
         lines' = SubSeq(File, k + 2, Len(File)), File' = File,
         UNCHANGED <<currentType, parsed>>,
         \A h \in Headers(k) :
           (\A m \in Headers(k) : m <= h) /\ IsTemplate(currentTemplate, h, k)
             => IsTemplate(currentTemplate', h, k + 1)
  PROVE  ReadTo(k + 1)'
<1>1. Len(File) \in Nat /\ k \in Nat
  BY FileLength
<1>2. Headers(k + 1) = Headers(k)
  BY <1>1, HeadersStay
<1>3. \A i : Headers(i)' = Headers(i)
  BY DEF Headers
<1>4. \A h, i : Templates(h, i)' = Templates(h, i)
  BY <1>3 DEF Templates
<1>5. \A h, i : IsTemplate(currentTemplate, h, i)' <=> IsTemplate(currentTemplate', h, i)
  BY <1>4 DEF IsTemplate
<1>6. \A list, i : Lists(list, i)' <=> Lists(list, i)
  <2>1. \A template, h, i : IsTemplate(template, h, i)' <=> IsTemplate(template, h, i)
    BY <1>4 DEF IsTemplate
  <2> QED BY <1>3, <2>1 DEF Lists
<1>7. lines' = SubSeq(File', k + 1 + 1, Len(File'))
  <2>1. k + 1 + 1 = k + 2
    BY <1>1
  <2> QED BY <2>1
<1>8. CASE currentType = "" /\ Headers(k) = {} /\ parsed = <<>>
  BY <1>2, <1>3, <1>7, <1>8 DEF ReadTo
<1>9. ASSUME NEW h \in Headers(k), \A m \in Headers(k) : m <= h,
             currentType = File[h].type, IsTemplate(currentTemplate, h, k),
             Lists(parsed, h - 1)
      PROVE  ReadTo(k + 1)'
  <2>1. IsTemplate(currentTemplate, h, k + 1)'
    BY <1>5, <1>9
  <2>2. Lists(parsed, h - 1)'
    BY <1>6, <1>9
  <2>3. h \in Headers(k + 1)' /\ \A m \in Headers(k + 1)' : m <= h
    BY <1>2, <1>3, <1>9
  <2>4. currentType' = File'[h].type
    BY <1>9
  <2> QED BY <1>7, <2>1, <2>2, <2>3, <2>4 DEF ReadTo
<1> QED BY <1>8, <1>9 DEF ReadTo

LEMMA SkipLineReads ==
  ASSUME ReadInv, SkipLine
  PROVE  ReadInv'
<1>1. Line("blank") /\ UNCHANGED <<language, reading, currentType, currentTemplate,
                                    currentMappings, parsed, rules>>
  BY DEF SkipLine
<1>2. IsList(parsed')
  BY <1>1 DEF ReadInv
<1>3. ASSUME NEW k \in 0 .. Len(File) - 1, ReadTo(k), File[k + 1].kind = "blank",
             File[k + 1] = Head(lines), lines' = SubSeq(File, k + 2, Len(File)),
             File' = File
      PROVE  ReadTo(k + 1)'
  <2>1. k \in Nat
    BY FileLength
  <2>2. ASSUME NEW h \in Headers(k), IsTemplate(currentTemplate, h, k)
        PROVE  IsTemplate(currentTemplate', h, k + 1)
    <3>1. h \in 1 .. k
      BY <2>1 DEF Headers
    <3>2. Templates(h, k + 1) = Templates(h, k)
      BY <1>3, <2>1, <3>1, TemplatesStay
    <3> QED BY <1>1, <2>2, <3>2 DEF IsTemplate
  <2> QED BY <1>1, <1>3, <2>2, LineInSection
<1> QED BY <1>1, <1>2, <1>3, LineRead

LEMMA EntryReads ==
  ASSUME ReadInv, Entry
  PROVE  ReadInv'
<1> DEFINE line == Head(lines)
           starts == Begins(line, 8, "template") /\ line.hasValue
<1>1. /\ Line("entry") /\ UNCHANGED <<language, reading, currentType, parsed, rules>>
      /\ currentTemplate' = IF starts THEN line.value ELSE currentTemplate
  BY DEF Entry
<1>2. IsList(parsed')
  BY <1>1 DEF ReadInv
<1>3. ASSUME NEW k \in 0 .. Len(File) - 1, ReadTo(k), File[k + 1].kind = "entry",
             File[k + 1] = Head(lines), lines' = SubSeq(File, k + 2, Len(File)),
             File' = File
      PROVE  ReadTo(k + 1)'
  <2>1. k \in Nat
    BY FileLength
  <2>2. ASSUME NEW h \in Headers(k), \A m \in Headers(k) : m <= h,
               IsTemplate(currentTemplate, h, k)
        PROVE  IsTemplate(currentTemplate', h, k + 1)
    <3>1. h \in 1 .. k
      BY <2>1 DEF Headers
    <3>2. CASE starts
      <4>1. IsTemplate(File[k + 1].value, h, k + 1)
        BY <1>3, <2>1, <2>2, <3>1, <3>2, TemplatesGrow
      <4> QED BY <1>1, <1>3, <3>2, <4>1
    <3>3. CASE ~starts
      <4>1. Templates(h, k + 1) = Templates(h, k)
        BY <1>3, <2>1, <3>1, <3>3, TemplatesStay
      <4>2. currentTemplate' = currentTemplate
        BY <1>1, <3>3
      <4> QED BY <2>2, <4>1, <4>2 DEF IsTemplate
    <3> QED BY <3>2, <3>3
  <2>3. File[k + 1].kind # "header"
    BY <1>3
  <2> QED BY <1>1, <1>3, <2>2, <2>3, LineInSection
<1> QED BY <1>1, <1>2, <1>3, LineRead

\* A header ends the section before.
LEMMA HeaderReads ==
  ASSUME ReadInv, Header
  PROVE  ReadInv'
<1>1. /\ Line("header") /\ UNCHANGED <<language, reading, rules>>
      /\ parsed' = Saved /\ currentType' = Head(lines).type /\ currentTemplate' = <<>>
  BY DEF Header
<1>2. reading = "lines" /\ IsList(parsed)
  BY <1>1 DEF Line, ReadInv
<1>3. IsList(parsed')
  <2>1. PICK k \in 0 .. Len(File) : ReadTo(k)
    BY <1>2 DEF ReadInv
  <2> QED BY <1>1, <1>2, <2>1, SavedLists
<1>4. ASSUME NEW k \in 0 .. Len(File) - 1, ReadTo(k), File[k + 1].kind = "header",
             File[k + 1] = Head(lines), lines' = SubSeq(File, k + 2, Len(File)),
             File' = File
      PROVE  ReadTo(k + 1)'
  <2>1. k \in Nat /\ k \in 0 .. Len(File)
    BY FileLength
  <2>2. Lists(parsed', k)
    BY <1>1, <1>2, <1>4, <2>1, SavedLists
  <2>3. \A i : Headers(i)' = Headers(i)
    BY <1>4 DEF Headers
  <2>4. \A h, i : Templates(h, i)' = Templates(h, i)
    BY <1>4, <2>3 DEF Templates
  <2>5. Lists(parsed, k)'
    <3>1. \A template, h, i : IsTemplate(template, h, i)' <=> IsTemplate(template, h, i)
      BY <1>4, <2>4 DEF IsTemplate
    <3> QED BY <1>4, <2>2, <2>3, <3>1 DEF Lists
  <2>6. Templates(k + 1, k + 1) = {}
    BY <2>1 DEF Templates
  <2>7. IsTemplate(currentTemplate, k + 1, k + 1)'
    BY <1>1, <2>4, <2>6 DEF IsTemplate
  <2>8. Headers(k + 1)' = Headers(k) \cup {k + 1}
    BY <1>4, <2>1, <2>3, HeadersGrow
  <2>9. \A m \in Headers(k + 1)' : m <= k + 1
    BY <2>1, <2>8 DEF Headers
  <2>10. lines' = SubSeq(File', k + 1 + 1, Len(File')) /\ (k + 1) - 1 = k
    <3>1. k + 1 + 1 = k + 2 /\ (k + 1) - 1 = k
      BY <2>1
    <3> QED BY <1>4, <3>1
  <2>11. currentType' = File'[k + 1].type
    BY <1>1, <1>4
  <2> QED BY <2>5, <2>7, <2>8, <2>9, <2>10, <2>11 DEF ReadTo
<1> QED BY <1>1, <1>3, <1>4, LineRead

LEMMA LoadRulesReads ==
  ASSUME ReadInv, LoadRules
  PROVE  ReadInv'
<1>1. /\ reading = "lines" /\ lines = <<>> /\ reading' = "loaded"
      /\ parsed' = Saved /\ rules' = Loaded(Saved) /\ language' = language
  BY DEF LoadRules
<1>2. PICK k \in 0 .. Len(File) : ReadTo(k)
  BY <1>1 DEF ReadInv
<1>3. k = Len(File)
  BY <1>1, <1>2, LastLine DEF ReadTo
<1>4. IsList(Saved) /\ Lists(Saved, Len(File))
  BY <1>2, <1>3, SavedLists DEF ReadInv
<1>5. RulesAreTheSections'
  BY <1>1, <1>4, LoadedSections
<1>6. Generator' = Generator
  BY <1>1 DEF Generator
<1> QED BY <1>1, <1>4, <1>5, <1>6 DEF ReadInv

LEMMA ReadNext ==
  ASSUME ReadInv, [Next]_vars
  PROVE  ReadInv'
<1>1. CASE ReadRules
  BY <1>1, CreateGeneratorReads, SkipLineReads, HeaderReads, EntryReads, LoadRulesReads
     DEF ReadRules, FileNext
<1>2. CASE Generate \/ JavaGenerate \/ PythonGenerate
  BY <1>2, Generating, ReadStays DEF Emits
<1>3. CASE UNCHANGED vars
  BY <1>3, ReadStays DEF vars
<1> QED BY <1>1, <1>2, <1>3 DEF Next, Terminated

\* What is known of a rule file while it is read.
THEOREM ReadingKeepsTheSections == Spec => []ReadInv
<1>1. Init => ReadInv
  BY ReadInit DEF Init
<1>2. ReadInv /\ [Next]_vars => ReadInv'
  BY ReadNext
<1> QED BY <1>1, <1>2, PTL DEF Spec

\* The generator has a rule for exactly the node types that its file has a
\* section for, with the last template of the last section: parseFromFile and
\* loadRules lose nothing, however often a section or a template comes.
THEOREM RulesComeFromSections == Spec => []RulesAreTheSections
<1>1. ReadInv => RulesAreTheSections
  BY DEF ReadInv
<1> QED BY <1>1, ReadingKeepsTheSections, PTL

-----------------------------------------------------------------------------
(* Types *)

GeneratorInv == ReadInv /\ TypeOK

LEMMA TypeInit ==
  ASSUME Init
  PROVE  TypeOK
<1>1. ReadInv /\ text = <<>> /\ DOMAIN text = {}
  BY ReadInit DEF Init
<1> QED BY <1>1 DEF TypeOK, ReadInv

\* Nothing is printed before the rules are loaded.
LEMMA TypeNext ==
  ASSUME GeneratorInv, [Next]_vars
  PROVE  GeneratorInv'
<1>1. ReadInv'
  BY ReadNext DEF GeneratorInv
<1>2. CASE ReadRules
  <2>1. text = <<>> /\ UNCHANGED <<ast, text>>
    BY <1>2 DEF GeneratorInv, TypeOK, ReadRules, FileNext, CreateGenerator, SkipLine,
                Header, Entry, LoadRules, Line
  <2>2. Printed' = Printed
    BY <2>1 DEF Printed
  <2> QED BY <1>1, <2>1, <2>2 DEF GeneratorInv, TypeOK, ReadInv
<1>3. CASE Generate \/ JavaGenerate \/ PythonGenerate
  <2>1. PICK p : Emits(p)
    BY <1>3, Generating
  <2>2. Printed' = Printed /\ reading' = "loaded" /\ DOMAIN text' \subseteq Printed
    BY <2>1 DEF Emits, Printed, fileVars, GeneratorInv, TypeOK
  <2> QED BY <1>1, <2>2 DEF GeneratorInv, TypeOK, ReadInv
<1>4. CASE UNCHANGED vars
  <2>1. Printed' = Printed /\ reading' = reading /\ text' = text
    BY <1>4 DEF Printed, vars, fileVars
  <2> QED BY <1>1, <2>1 DEF GeneratorInv, TypeOK, ReadInv
<1> QED BY <1>2, <1>3, <1>4 DEF Next, Terminated

\* Only nodes that the program has are printed, none of them before the rule
\* file is read, and only a generator without formats of its own has rules.
THEOREM GeneratorTyping == Spec => []TypeOK
<1>1. Init => GeneratorInv
  BY TypeInit, ReadInit DEF Init, GeneratorInv
<1>2. GeneratorInv /\ [Next]_vars => GeneratorInv'
  BY TypeNext
<1>3. GeneratorInv => TypeOK
  BY DEF GeneratorInv
<1> QED BY <1>1, <1>2, <1>3, PTL DEF Spec

-----------------------------------------------------------------------------
(* FlattenSeq *)

\* The rule that FlattenSeq is made of, up to a position.
IsFlat(f, seqs, n) ==
  f = [i \in 1 .. n |-> IF i = 1 THEN seqs[i] ELSE f[i - 1] \o seqs[i]]

\* The rule has one solution, and it is a sequence of texts.
LEMMA FlatExists ==
  ASSUME NEW S, NEW seqs \in Seq(Seq(S)), NEW n \in 1 .. Len(seqs)
  PROVE  \E f \in [1 .. n -> Seq(S)] : IsFlat(f, seqs, n)
<1> DEFINE T == {k \in 1 .. Len(seqs) : ~ \E f \in [1 .. k -> Seq(S)] : IsFlat(f, seqs, k)}
<1>1. Len(seqs) \in Nat /\ \A i \in 1 .. Len(seqs) : seqs[i] \in Seq(S)
  BY LenProperties, ElementOfSeq
<1>2. SUFFICES ASSUME T # {} PROVE FALSE
  OBVIOUS
<1>3. PICK m \in T : \A k \in T : m <= k
  <2>1. T \subseteq Nat
    OBVIOUS
  <2> HIDE DEF T
  <2> QED BY <1>2, <2>1, LeastNumber
<1>4. CASE m = 1
  <2> DEFINE f == [i \in 1 .. 1 |-> seqs[1]]
  <2>1. f \in [1 .. 1 -> Seq(S)]
    BY <1>1, <1>4
  <2>2. IsFlat(f, seqs, 1)
    BY DEF IsFlat
  <2> HIDE DEF f
  <2> QED BY <1>4, <2>1, <2>2
<1>5. CASE m # 1
  <2>1. m \in 1 .. Len(seqs) /\ m - 1 \in 1 .. Len(seqs) /\ m - 1 \notin T
    <3>1. m \in 1 .. Len(seqs) /\ m \in Nat
      OBVIOUS
    <3>2. m - 1 \notin T
      <4> HIDE DEF T
      <4> QED BY <1>3, <3>1
    <3> QED BY <1>1, <1>5, <3>1, <3>2
  <2>2. PICK g \in [1 .. m - 1 -> Seq(S)] : IsFlat(g, seqs, m - 1)
    BY <2>1
  <2> DEFINE f == [i \in 1 .. m |-> IF i = m THEN g[m - 1] \o seqs[m] ELSE g[i]]
  <2>3. g[m - 1] \in Seq(S) /\ seqs[m] \in Seq(S)
    BY <1>1, <1>3, <2>1
  <2>4. g[m - 1] \o seqs[m] \in Seq(S)
    BY <2>3, ConcatProperties
  <2>5. m \in 1 .. m /\ \A i \in 1 .. m : i = m \/ i \in 1 .. m - 1
    BY <2>1
  <2>6. f \in [1 .. m -> Seq(S)]
    BY <2>4, <2>5
  <2>7. \A i \in 1 .. m - 1 : f[i] = g[i]
    <3>1. \A i \in 1 .. m - 1 : i \in 1 .. m /\ i # m
      BY <2>1
    <3> QED BY <3>1
  <2>8. f[m] = f[m - 1] \o seqs[m]
    <3>1. m - 1 \in 1 .. m - 1
      BY <2>1
    <3>2. f[m] = g[m - 1] \o seqs[m]
      BY <2>5
    <3>3. f[m - 1] = g[m - 1]
      BY <2>7, <3>1
    <3> HIDE DEF f
    <3> QED BY <3>2, <3>3
  <2>9. \A i \in 1 .. m - 1 : g[i] = IF i = 1 THEN seqs[i] ELSE g[i - 1] \o seqs[i]
    BY <2>2 DEF IsFlat
  <2>10. \A i \in 1 .. m - 1 : i = 1 \/ i - 1 \in 1 .. m - 1
    OBVIOUS
  <2>11. \A i \in 1 .. m : f[i] = IF i = 1 THEN seqs[i] ELSE f[i - 1] \o seqs[i]
    <3> HIDE DEF f
    <3>1. ASSUME NEW i \in 1 .. m - 1
          PROVE  f[i] = IF i = 1 THEN seqs[i] ELSE f[i - 1] \o seqs[i]
      BY <2>7, <2>9, <2>10
    <3> QED BY <1>5, <2>5, <2>8, <3>1
  <2>12. IsFlat(f, seqs, m)
    <3> HIDE DEF f
    <3> QED BY <2>6, <2>11 DEF IsFlat
  <2> HIDE DEF f
  <2> QED BY <1>3, <2>6, <2>12
<1> QED BY <1>4, <1>5

\* Two solutions are the same as far as both go.
LEMMA FlatIsUnique ==
  ASSUME NEW s, NEW t, NEW m \in Nat, NEW n \in Nat, m <= n,
         \A i \in 1 .. m : s[i] = t[i],
         NEW f, IsFlat(f, s, m), NEW g, IsFlat(g, t, n)
  PROVE  \A i \in 1 .. m : f[i] = g[i]
<1> DEFINE T == {i \in 1 .. m : f[i] # g[i]}
<1>2. SUFFICES ASSUME T # {} PROVE FALSE
  OBVIOUS
<1>3. PICK k \in T : \A i \in T : k <= i
  <2>1. T \subseteq Nat
    OBVIOUS
  <2> HIDE DEF T
  <2> QED BY <1>2, <2>1, LeastNumber
<1>4. /\ f[k] = IF k = 1 THEN s[k] ELSE f[k - 1] \o s[k]
      /\ g[k] = IF k = 1 THEN t[k] ELSE g[k - 1] \o t[k]
  <2>1. k \in 1 .. m /\ k \in 1 .. n
    BY <1>3
  <2> HIDE DEF T
  <2>2. f[k] = IF k = 1 THEN s[k] ELSE f[k - 1] \o s[k]
    BY <2>1 DEF IsFlat
  <2>3. g[k] = IF k = 1 THEN t[k] ELSE g[k - 1] \o t[k]
    BY <2>1 DEF IsFlat
  <2> QED BY <2>2, <2>3
<1>5. CASE k = 1
  BY <1>3, <1>4, <1>5
<1>6. CASE k # 1
  <2>1. k - 1 \in 1 .. m /\ k - 1 \notin T
    BY <1>3, <1>6
  <2> QED BY <1>3, <1>4, <1>6, <2>1
<1> QED BY <1>5, <1>6

LEMMA FlattenIs ==
  ASSUME NEW S, NEW seqs \in Seq(Seq(S)), Len(seqs) # 0
  PROVE  \E f \in [1 .. Len(seqs) -> Seq(S)] :
           IsFlat(f, seqs, Len(seqs)) /\ FlattenSeq(seqs) = f[Len(seqs)]
<1>1. Len(seqs) \in Nat /\ Len(seqs) \in 1 .. Len(seqs)
  BY LenProperties
<1>2. PICK f \in [1 .. Len(seqs) -> Seq(S)] : IsFlat(f, seqs, Len(seqs))
  BY <1>1, FlatExists
<1> DEFINE flatten == CHOOSE g : IsFlat(g, seqs, Len(seqs))
<1>3. IsFlat(flatten, seqs, Len(seqs))
  BY <1>2
<1>4. FlattenSeq(seqs) = flatten[Len(seqs)]
  BY DEF FlattenSeq, IsFlat
<1> HIDE DEF flatten
<1>5. \A i \in 1 .. Len(seqs) : flatten[i] = f[i]
  <2>1. Len(seqs) <= Len(seqs)
    BY <1>1
  <2> QED BY <1>1, <1>2, <1>3, <2>1, FlatIsUnique
<1> QED BY <1>1, <1>2, <1>4, <1>5

LEMMA FlattenEmpty == FlattenSeq(<<>>) = <<>>
<1>1. Len(<<>>) = 0
  BY EmptySeq
<1> QED BY <1>1 DEF FlattenSeq

LEMMA FlattenType ==
  ASSUME NEW S, NEW seqs \in Seq(Seq(S))
  PROVE  FlattenSeq(seqs) \in Seq(S)
<1>1. CASE Len(seqs) = 0
  <2>1. seqs = <<>>
    BY <1>1, EmptySeq
  <2> QED BY <2>1, FlattenEmpty, EmptySeq
<1>2. CASE Len(seqs) # 0
  <2>1. Len(seqs) \in 1 .. Len(seqs)
    BY <1>2, LenProperties
  <2>2. PICK f \in [1 .. Len(seqs) -> Seq(S)] : FlattenSeq(seqs) = f[Len(seqs)]
    BY <1>2, FlattenIs
  <2> QED BY <2>1, <2>2
<1> QED BY <1>1, <1>2

Joined(s, t) == s \o t

\* The last step of the rule, from a solution for all but the last text.
LEMMA FlatLast ==
  ASSUME NEW s, NEW t, NEW n \in Nat, NEW k \in Nat, k = n + 1, n # 0,
         \A i \in 1 .. n : s[i] = t[i],
         NEW f, IsFlat(f, t, k), NEW g, IsFlat(g, s, n)
  PROVE  f[k] = Joined(g[n], t[k])
<1>1. n <= k /\ k \in 1 .. k /\ k # 1 /\ k - 1 = n /\ n \in 1 .. n
  OBVIOUS
<1>2. \A i \in 1 .. n : g[i] = f[i]
  <2>1. n <= k
    BY <1>1
  <2> QED BY <2>1, FlatIsUnique
<1>3. f[k] = IF k = 1 THEN t[k] ELSE f[k - 1] \o t[k]
  BY <1>1 DEF IsFlat
<1> QED BY <1>1, <1>2, <1>3 DEF Joined

LEMMA FlattenLonger ==
  ASSUME NEW seqs, NEW longer, NEW n \in Nat, NEW k \in Nat, k = n + 1,
         \A i \in 1 .. n : seqs[i] = longer[i]
  PROVE  \A S : /\ seqs \in Seq(Seq(S)) /\ Len(seqs) = n
                /\ longer \in Seq(Seq(S)) /\ Len(longer) = k
                => FlattenSeq(longer) = Joined(FlattenSeq(seqs), longer[k])
<1>1. ASSUME n # 0, NEW f, IsFlat(f, longer, k), NEW g, IsFlat(g, seqs, n)
      PROVE  f[k] = Joined(g[n], longer[k])
  BY <1>1, FlatLast
<1>2. ASSUME n = 0, NEW f, IsFlat(f, longer, k)
      PROVE  f[k] = longer[k]
  BY <1>2 DEF IsFlat
<1>3. ASSUME n = 0, NEW S, seqs \in Seq(Seq(S)), Len(seqs) = n,
             longer[k] \in Seq(S)
      PROVE  longer[k] = Joined(FlattenSeq(seqs), longer[k])
  <2>1. seqs = <<>>
    BY <1>3, EmptySeq
  <2>2. <<>> \o longer[k] = longer[k]
    BY <1>3, ConcatEmptySeq
  <2> QED BY <2>1, <2>2, FlattenEmpty DEF Joined
<1> TAKE S
<1> HAVE /\ seqs \in Seq(Seq(S)) /\ Len(seqs) = n
         /\ longer \in Seq(Seq(S)) /\ Len(longer) = k
<1>4. PICK f : IsFlat(f, longer, k) /\ FlattenSeq(longer) = f[k]
  <2>1. Len(longer) # 0
    OBVIOUS
  <2>2. \E f \in [1 .. Len(longer) -> Seq(S)] :
          IsFlat(f, longer, Len(longer)) /\ FlattenSeq(longer) = f[Len(longer)]
    BY <2>1, FlattenIs
  <2> QED BY <2>2
<1>5. CASE n = 0
  <2>1. longer[k] \in Seq(S)
    BY ElementOfSeq
  <2> QED BY <1>2, <1>3, <1>4, <1>5, <2>1
<1>6. CASE n # 0
  <2>1. PICK g : IsFlat(g, seqs, n) /\ FlattenSeq(seqs) = g[n]
    BY <1>6, FlattenIs
  <2> QED BY <1>1, <1>4, <1>6, <2>1
<1> QED BY <1>5, <1>6

LEMMA FlattenAppend ==
  ASSUME NEW S, NEW seqs \in Seq(Seq(S)), NEW s \in Seq(S)
  PROVE  FlattenSeq(Append(seqs, s)) = FlattenSeq(seqs) \o s
<1>1. /\ Append(seqs, s) \in Seq(Seq(S)) /\ Len(Append(seqs, s)) = Len(seqs) + 1
      /\ \A i \in 1 .. Len(seqs) : seqs[i] = Append(seqs, s)[i]
      /\ Append(seqs, s)[Len(seqs) + 1] = s
      /\ Len(seqs) \in Nat
  BY AppendProperties, LenProperties
<1>2. FlattenSeq(Append(seqs, s)) = Joined(FlattenSeq(seqs), Append(seqs, s)[Len(seqs) + 1])
  <2>1. Len(seqs) + 1 \in Nat
    BY <1>1
  <2> QED BY <1>1, <2>1, FlattenLonger
<1> QED BY <1>1, <1>2 DEF Joined

-----------------------------------------------------------------------------
(* Putting a text in the place of each piece *)

Put(pieces, g) == FlattenSeq([n \in DOMAIN pieces |-> g[pieces[n]]])

\* The texts that are put in are a sequence, one longer for one more piece.
LEMMA PutTexts ==
  ASSUME NEW S, NEW U, NEW s \in Seq(S), NEW g \in [S -> U]
  PROVE  /\ [n \in DOMAIN s |-> g[s[n]]] \in Seq(U)
         /\ Len([n \in DOMAIN s |-> g[s[n]]]) = Len(s)
         /\ \A n \in 1 .. Len(s) : [m \in DOMAIN s |-> g[s[m]]][n] = g[s[n]]
<1>1. Len(s) \in Nat /\ DOMAIN s = 1 .. Len(s) /\ \A n \in 1 .. Len(s) : s[n] \in S
  BY LenProperties, ElementOfSeq
<1>2. [n \in DOMAIN s |-> g[s[n]]] \in [1 .. Len(s) -> U]
  BY <1>1
<1> QED BY <1>1, <1>2

LEMMA PutTextsAppend ==
  ASSUME NEW S, NEW U, NEW s \in Seq(S), NEW x \in S, NEW g \in [S -> U]
  PROVE  [n \in DOMAIN Append(s, x) |-> g[Append(s, x)[n]]]
           = Append([n \in DOMAIN s |-> g[s[n]]], g[x])
<1> DEFINE texts == [n \in DOMAIN s |-> g[s[n]]]
           longer == Append(s, x)
           more == [n \in DOMAIN longer |-> g[longer[n]]]
<1>1. /\ longer \in Seq(S) /\ Len(longer) = Len(s) + 1 /\ longer[Len(s) + 1] = x
      /\ \A n \in 1 .. Len(s) : longer[n] = s[n]
      /\ Len(s) \in Nat
  BY AppendProperties, LenProperties
<1>2. /\ texts \in Seq(U) /\ Len(texts) = Len(s)
      /\ \A n \in 1 .. Len(s) : texts[n] = g[s[n]]
  BY PutTexts
<1>3. /\ more \in Seq(U) /\ Len(more) = Len(longer)
      /\ \A n \in 1 .. Len(longer) : more[n] = g[longer[n]]
  <2> HIDE DEF longer
  <2> QED BY <1>1, PutTexts
<1>4. g[x] \in U
  OBVIOUS
<1> HIDE DEF texts, longer, more
<1>5. /\ Append(texts, g[x]) \in Seq(U) /\ Len(Append(texts, g[x])) = Len(s) + 1
      /\ Append(texts, g[x])[Len(s) + 1] = g[x]
      /\ \A n \in 1 .. Len(s) : Append(texts, g[x])[n] = texts[n]
  BY <1>2, <1>4, AppendProperties
<1>6. ASSUME NEW n \in 1 .. Len(more)
      PROVE  more[n] = Append(texts, g[x])[n]
  <2>1. n \in 1 .. Len(s) \/ n = Len(s) + 1
    BY <1>1, <1>3
  <2> QED BY <1>1, <1>2, <1>3, <1>5, <2>1
<1>7. more = Append(texts, g[x])
  BY <1>1, <1>3, <1>5, <1>6, SeqEqual
<1> QED BY <1>7 DEF texts, longer, more

\* A name for Seq, so that texts are elements of a set like others.
Texts(T) == Seq(T)

LEMMA PutType ==
  ASSUME NEW S, NEW T, NEW s \in Seq(S), NEW g \in [S -> Texts(T)]
  PROVE  Put(s, g) \in Texts(T)
<1>1. [n \in DOMAIN s |-> g[s[n]]] \in Seq(Texts(T))
  BY PutTexts
<1> QED BY <1>1, FlattenType DEF Put, Texts

LEMMA PutEmpty == \A g : Put(<<>>, g) = <<>>
<1> TAKE g
<1>1. [n \in DOMAIN <<>> |-> g[<<>>[n]]] = <<>>
  OBVIOUS
<1> QED BY <1>1, FlattenEmpty DEF Put

LEMMA FlattenJoined ==
  ASSUME NEW T, NEW seqs \in Seq(Texts(T)), NEW s \in Texts(T)
  PROVE  FlattenSeq(Append(seqs, s)) = Joined(FlattenSeq(seqs), s)
BY FlattenAppend DEF Joined, Texts

LEMMA PutAppend ==
  ASSUME NEW S, NEW T, NEW s \in Seq(S), NEW x \in S, NEW g \in [S -> Texts(T)]
  PROVE  Put(Append(s, x), g) = Joined(Put(s, g), g[x])
<1> DEFINE texts == [n \in DOMAIN s |-> g[s[n]]]
<1>1. texts \in Seq(Texts(T)) /\ g[x] \in Texts(T)
  BY PutTexts
<1>2. [n \in DOMAIN Append(s, x) |-> g[Append(s, x)[n]]] = Append(texts, g[x])
  BY PutTextsAppend
<1>3. FlattenSeq(Append(texts, g[x])) = Joined(FlattenSeq(texts), g[x])
  <2> HIDE DEF texts
  <2> QED BY <1>1, FlattenJoined
<1> QED BY <1>2, <1>3 DEF Put

One(x) == <<x>>

LEMMA JoinedProperties ==
  ASSUME NEW T
  PROVE  /\ \A s, t \in Texts(T) : Joined(s, t) \in Texts(T)
         /\ \A s \in Texts(T) : Joined(s, <<>>) = s /\ Joined(<<>>, s) = s
         /\ \A s, t, u \in Texts(T) : Joined(Joined(s, t), u) = Joined(s, Joined(t, u))
         /\ \A s \in Texts(T), x \in T : Append(s, x) = Joined(s, One(x))
         /\ <<>> \in Texts(T)
         /\ \A x \in T : One(x) \in Texts(T)
<1>1. \A s, t \in Seq(T) : s \o t \in Seq(T)
  BY ConcatProperties
<1>2. \A s \in Seq(T) : s \o <<>> = s /\ <<>> \o s = s
  BY ConcatEmptySeq
<1>3. \A s, t, u \in Seq(T) : (s \o t) \o u = s \o (t \o u)
  BY ConcatAssociative
<1>4. \A s \in Seq(T), x \in T : Append(s, x) = s \o <<x>>
  BY AppendIsConcat
<1>5. <<>> \in Seq(T) /\ \A x \in T : <<x>> \in Seq(T)
  BY EmptySeq
<1> QED BY <1>1, <1>2, <1>3, <1>4, <1>5 DEF Joined, Texts, One

LEMMA PutOne ==
  ASSUME NEW S, NEW T, NEW x \in S, NEW g \in [S -> Texts(T)]
  PROVE  Put(One(x), g) = g[x]
<1>1. PICK s \in Seq(S) : s = <<>>
  BY EmptySeq
<1>2. Append(s, x) = One(x) /\ g[x] \in Texts(T)
  BY <1>1 DEF One
<1>3. Put(Append(s, x), g) = Joined(Put(s, g), g[x])
  BY PutAppend
<1>4. Put(s, g) = <<>>
  BY <1>1, PutEmpty
<1> QED BY <1>2, <1>3, <1>4, JoinedProperties

\* Induction on the length of a text, for a set of texts.
LEMMA TextsFromTheirEnds ==
  ASSUME NEW S, NEW P, P \subseteq Seq(S), <<>> \in P,
         \A s \in P, x \in S : Append(s, x) \in P
  PROVE  P = Seq(S)
<1> DEFINE T == {n \in Nat : \E s \in Seq(S) : Len(s) = n /\ s \notin P}
<1>1. SUFFICES ASSUME P # Seq(S) PROVE FALSE
  OBVIOUS
<1>2. T # {} /\ T \subseteq Nat
  <2>1. PICK s \in Seq(S) : s \notin P
    BY <1>1
  <2>2. Len(s) \in Nat
    BY LenProperties
  <2> QED BY <2>1, <2>2
<1>3. PICK n \in T : \A m \in T : n <= m
  <2> HIDE DEF T
  <2> QED BY <1>2, LeastNumber
<1>4. PICK s \in Seq(S) : Len(s) = n /\ s \notin P
  OBVIOUS
<1>5. PICK t \in Seq(S), x \in S : s = Append(t, x)
  <2>1. s # <<>>
    BY <1>4
  <2> QED BY <2>1, SequenceEmptyOrAppend
<1>6. Len(s) = Len(t) + 1 /\ Len(t) \in Nat
  BY <1>5, AppendProperties, LenProperties
<1>7. t \notin P
  BY <1>4, <1>5
<1>8. Len(t) \in T
  BY <1>6, <1>7
<1>9. n <= Len(t)
  <2> HIDE DEF T
  <2> QED BY <1>3, <1>8
<1> QED BY <1>4, <1>6, <1>9

LEMMA PutJoined ==
  ASSUME NEW S, NEW T, NEW s \in Texts(S), NEW t \in Texts(S), NEW g \in [S -> Texts(T)]
  PROVE  Put(Joined(s, t), g) = Joined(Put(s, g), Put(t, g))
<1> DEFINE P == {u \in Seq(S) : Put(Joined(s, u), g) = Joined(Put(s, g), Put(u, g))}
<1>1. \A u \in Texts(S) : u \in Seq(S) /\ Put(u, g) \in Texts(T)
  BY PutType DEF Texts
<1>2. <<>> \in P
  <2>1. Joined(s, <<>>) = s /\ Joined(Put(s, g), <<>>) = Put(s, g) /\ <<>> \in Seq(S)
    BY <1>1, JoinedProperties, EmptySeq
  <2> QED BY <2>1, PutEmpty
<1>3. ASSUME NEW u \in P, NEW x \in S
      PROVE  Append(u, x) \in P
  <2>1. /\ u \in Texts(S) /\ u \in Seq(S) /\ s \in Seq(S) /\ g[x] \in Texts(T)
        /\ Put(Joined(s, u), g) = Joined(Put(s, g), Put(u, g))
    BY DEF Texts
  <2> HIDE DEF P
  <2>2. Joined(s, Append(u, x)) = Append(Joined(s, u), x)
    <3>1. One(x) \in Texts(S) /\ Joined(s, u) \in Texts(S)
      BY <2>1, JoinedProperties
    <3>2. Append(u, x) = Joined(u, One(x)) /\ Append(Joined(s, u), x) = Joined(Joined(s, u), One(x))
      <4>1. Joined(s, u) \in Texts(S) /\ u \in Texts(S)
        BY <2>1, <3>1
      <4>2. \A v \in Texts(S) : Append(v, x) = Joined(v, One(x))
        BY JoinedProperties
      <4> QED BY <4>1, <4>2
    <3> QED BY <2>1, <3>1, <3>2, JoinedProperties
  <2>3. Put(Append(Joined(s, u), x), g) = Joined(Put(Joined(s, u), g), g[x])
    <3>1. Joined(s, u) \in Seq(S)
      BY <1>1, <2>1, JoinedProperties
    <3> QED BY <3>1, PutAppend
  <2>4. Put(Append(u, x), g) = Joined(Put(u, g), g[x])
    BY <2>1, PutAppend
  <2>5. Joined(Joined(Put(s, g), Put(u, g)), g[x]) = Joined(Put(s, g), Joined(Put(u, g), g[x]))
    BY <1>1, <2>1, JoinedProperties
  <2>6. Append(u, x) \in Seq(S)
    BY <2>1, AppendProperties
  <2> QED BY <2>1, <2>2, <2>3, <2>4, <2>5, <2>6 DEF P
<1>4. P = Seq(S)
  <2>1. P \subseteq Seq(S)
    OBVIOUS
  <2> HIDE DEF P
  <2> QED BY <1>2, <1>3, <2>1, TextsFromTheirEnds
<1> QED BY <1>1, <1>4

\* Putting twice is putting once, if what is put in first is put into again.
LEMMA PutPut ==
  ASSUME NEW S, NEW T, NEW U, NEW s \in Texts(S), NEW g \in [S -> Texts(T)],
         NEW h \in [T -> Texts(U)], NEW gh \in [S -> Texts(U)],
         \A x \in S : gh[x] = Put(g[x], h)
  PROVE  Put(Put(s, g), h) = Put(s, gh)
<1> DEFINE P == {u \in Seq(S) : Put(Put(u, g), h) = Put(u, gh)}
<1>1. <<>> \in P
  BY PutEmpty, EmptySeq
<1>2. ASSUME NEW u \in P, NEW x \in S
      PROVE  Append(u, x) \in P
  <2>1. u \in Seq(S) /\ Put(Put(u, g), h) = Put(u, gh) /\ g[x] \in Texts(T)
    OBVIOUS
  <2> HIDE DEF P
  <2>2. Append(u, x) \in Seq(S)
    BY <2>1, AppendProperties
  <2>3. Put(Append(u, x), g) = Joined(Put(u, g), g[x])
    BY <2>1, PutAppend
  <2>4. Put(Append(u, x), gh) = Joined(Put(u, gh), gh[x])
    BY <2>1, PutAppend
  <2>5. Put(u, g) \in Texts(T)
    BY <2>1, PutType
  <2>6. Put(Joined(Put(u, g), g[x]), h) = Joined(Put(Put(u, g), h), Put(g[x], h))
    BY <2>1, <2>5, PutJoined
  <2> QED BY <2>1, <2>2, <2>3, <2>4, <2>6 DEF P
<1>3. P = Seq(S)
  <2>1. P \subseteq Seq(S)
    OBVIOUS
  <2> HIDE DEF P
  <2> QED BY <1>1, <1>2, <2>1, TextsFromTheirEnds
<1> QED BY <1>3 DEF Texts

\* A text stays if each of its pieces does.
LEMMA PutNone ==
  ASSUME NEW T, NEW V, V \subseteq T, NEW s \in Texts(V), NEW g \in [T -> Texts(T)],
         \A x \in V : g[x] = One(x)
  PROVE  Put(s, g) = s
<1> DEFINE P == {u \in Seq(V) : Put(u, g) = u}
<1>1. \A u \in Seq(V) : u \in Seq(T)
  OBVIOUS
<1>2. <<>> \in P
  BY PutEmpty, EmptySeq
<1>3. ASSUME NEW u \in P, NEW x \in V
      PROVE  Append(u, x) \in P
  <2>1. u \in Seq(V) /\ u \in Seq(T) /\ Put(u, g) = u /\ x \in T
    BY <1>1
  <2> HIDE DEF P
  <2>2. Append(u, x) \in Seq(V)
    BY <2>1, AppendProperties
  <2>3. Put(Append(u, x), g) = Joined(Put(u, g), g[x])
    BY <2>1, PutAppend
  <2>4. Append(u, x) = Joined(u, One(x))
    <3>1. u \in Texts(T)
      BY <2>1 DEF Texts
    <3> QED BY <2>1, <3>1, JoinedProperties
  <2> QED BY <2>1, <2>2, <2>3, <2>4 DEF P
<1>4. P = Seq(V)
  <2>1. P \subseteq Seq(V)
    OBVIOUS
  <2> HIDE DEF P
  <2> QED BY <1>2, <1>3, <2>1, TextsFromTheirEnds
<1> QED BY <1>4 DEF Texts

-----------------------------------------------------------------------------
(* Replacing placeholders one after the other *)

\* Some placeholders are filled, all other pieces stay.
Filler(S, values, filled) ==
  [x \in S |-> IF x \in filled THEN values[x] ELSE One(x)]

LEMMA FillerType ==
  ASSUME NEW S, NEW values, NEW filled, \A x \in filled : values[x] \in Texts(S)
  PROVE  Filler(S, values, filled) \in [S -> Texts(S)]
BY JoinedProperties DEF Filler

LEMMA ReplaceIsPut ==
  ASSUME NEW S, NEW s \in Texts(S), NEW values, NEW x
  PROVE  Replace(s, x, values[x]) = Put(s, Filler(S, values, {x}))
<1>1. \A n \in DOMAIN s : s[n] \in S
  BY LenProperties, ElementOfSeq DEF Texts
<1>2. [n \in DOMAIN s |-> IF s[n] = x THEN values[x] ELSE <<s[n]>>]
        = [n \in DOMAIN s |-> Filler(S, values, {x})[s[n]]]
  BY <1>1 DEF Filler, One
<1> QED BY <1>2 DEF Replace, Put

\* One placeholder more is filled.
LEMMA FillOneMore ==
  ASSUME NEW S, NEW V, V \subseteq S, NEW template \in Texts(S), NEW values,
         NEW all, \A y \in all : values[y] \in Texts(V), \A v \in V : v \notin all,
         NEW filled, filled \subseteq all, NEW x \in all
  PROVE  Replace(Put(template, Filler(S, values, filled)), x, values[x])
           = Put(template, Filler(S, values, filled \cup {x}))
<1> DEFINE g == Filler(S, values, filled)
           h == Filler(S, values, {x})
           gh == Filler(S, values, filled \cup {x})
<1>1. \A y \in all : values[y] \in Texts(S)
  BY DEF Texts
<1>2. /\ g \in [S -> Texts(S)] /\ h \in [S -> Texts(S)] /\ gh \in [S -> Texts(S)]
  <2>1. g \in [S -> Texts(S)]
    BY <1>1, FillerType
  <2>2. h \in [S -> Texts(S)]
    BY <1>1, FillerType
  <2>3. gh \in [S -> Texts(S)]
    BY <1>1, FillerType
  <2> QED BY <2>1, <2>2, <2>3
<1>3. ASSUME NEW y \in S
      PROVE  gh[y] = Put(g[y], h)
  <2>1. CASE y \in filled
    <3>1. values[y] \in Texts(V) /\ g[y] = values[y] /\ gh[y] = values[y]
      BY <2>1 DEF Filler
    <3>2. \A v \in V : h[v] = One(v)
      BY DEF Filler
    <3> HIDE DEF g, h, gh
    <3>3. Put(values[y], h) = values[y]
      BY <1>2, <3>1, <3>2, PutNone
    <3> QED BY <3>1, <3>3
  <2>2. CASE y \notin filled
    <3>1. g[y] = One(y) /\ gh[y] = h[y]
      BY <2>2 DEF Filler
    <3> HIDE DEF g, h, gh
    <3>2. Put(One(y), h) = h[y]
      BY <1>2, PutOne
    <3> QED BY <3>1, <3>2
  <2> QED BY <2>1, <2>2
<1> HIDE DEF g, gh
<1>4. Put(template, g) \in Texts(S)
  BY <1>2, PutType DEF Texts
<1>5. Replace(Put(template, g), x, values[x]) = Put(Put(template, g), h)
  BY <1>4, ReplaceIsPut
<1> HIDE DEF h
<1>6. Put(Put(template, g), h) = Put(template, gh)
  BY <1>2, <1>3, PutPut
<1> QED BY <1>5, <1>6 DEF g, gh

\* What replacing leaves of the pieces and what it brings.
LEMMA ReplaceType ==
  ASSUME NEW S, NEW V, NEW s \in Texts(S), NEW x, NEW value \in Texts(V)
  PROVE  Replace(s, x, value) \in Texts((S \ {x}) \cup V)
<1> DEFINE g == [y \in S |-> IF y = x THEN value ELSE One(y)]
           T == (S \ {x}) \cup V
<1>1. value \in Texts(T) /\ \A y \in S : y # x => One(y) \in Texts(T)
  <2>1. V \subseteq T /\ \A y \in S : y # x => y \in T
    OBVIOUS
  <2> HIDE DEF T
  <2>2. value \in Texts(T)
    BY <2>1 DEF Texts
  <2> QED BY <2>1, <2>2, JoinedProperties
<1>2. g \in [S -> Texts(T)]
  <2> HIDE DEF T
  <2> QED BY <1>1
<1>3. Put(s, g) \in Texts(T)
  <2> HIDE DEF T, g
  <2> QED BY <1>2, PutType DEF Texts
<1>4. \A n \in DOMAIN s : s[n] \in S
  BY LenProperties, ElementOfSeq DEF Texts
<1>5. [n \in DOMAIN s |-> IF s[n] = x THEN value ELSE <<s[n]>>] = [n \in DOMAIN s |-> g[s[n]]]
  BY <1>4 DEF One
<1>6. Replace(s, x, value) = Put(s, g)
  BY <1>5 DEF Replace, Put
<1> QED BY <1>3, <1>6

-----------------------------------------------------------------------------
(* applyTemplate *)

\* The rule for the turns of the loop.
IsTurns(turns, template, values, order, k) ==
  turns = [n \in 0 .. k |->
             IF n = 0 THEN template
             ELSE Replace(turns[n - 1], order[n], values[order[n]])]

LEMMA TurnsExist ==
  ASSUME NEW template, NEW values, NEW order, NEW k \in Nat
  PROVE  \E turns : IsTurns(turns, template, values, order, k)
<1> DEFINE T == {n \in Nat : ~ \E turns : IsTurns(turns, template, values, order, n)}
<1>1. SUFFICES ASSUME T # {} PROVE FALSE
  OBVIOUS
<1>2. PICK m \in T : \A n \in T : m <= n
  <2>1. T \subseteq Nat
    OBVIOUS
  <2> HIDE DEF T
  <2> QED BY <1>1, <2>1, LeastNumber
<1>3. m \in Nat /\ ~ \E turns : IsTurns(turns, template, values, order, m)
  OBVIOUS
<1>4. CASE m = 0
  <2> DEFINE f == [n \in 0 .. 0 |-> template]
  <2>1. IsTurns(f, template, values, order, 0)
    BY DEF IsTurns
  <2> QED BY <1>3, <1>4, <2>1
<1>5. CASE m # 0
  <2>1. m - 1 \in Nat /\ m - 1 \notin T
    <3>1. m - 1 \in Nat /\ ~(m <= m - 1)
      BY <1>3, <1>5
    <3> HIDE DEF T
    <3> QED BY <1>2, <3>1
  <2>2. PICK g : IsTurns(g, template, values, order, m - 1)
    BY <2>1
  <2> DEFINE last == Replace(g[m - 1], order[m], values[order[m]])
             f == [n \in 0 .. m |-> IF n = m THEN last ELSE g[n]]
  <2>3. \A n \in 0 .. m - 1 : n \in 0 .. m /\ n # m
    BY <1>3
  <2>4. \A n \in 0 .. m - 1 : f[n] = g[n]
    BY <2>3
  <2>5. m \in 0 .. m /\ m - 1 \in 0 .. m - 1
    BY <1>3, <2>1
  <2>6. f[m] = Replace(f[m - 1], order[m], values[order[m]])
    <3>1. f[m] = last /\ f[m - 1] = g[m - 1]
      BY <2>4, <2>5
    <3> HIDE DEF f
    <3> QED BY <3>1
  <2> HIDE DEF f, last
  <2>7. \A n \in 0 .. m - 1 :
          g[n] = IF n = 0 THEN template ELSE Replace(g[n - 1], order[n], values[order[n]])
    BY <2>2 DEF IsTurns
  <2>8. \A n \in 0 .. m : n = m \/ n \in 0 .. m - 1
    BY <1>3
  <2>9. \A n \in 0 .. m - 1 : n = 0 \/ n - 1 \in 0 .. m - 1
    BY <1>3
  <2>10. \A n \in 0 .. m :
           f[n] = IF n = 0 THEN template ELSE Replace(f[n - 1], order[n], values[order[n]])
    <3>1. ASSUME NEW n \in 0 .. m - 1
          PROVE  f[n] = IF n = 0 THEN template
                        ELSE Replace(f[n - 1], order[n], values[order[n]])
      <4>1. CASE n = 0
        BY <2>4, <2>7, <4>1
      <4>2. CASE n # 0
        BY <2>4, <2>7, <2>9, <4>2
      <4> QED BY <4>1, <4>2
    <3> QED BY <1>5, <2>6, <2>8, <3>1
  <2>11. f = [n \in 0 .. m |-> f[n]]
    BY DEF f
  <2>12. IsTurns(f, template, values, order, m)
    BY <2>10, <2>11 DEF IsTurns
  <2> QED BY <1>3, <2>12
<1> QED BY <1>4, <1>5

LEMMA AppliedIs ==
  ASSUME NEW template, NEW values, NEW order, Len(order) \in Nat
  PROVE  \E turns : /\ Applied(template, values, order) = turns[Len(order)]
                    /\ turns[0] = template
                    /\ \A n \in 1 .. Len(order) :
                         turns[n] = Replace(turns[n - 1], order[n], values[order[n]])
<1> DEFINE turns == CHOOSE f : IsTurns(f, template, values, order, Len(order))
<1>1. IsTurns(turns, template, values, order, Len(order))
  BY TurnsExist
<1>2. Applied(template, values, order) = turns[Len(order)]
  BY DEF Applied, IsTurns
<1> HIDE DEF turns
<1>3. turns[0] = template
  <2>1. 0 \in 0 .. Len(order)
    OBVIOUS
  <2> QED BY <1>1, <2>1 DEF IsTurns
<1>4. \A n \in 1 .. Len(order) :
        turns[n] = Replace(turns[n - 1], order[n], values[order[n]])
  <2>1. \A n \in 1 .. Len(order) : n \in 0 .. Len(order) /\ n # 0
    OBVIOUS
  <2> QED BY <1>1, <2>1 DEF IsTurns
<1> QED BY <1>2, <1>3, <1>4

\* What has been replaced after n turns.
Replaced(order, n) == {order[i] : i \in 1 .. n}

LEMMA ReplacedGrows ==
  ASSUME NEW order, NEW n \in Nat, n # 0
  PROVE  Replaced(order, n) = Replaced(order, n - 1) \cup {order[n]}
<1>1. \A i : i \in 1 .. n <=> i \in 1 .. n - 1 \/ i = n
  OBVIOUS
<1> QED BY <1>1 DEF Replaced

\* A template with all its placeholders replaced, in whichever order: what is
\* left of it and what has come in ...
LEMMA AppliedType ==
  ASSUME NEW S, NEW V, NEW template \in Texts(S), NEW values,
         NEW order, Len(order) \in Nat,
         \A x \in Replaced(order, Len(order)) : values[x] \in Texts(V)
  PROVE  Applied(template, values, order)
           \in Texts((S \ Replaced(order, Len(order))) \cup V)
<1>1. PICK turns : /\ Applied(template, values, order) = turns[Len(order)]
                   /\ turns[0] = template
                   /\ \A n \in 1 .. Len(order) :
                        turns[n] = Replace(turns[n - 1], order[n], values[order[n]])
  BY AppliedIs
<1> DEFINE T == {n \in 0 .. Len(order) :
                   turns[n] \notin Texts((S \ Replaced(order, n)) \cup V)}
<1>2. SUFFICES ASSUME T # {} PROVE FALSE
  <2>1. Len(order) \in 0 .. Len(order)
    OBVIOUS
  <2> QED BY <1>1, <2>1
<1>3. PICK m \in T : \A n \in T : m <= n
  <2>1. T \subseteq Nat
    OBVIOUS
  <2> HIDE DEF T
  <2> QED BY <1>2, <2>1, LeastNumber
<1>4. m \in 0 .. Len(order) /\ turns[m] \notin Texts((S \ Replaced(order, m)) \cup V)
  OBVIOUS
<1>5. CASE m = 0
  <2>1. Replaced(order, 0) = {}
    BY DEF Replaced
  <2>2. template \in Texts(S \cup V)
    BY DEF Texts
  <2>3. (S \ {}) \cup V = S \cup V
    OBVIOUS
  <2> QED BY <1>1, <1>4, <1>5, <2>1, <2>2, <2>3
<1>6. CASE m # 0
  <2> DEFINE before == (S \ Replaced(order, m - 1)) \cup V
             after == (S \ Replaced(order, m)) \cup V
  <2>1. m \in Nat /\ m \in 1 .. Len(order) /\ m - 1 \in 0 .. Len(order) /\ ~(m <= m - 1)
    BY <1>4, <1>6
  <2>2. m - 1 \notin T
    <3> HIDE DEF T
    <3> QED BY <1>3, <2>1
  <2>3. turns[m - 1] \in Texts(before)
    BY <2>1, <2>2
  <2>4. turns[m] \in Texts((before \ {order[m]}) \cup V)
    <3> HIDE DEF before, T
    <3>1. turns[m] = Replace(turns[m - 1], order[m], values[order[m]])
      BY <1>1, <2>1
    <3>2. values[order[m]] \in Texts(V)
      BY <2>1 DEF Replaced
    <3> QED BY <2>3, <3>1, <3>2, ReplaceType
  <2>5. (before \ {order[m]}) \cup V \subseteq after
    BY <1>6, <2>1, ReplacedGrows
  <2>6. turns[m] \in Texts(after)
    <3> HIDE DEF before, after, T
    <3> QED BY <2>4, <2>5 DEF Texts
  <2> QED BY <1>4, <2>6
<1> QED BY <1>5, <1>6

\* ... and that it is the same as filling them all at once, if nothing that is
\* put in is a placeholder itself.
LEMMA AppliedIsFilled ==
  ASSUME NEW S, NEW V, V \subseteq S, NEW template \in Texts(S), NEW values,
         NEW order, Len(order) \in Nat,
         NEW all, Replaced(order, Len(order)) = all,
         \A x \in all : values[x] \in Texts(V), \A v \in V : v \notin all
  PROVE  Applied(template, values, order)
           = Put(template, Filler(S, values, all))
<1>1. PICK turns : /\ Applied(template, values, order) = turns[Len(order)]
                   /\ turns[0] = template
                   /\ \A n \in 1 .. Len(order) :
                        turns[n] = Replace(turns[n - 1], order[n], values[order[n]])
  BY AppliedIs
<1> DEFINE T == {n \in 0 .. Len(order) :
                   turns[n] # Put(template, Filler(S, values, Replaced(order, n)))}
<1>2. SUFFICES ASSUME T # {} PROVE FALSE
  BY <1>1
<1>3. PICK m \in T : \A n \in T : m <= n
  <2>1. T \subseteq Nat
    OBVIOUS
  <2> HIDE DEF T
  <2> QED BY <1>2, <2>1, LeastNumber
<1>4. /\ m \in 0 .. Len(order)
      /\ turns[m] # Put(template, Filler(S, values, Replaced(order, m)))
  OBVIOUS
<1>5. CASE m = 0
  <2>1. Replaced(order, 0) = {}
    BY DEF Replaced
  <2>2. \A x \in S : Filler(S, values, {})[x] = One(x)
    BY DEF Filler
  <2>3. Filler(S, values, {}) \in [S -> Texts(S)]
    BY FillerType
  <2>4. Put(template, Filler(S, values, {})) = template
    BY <2>2, <2>3, PutNone
  <2> QED BY <1>1, <1>4, <1>5, <2>1, <2>4
<1>6. CASE m # 0
  <2>1. m \in Nat /\ m \in 1 .. Len(order) /\ m - 1 \in 0 .. Len(order) /\ ~(m <= m - 1)
    BY <1>4, <1>6
  <2>2. m - 1 \notin T
    <3> HIDE DEF T
    <3> QED BY <1>3, <2>1
  <2>3. turns[m - 1] = Put(template, Filler(S, values, Replaced(order, m - 1)))
    BY <2>1, <2>2
  <2> HIDE DEF T
  <2>4. turns[m] = Replace(turns[m - 1], order[m], values[order[m]])
    BY <1>1, <2>1
  <2>5. Replaced(order, m - 1) \subseteq all /\ order[m] \in all
    BY <2>1 DEF Replaced
  <2>7. Replace(Put(template, Filler(S, values, Replaced(order, m - 1))), order[m],
                values[order[m]])
          = Put(template, Filler(S, values, Replaced(order, m - 1) \cup {order[m]}))
    <3>1. PICK filled, x : filled = Replaced(order, m - 1) /\ x = order[m]
      OBVIOUS
    <3>2. filled \subseteq all /\ x \in all
      BY <2>5, <3>1
    <3>3. Replace(Put(template, Filler(S, values, filled)), x, values[x])
            = Put(template, Filler(S, values, filled \cup {x}))
      BY <3>2, FillOneMore
    <3> QED BY <3>1, <3>3
  <2>8. Replaced(order, m) = Replaced(order, m - 1) \cup {order[m]}
    BY <1>6, <2>1, ReplacedGrows
  <2> QED BY <1>4, <2>3, <2>4, <2>7, <2>8
<1> QED BY <1>5, <1>6

\* An order of all the placeholders has each of them.
LEMMA OrderIsComplete ==
  ASSUME NEW D, IsFiniteSet(D), NEW order \in SetToSeqs(D)
  PROVE  Len(order) \in Nat /\ Replaced(order, Len(order)) = D
<1> DEFINE I == 1 .. Cardinality(D)
<1>1. Cardinality(D) \in Nat
  BY FS_CardinalityType
<1>2. order \in [I -> D] /\ \A i, j \in I : i # j => order[i] # order[j]
  BY DEF SetToSeqs
<1>3. Len(order) = Cardinality(D)
  BY <1>1, <1>2
<1>4. order \in Injection(I, D)
  BY <1>2 DEF Injection, IsInjective
<1>5. Cardinality(I) = Cardinality(D)
  <2>1. 1 \in Int /\ Cardinality(D) \in Int
    BY <1>1
  <2> QED BY <1>1, <2>1, FS_Interval
<1>6. order \in Surjection(I, D)
  BY <1>4, <1>5, FS_Injection
<1>7. \A d \in D : \E i \in I : order[i] = d
  BY <1>6 DEF Surjection
<1> QED BY <1>1, <1>2, <1>3, <1>7 DEF Replaced

\* What ApplyTemplate returns.
LEMMA TemplateIsApplied ==
  ASSUME NEW S, NEW V, NEW template \in Texts(S), NEW values,
         IsFiniteSet(DOMAIN values), \A x \in DOMAIN values : values[x] \in Texts(V),
         NEW pieces \in ApplyTemplate(template, values)
  PROVE  /\ pieces \in Texts((S \ DOMAIN values) \cup V)
         /\ V \cap DOMAIN values = {} =>
              pieces = Put(template, Filler(S \cup V, values, DOMAIN values))
<1>1. PICK order \in SetToSeqs(DOMAIN values) : pieces = Applied(template, values, order)
  BY DEF ApplyTemplate
<1>2. Len(order) \in Nat /\ Replaced(order, Len(order)) = DOMAIN values
  BY OrderIsComplete
<1>3. \A x \in Replaced(order, Len(order)) : values[x] \in Texts(V)
  BY <1>2
<1>4. pieces \in Texts((S \ DOMAIN values) \cup V)
  BY <1>1, <1>2, <1>3, AppliedType
<1>5. ASSUME V \cap DOMAIN values = {}
      PROVE  pieces = Put(template, Filler(S \cup V, values, DOMAIN values))
  <2>1. template \in Texts(S \cup V) /\ V \subseteq S \cup V
    BY DEF Texts
  <2>2. \A v \in V : v \notin DOMAIN values
    BY <1>5
  <2> QED BY <1>1, <1>2, <2>1, <2>2, AppliedIsFilled
<1> QED BY <1>4, <1>5

-----------------------------------------------------------------------------
(* Texts without placeholders *)

\* A text that has no placeholders but those among some literals.
IsText(s, literals) == s \in Texts(Range(s)) /\ Range(s) \cap Placeholder \subseteq literals

LEMMA TextIf ==
  ASSUME NEW T, NEW s \in Texts(T), NEW literals, T \cap Placeholder \subseteq literals
  PROVE  IsText(s, literals)
<1>1. Len(s) \in Nat /\ s \in [1 .. Len(s) -> T] /\ DOMAIN s = 1 .. Len(s)
  BY LenProperties DEF Texts
<1>2. Range(s) \subseteq T
  BY <1>1 DEF Range
<1>3. s \in [1 .. Len(s) -> Range(s)]
  BY <1>1 DEF Range
<1>4. s \in Seq(Range(s))
  BY <1>1, <1>3
<1> QED BY <1>2, <1>4 DEF IsText, Texts

LEMMA TextIn ==
  ASSUME NEW s, NEW literals, IsText(s, literals)
  PROVE  \A T : Range(s) \subseteq T => s \in Texts(T)
BY DEF IsText, Texts

LEMMA TextEmpty == \A literals : IsText(<<>>, literals)
<1>1. <<>> \in Texts({})
  BY EmptySeq DEF Texts
<1> QED BY <1>1, TextIf

LEMMA TextOne ==
  ASSUME NEW literals, NEW x, x \in literals \/ x \notin Placeholder
  PROVE  IsText(<<x>>, literals)
<1>1. <<x>> \in Texts({x})
  BY DEF Texts
<1>2. {x} \cap Placeholder \subseteq literals
  OBVIOUS
<1> QED BY <1>1, <1>2, TextIf

LEMMA TextTwo ==
  ASSUME NEW literals, NEW x, NEW y, {x, y} \cap Placeholder = {}
  PROVE  IsText(<<x, y>>, literals)
<1>1. <<x, y>> \in Texts({x, y})
  BY DEF Texts
<1> QED BY <1>1, TextIf

LEMMA TextThree ==
  ASSUME NEW literals, NEW x, NEW y, NEW z, {x, y, z} \cap Placeholder = {}
  PROVE  IsText(<<x, y, z>>, literals)
<1>1. <<x, y, z>> \in Texts({x, y, z})
  BY DEF Texts
<1> QED BY <1>1, TextIf

LEMMA TextFour ==
  ASSUME NEW literals, NEW x, NEW y, NEW z, NEW w, {x, y, z, w} \cap Placeholder = {}
  PROVE  IsText(<<x, y, z, w>>, literals)
<1>1. <<x, y, z, w>> \in Texts({x, y, z, w})
  BY DEF Texts
<1> QED BY <1>1, TextIf

LEMMA TextConcat ==
  ASSUME NEW s, NEW t, NEW literals, IsText(s, literals), IsText(t, literals)
  PROVE  IsText(s \o t, literals)
<1> DEFINE T == Range(s) \cup Range(t)
<1>1. s \in Texts(T) /\ t \in Texts(T)
  BY TextIn
<1>2. T \cap Placeholder \subseteq literals
  BY DEF IsText
<1> HIDE DEF T
<1>3. s \o t \in Texts(T)
  BY <1>1, ConcatProperties DEF Texts
<1> QED BY <1>2, <1>3, TextIf

LEMMA TextFlatten ==
  ASSUME NEW literals, NEW k \in Nat, NEW seqs, seqs = [n \in 1 .. k |-> seqs[n]],
         \A n \in 1 .. k : IsText(seqs[n], literals)
  PROVE  IsText(FlattenSeq(seqs), literals)
<1> DEFINE T == UNION {Range(seqs[n]) : n \in 1 .. k}
<1>1. T \cap Placeholder \subseteq literals
  BY DEF IsText
<1>2. \A n \in 1 .. k : seqs[n] \in Texts(T)
  BY TextIn
<1> HIDE DEF T
<1>3. seqs \in Seq(Texts(T))
  BY <1>2
<1>4. FlattenSeq(seqs) \in Texts(T)
  BY <1>3, FlattenType DEF Texts
<1> QED BY <1>1, <1>4, TextIf

-----------------------------------------------------------------------------
(* Words and signs *)

FixedPiece ==
  {NewLine, Space, Tab, "(", ")", "=", ";", "{", "}", ",", "return", "if", "else",
   "while", "for"}

LEMMA FixedPieces == FixedPiece \cap Placeholder = {}
<1>1. DOMAIN Hole =
        {"prologue", "epilogue", "body", "name", "returnType", "params", "type",
         "initValue", "variable", "value", "left", "right", "operator", "operand",
         "callee", "args", "condition", "thenBranch", "elseBranch", "init", "increment"}
  BY Zenon DEF Hole
<1>2. /\ Hole.prologue \notin FixedPiece /\ Hole.epilogue \notin FixedPiece
      /\ Hole.body \notin FixedPiece /\ Hole.name \notin FixedPiece
      /\ Hole.returnType \notin FixedPiece /\ Hole.params \notin FixedPiece
      /\ Hole.type \notin FixedPiece
  BY ZenonT(60) DEF Hole, FixedPiece, NewLine, Space, Tab
<1>3. /\ Hole.initValue \notin FixedPiece /\ Hole.variable \notin FixedPiece
      /\ Hole.value \notin FixedPiece /\ Hole.left \notin FixedPiece
      /\ Hole.right \notin FixedPiece /\ Hole.operator \notin FixedPiece
      /\ Hole.operand \notin FixedPiece
  BY ZenonT(60) DEF Hole, FixedPiece, NewLine, Space, Tab
<1>4. /\ Hole.callee \notin FixedPiece /\ Hole.args \notin FixedPiece
      /\ Hole.condition \notin FixedPiece /\ Hole.thenBranch \notin FixedPiece
      /\ Hole.elseBranch \notin FixedPiece /\ Hole.init \notin FixedPiece
      /\ Hole.increment \notin FixedPiece
  BY ZenonT(60) DEF Hole, FixedPiece, NewLine, Space, Tab
<1>5. \A which \in DOMAIN Hole : Hole[which] \notin FixedPiece
  BY <1>1, <1>2, <1>3, <1>4
<1> QED BY <1>5 DEF Placeholder

-----------------------------------------------------------------------------
(* The nodes of a program *)

IsChild(p, slot) ==
  /\ p \in Printed /\ slot \in Nat /\ Has(p, slot)
  /\ ast[p].kind # "function" \/ slot = ast[p].arity

LEMMA Nodes ==
  ASSUME ast \in Programs, NEW p \in DOMAIN ast
  PROVE  /\ p \in Seq(Nat) /\ ast[p].arity \in Nat /\ ast[p].type \notin Placeholder
         /\ ast[p].kind # "literal" => ast[p].name \notin Placeholder
         /\ ast[p].kind = "function" =>
              \A i \in 1 .. ast[p].arity - 1 :
                Append(p, i) \in DOMAIN ast /\ ast[Append(p, i)].kind = "parameter"
         /\ ast[p].kind = "parameter" =>
              p # <<>> /\ ast[Front(p)].kind = "function" /\ Last(p) < ast[Front(p)].arity
BY ProgramsAssumption

LEMMA PathOfChild ==
  ASSUME NEW p \in Seq(Nat), NEW slot \in Nat
  PROVE  /\ Append(p, slot) \in Seq(Nat) /\ Len(Append(p, slot)) = Len(p) + 1
         /\ Len(p) \in Nat
         /\ SubSeq(Append(p, slot), 1, Len(p)) = p
         /\ Front(Append(p, slot)) = p /\ Last(Append(p, slot)) = slot
<1> DEFINE c == Append(p, slot)
<1>1. /\ c \in Seq(Nat) /\ Len(c) = Len(p) + 1 /\ Len(p) \in Nat
      /\ \A i \in 1 .. Len(p) : c[i] = p[i]
      /\ c[Len(p) + 1] = slot
  BY AppendProperties, LenProperties
<1> HIDE DEF c
<1>2. SubSeq(c, 1, Len(p)) = p
  <2>1. SubSeq(c, 1, Len(p)) = [i \in 1 .. Len(p) |-> c[i]]
    BY <1>1
  <2>2. p = [i \in 1 .. Len(p) |-> p[i]]
    BY LenProperties
  <2> QED BY <1>1, <2>1, <2>2
<1>3. Len(c) - 1 = Len(p)
  BY <1>1
<1>4. Front(c) = p
  BY <1>2, <1>3 DEF Front
<1>5. Last(c) = slot
  BY <1>1 DEF Last
<1> QED BY <1>1, <1>2, <1>4, <1>5 DEF c

\* A child is printed, and before its parent.
LEMMA ChildIsPrinted ==
  ASSUME ast \in Programs, NEW p, NEW slot, IsChild(p, slot)
  PROVE  /\ Append(p, slot) \in Printed /\ Precedes(Append(p, slot), p)
         /\ LiteralsOf(Append(p, slot)) \subseteq LiteralsOf(p)
<1> DEFINE c == Append(p, slot)
<1>1. p \in Printed /\ slot \in Nat /\ c \in DOMAIN ast /\ p \in DOMAIN ast
  BY DEF IsChild, Has, Printed
<1>2. p \in Seq(Nat)
  BY <1>1, Nodes
<1>3. /\ c \in Seq(Nat) /\ Len(c) = Len(p) + 1 /\ Len(p) \in Nat
      /\ SubSeq(c, 1, Len(p)) = p /\ Front(c) = p /\ Last(c) = slot
  BY <1>1, <1>2, PathOfChild
<1>4. ast[c].kind # "parameter"
  <2>1. SUFFICES ASSUME ast[c].kind = "parameter" PROVE FALSE
    OBVIOUS
  <2>2. ast[p].kind = "function" /\ slot < ast[p].arity
    <3> HIDE DEF c
    <3> QED BY <1>1, <1>3, <2>1, Nodes
  <2>3. ast[p].arity \in Nat
    BY <1>1, Nodes
  <2> QED BY <1>1, <2>2, <2>3 DEF IsChild
<1>5. c \in Printed
  BY <1>1, <1>4 DEF Printed
<1> HIDE DEF c
<1>6. Precedes(c, p)
  BY <1>3 DEF Precedes
<1>7. ASSUME NEW r \in DOMAIN ast, Len(c) <= Len(r), SubSeq(r, 1, Len(c)) = c
      PROVE  Len(p) <= Len(r) /\ SubSeq(r, 1, Len(p)) = p
  <2>1. r \in Seq(Nat) /\ Len(r) \in Nat
    BY Nodes, LenProperties
  <2>2. SubSeq(r, 1, Len(c)) = [i \in 1 .. Len(c) |-> r[i]]
    BY <1>3, <1>7, <2>1
  <2>3. SubSeq(r, 1, Len(p)) = [i \in 1 .. Len(p) |-> r[i]]
    BY <1>3, <1>7, <2>1
  <2>4. SubSeq(c, 1, Len(p)) = [i \in 1 .. Len(p) |-> c[i]]
    BY <1>3
  <2>5. \A i \in 1 .. Len(p) : i \in 1 .. Len(c)
    BY <1>3
  <2>6. \A i \in 1 .. Len(p) : c[i] = r[i]
    <3>1. \A i \in 1 .. Len(c) : c[i] = r[i]
      BY <1>7, <2>2
    <3> QED BY <2>5, <3>1
  <2>7. SubSeq(r, 1, Len(p)) = p
    BY <1>3, <2>3, <2>4, <2>6
  <2> QED BY <1>3, <1>7, <2>1, <2>7
<1>8. LiteralsOf(c) \subseteq LiteralsOf(p)
  BY <1>7 DEF LiteralsOf
<1> QED BY <1>5, <1>6, <1>8 DEF c

-----------------------------------------------------------------------------
(* The texts that a node is made of *)

\* No mapping is a placeholder.
NoHoles(mappings) == \A key \in DOMAIN mappings : mappings[key] \notin Placeholder

RulesInv == \A type \in DOMAIN rules : NoHoles(rules[type].mappings)

\* What a handler may rely on when it prints a node of a generator with rules.
Ready(p) ==
  /\ ast \in Programs /\ Generator = "generic" /\ RulesInv
  /\ p \in Printed
  /\ \A q \in Printed : Precedes(q, p) => q \in DOMAIN text
  /\ \A q \in DOMAIN text : IsText(text[q], LiteralsOf(q))

\* The parameters of a function are no parts of it.
IsSlot(p, slot) == slot \in Nat /\ (ast[p].kind # "function" \/ slot = ast[p].arity)

LEMMA PartIsText ==
  ASSUME NEW p, Ready(p), NEW slot, IsSlot(p, slot)
  PROVE  IsText(Part(p, slot), LiteralsOf(p))
<1>1. CASE Has(p, slot)
  <2>1. IsChild(p, slot)
    BY <1>1 DEF IsChild, IsSlot, Ready
  <2>2. Append(p, slot) \in DOMAIN text
    BY <2>1, ChildIsPrinted DEF Ready
  <2>3. IsText(text[Append(p, slot)], LiteralsOf(p))
    <3>1. IsText(text[Append(p, slot)], LiteralsOf(Append(p, slot)))
      BY <2>2 DEF Ready
    <3>2. LiteralsOf(Append(p, slot)) \subseteq LiteralsOf(p)
      BY <2>1, ChildIsPrinted DEF Ready
    <3> QED BY <3>1, <3>2 DEF IsText
  <2> QED BY <1>1, <2>3 DEF Part
<1>2. CASE ~Has(p, slot)
  BY <1>2, TextEmpty DEF Part
<1> QED BY <1>1, <1>2

LEMMA PartsIsText ==
  ASSUME NEW p, Ready(p), ast[p].kind # "function", NEW before, NEW after,
         \A literals : IsText(before, literals) /\ IsText(after, literals)
  PROVE  IsText(Parts(p, 1, ast[p].arity, before, after), LiteralsOf(p))
<1> DEFINE k == ast[p].arity - 1 + 1
           parts == [n \in 1 .. k |-> before \o Part(p, 1 + n - 1) \o after]
<1>1. k \in Nat /\ \A n \in 1 .. k : 1 + n - 1 \in Nat
  <2>1. ast[p].arity \in Nat
    BY Nodes DEF Ready, Printed
  <2> QED BY <2>1
<1>2. ASSUME NEW n \in 1 .. k
      PROVE  IsText(parts[n], LiteralsOf(p))
  <2>1. IsText(Part(p, 1 + n - 1), LiteralsOf(p))
    <3>1. IsSlot(p, 1 + n - 1)
      BY <1>1 DEF IsSlot
    <3> HIDE DEF k
    <3> QED BY <3>1, PartIsText
  <2>2. parts[n] = before \o Part(p, 1 + n - 1) \o after
    OBVIOUS
  <2> HIDE DEF k, parts
  <2> QED BY <2>1, <2>2, TextConcat
<1>3. parts = [n \in 1 .. k |-> parts[n]]
  OBVIOUS
<1>4. IsText(FlattenSeq(parts), LiteralsOf(p))
  <2> HIDE DEF k, parts
  <2> QED BY <1>1, <1>2, <1>3, TextFlatten
<1> QED BY <1>4 DEF Parts

LEMMA ListedIsText ==
  ASSUME NEW literals, NEW k \in Nat, NEW items, items = [n \in 1 .. k |-> items[n]],
         \A n \in 1 .. k : IsText(items[n], literals)
  PROVE  IsText(Listed(items), literals)
<1> DEFINE listed == [n \in DOMAIN items |->
                        (IF n > 1 THEN <<",", Space>> ELSE <<>>) \o items[n]]
<1>1. DOMAIN items = 1 .. k
  OBVIOUS
<1>2. IsText(<<",", Space>>, literals) /\ IsText(<<>>, literals)
  <2>1. {",", Space} \cap Placeholder = {}
    BY FixedPieces DEF FixedPiece
  <2> QED BY <2>1, TextTwo, TextEmpty
<1>3. ASSUME NEW n \in 1 .. k
      PROVE  IsText(listed[n], literals)
  <2>1. IsText(IF n > 1 THEN <<",", Space>> ELSE <<>>, literals)
    BY <1>2
  <2>2. listed[n] = (IF n > 1 THEN <<",", Space>> ELSE <<>>) \o items[n]
    BY <1>1
  <2> HIDE DEF listed
  <2> QED BY <2>1, <2>2, TextConcat
<1>4. listed = [n \in 1 .. k |-> listed[n]]
  BY <1>1
<1>5. IsText(FlattenSeq(listed), literals)
  <2> HIDE DEF listed
  <2> QED BY <1>3, <1>4, TextFlatten
<1> QED BY <1>5 DEF Listed

LEMMA TypeIsText ==
  ASSUME Generator = "generic", RulesInv, NEW type, type \notin Placeholder
  PROVE  \A use, literals : IsText(Type(use, type), literals)
<1> TAKE use, literals
<1>1. MapType(type) \notin Placeholder
  BY DEF MapType, RulesInv, NoHoles
<1>2. Type(use, type) = IF MapType(type) = NoType THEN <<>> ELSE <<MapType(type)>>
  BY DEF Type
<1>3. IsText(<<MapType(type)>>, literals)
  BY <1>1, TextOne
<1> QED BY <1>2, <1>3, TextEmpty

LEMMA ParamsIsText ==
  ASSUME NEW p, Ready(p), ast[p].kind = "function"
  PROVE  IsText(Params(p), LiteralsOf(p))
<1> DEFINE k == ast[p].arity - 1
           item(n) == LET parameter == ast[Append(p, n)]
                      IN  Type("parameter", parameter.type) \o <<Space, parameter.name>>
           items == [n \in 1 .. k |-> item(n)]
<1>1. p \in DOMAIN ast /\ ast[p].arity \in Nat
  BY Nodes DEF Ready, Printed
<1>2. ASSUME NEW n \in 1 .. k
      PROVE  IsText(items[n], LiteralsOf(p))
  <2>1. Append(p, n) \in DOMAIN ast /\ ast[Append(p, n)].kind = "parameter"
    BY <1>1, Nodes DEF Ready
  <2>2. ast[Append(p, n)].type \notin Placeholder /\ ast[Append(p, n)].name \notin Placeholder
    BY <2>1, Nodes DEF Ready
  <2>3. IsText(Type("parameter", ast[Append(p, n)].type), LiteralsOf(p))
    BY <2>2, TypeIsText DEF Ready
  <2>4. IsText(<<Space, ast[Append(p, n)].name>>, LiteralsOf(p))
    <3>1. Space \notin Placeholder
      BY FixedPieces DEF FixedPiece
    <3> QED BY <2>2, <3>1, TextTwo
  <2>5. items[n] = Type("parameter", ast[Append(p, n)].type) \o <<Space, ast[Append(p, n)].name>>
    OBVIOUS
  <2> HIDE DEF k, items
  <2> QED BY <2>3, <2>4, <2>5, TextConcat
<1>3. items = [n \in 1 .. k |-> items[n]]
  OBVIOUS
<1>4. Params(p) = Listed(items)
  BY DEF Params
<1>5. CASE ast[p].arity = 0
  <2>1. items = <<>> /\ \A n \in 1 .. 0 : FALSE
    BY <1>5
  <2>2. items = [n \in 1 .. 0 |-> items[n]]
    BY <1>5
  <2> HIDE DEF items
  <2> QED BY <1>4, <2>1, <2>2, ListedIsText
<1>6. CASE ast[p].arity # 0
  <2>1. k \in Nat
    BY <1>1, <1>6
  <2> HIDE DEF k, items
  <2> QED BY <1>2, <1>3, <1>4, <2>1, ListedIsText
<1> QED BY <1>5, <1>6

LEMMA ArgsIsText ==
  ASSUME NEW p, Ready(p), ast[p].kind # "function"
  PROVE  IsText(Args(p), LiteralsOf(p))
<1> DEFINE k == ast[p].arity - 1
           items == [n \in 1 .. k |-> Part(p, n + 1)]
<1>1. p \in DOMAIN ast /\ ast[p].arity \in Nat
  BY Nodes DEF Ready, Printed
<1>2. ASSUME NEW n \in 1 .. k
      PROVE  IsText(items[n], LiteralsOf(p))
  <2>1. IsSlot(p, n + 1)
    BY <1>1 DEF IsSlot
  <2>2. IsText(Part(p, n + 1), LiteralsOf(p))
    <3> HIDE DEF k
    <3> QED BY <2>1, PartIsText
  <2> QED BY <2>2
<1>3. items = [n \in 1 .. k |-> items[n]]
  OBVIOUS
<1>4. Args(p) = Listed(items)
  BY DEF Args
<1>5. CASE ast[p].arity = 0
  <2>1. items = [n \in 1 .. 0 |-> items[n]] /\ \A n \in 1 .. 0 : FALSE
    BY <1>5
  <2> HIDE DEF items
  <2> QED BY <1>4, <2>1, ListedIsText
<1>6. CASE ast[p].arity # 0
  <2>1. k \in Nat
    BY <1>1, <1>6
  <2> HIDE DEF k, items
  <2> QED BY <1>2, <1>3, <1>4, <2>1, ListedIsText
<1> QED BY <1>5, <1>6

-----------------------------------------------------------------------------
(* The values of the placeholders *)

Keys(pairs, k) == {pairs[n][1] : n \in 1 .. k}

HasValue(pairs, k, key, value) == \E n \in 1 .. k : pairs[n][1] = key /\ value = pairs[n][2]

LEMMA MappingsOfPairs ==
  ASSUME NEW k \in Nat, NEW pairs, DOMAIN pairs = 1 .. k
  PROVE  /\ DOMAIN Mappings(pairs) = Keys(pairs, k)
         /\ IsFiniteSet(DOMAIN Mappings(pairs))
         /\ \A key \in DOMAIN Mappings(pairs) : HasValue(pairs, k, key, Mappings(pairs)[key])
<1> DEFINE keys == {pairs[n][1] : n \in 1 .. k}
           last(key) == CHOOSE n \in DOMAIN pairs :
                          /\ pairs[n][1] = key
                          /\ \A m \in DOMAIN pairs : pairs[m][1] = key => m <= n
<1>1. Mappings(pairs) = [key \in keys |-> pairs[last(key)][2]]
  BY DEF Mappings
<1>2. ASSUME NEW key \in keys
      PROVE  last(key) \in 1 .. k /\ pairs[last(key)][1] = key
  <2> DEFINE T == {n \in 1 .. k : pairs[n][1] = key}
  <2>1. T \subseteq 0 .. k /\ T # {}
    OBVIOUS
  <2>2. PICK n \in T : \A m \in T : m <= n
    <3> HIDE DEF T
    <3> QED BY <2>1, GreatestNumber
  <2>3. \E i \in DOMAIN pairs :
          /\ pairs[i][1] = key /\ \A m \in DOMAIN pairs : pairs[m][1] = key => m <= i
    BY <2>2
  <2> QED BY <2>3
<1>3. IsFiniteSet(keys)
  <2> DEFINE f == [n \in 1 .. k |-> pairs[n][1]]
  <2>1. f \in Surjection(1 .. k, keys)
    BY DEF Surjection
  <2>2. IsFiniteSet(1 .. k)
    <3>1. 1 \in Int /\ k \in Int
      OBVIOUS
    <3> QED BY <3>1, FS_Interval
  <2> HIDE DEF f, keys
  <2> QED BY <2>1, <2>2, FS_Surjection
<1>4. DOMAIN Mappings(pairs) = keys
  <2> HIDE DEF keys, last
  <2> QED BY <1>1
<1>5. ASSUME NEW key \in keys
      PROVE  \E n \in 1 .. k : pairs[n][1] = key /\ Mappings(pairs)[key] = pairs[n][2]
  <2>1. Mappings(pairs)[key] = pairs[last(key)][2]
    <3> HIDE DEF keys, last
    <3> QED BY <1>1
  <2>2. last(key) \in 1 .. k /\ pairs[last(key)][1] = key
    BY <1>2
  <2> HIDE DEF last
  <2> QED BY <2>1, <2>2
<1> HIDE DEF keys
<1>6. \A key \in DOMAIN Mappings(pairs) :
        \E n \in 1 .. k : pairs[n][1] = key /\ Mappings(pairs)[key] = pairs[n][2]
  BY <1>4, <1>5
<1> QED BY <1>3, <1>4, <1>6 DEF keys, Keys, HasValue

\* The values are texts, one for each of the holes.
Fills(values, holes, literals) ==
  /\ DOMAIN values = holes /\ IsFiniteSet(holes)
  /\ \A hole \in holes : IsText(values[hole], literals)

LEMMA PairsFill ==
  ASSUME NEW k \in Nat, NEW pairs, DOMAIN pairs = 1 .. k, NEW holes, NEW literals,
         holes = {pairs[n][1] : n \in 1 .. k},
         \A n \in 1 .. k : IsText(pairs[n][2], literals)
  PROVE  Fills(Mappings(pairs), holes, literals)
<1>1. /\ DOMAIN Mappings(pairs) = holes /\ IsFiniteSet(holes)
      /\ \A key \in holes : \E n \in 1 .. k : Mappings(pairs)[key] = pairs[n][2]
  <2>1. /\ DOMAIN Mappings(pairs) = Keys(pairs, k) /\ IsFiniteSet(DOMAIN Mappings(pairs))
        /\ \A key \in DOMAIN Mappings(pairs) : HasValue(pairs, k, key, Mappings(pairs)[key])
    BY MappingsOfPairs
  <2> QED BY <2>1 DEF Keys, HasValue
<1> QED BY <1>1 DEF Fills

LEMMA OneFills ==
  ASSUME NEW a, NEW x, NEW literals, IsText(x, literals)
  PROVE  Fills(Mappings(<< <<a, x>> >>), {a}, literals)
<1> DEFINE pairs == << <<a, x>> >>
<1>1. DOMAIN pairs = 1 .. 1 /\ pairs[1][1] = a /\ pairs[1][2] = x
  OBVIOUS
<1> HIDE DEF pairs
<1>2. {a} = {pairs[n][1] : n \in 1 .. 1} /\ \A n \in 1 .. 1 : IsText(pairs[n][2], literals)
  BY <1>1
<1>3. Fills(Mappings(pairs), {a}, literals)
  BY <1>1, <1>2, PairsFill
<1> QED BY <1>3 DEF pairs

LEMMA TwoFill ==
  ASSUME NEW a, NEW x, NEW b, NEW y, NEW literals, IsText(x, literals), IsText(y, literals)
  PROVE  Fills(Mappings(<< <<a, x>>, <<b, y>> >>), {a, b}, literals)
<1> DEFINE pairs == << <<a, x>>, <<b, y>> >>
<1>1. /\ DOMAIN pairs = 1 .. 2
      /\ pairs[1][1] = a /\ pairs[1][2] = x /\ pairs[2][1] = b /\ pairs[2][2] = y
  OBVIOUS
<1> HIDE DEF pairs
<1>2. \A n : n \in 1 .. 2 <=> n = 1 \/ n = 2
  OBVIOUS
<1>3. {a, b} = {pairs[n][1] : n \in 1 .. 2} /\ \A n \in 1 .. 2 : IsText(pairs[n][2], literals)
  BY <1>1, <1>2
<1>4. Fills(Mappings(pairs), {a, b}, literals)
  BY <1>1, <1>3, PairsFill
<1> QED BY <1>4 DEF pairs

LEMMA ThreeFill ==
  ASSUME NEW a, NEW x, NEW b, NEW y, NEW c, NEW z, NEW literals,
         IsText(x, literals), IsText(y, literals), IsText(z, literals)
  PROVE  Fills(Mappings(<< <<a, x>>, <<b, y>>, <<c, z>> >>), {a, b, c}, literals)
<1> DEFINE pairs == << <<a, x>>, <<b, y>>, <<c, z>> >>
<1>1. /\ DOMAIN pairs = 1 .. 3
      /\ pairs[1][1] = a /\ pairs[1][2] = x /\ pairs[2][1] = b /\ pairs[2][2] = y
      /\ pairs[3][1] = c /\ pairs[3][2] = z
  OBVIOUS
<1> HIDE DEF pairs
<1>2. \A n : n \in 1 .. 3 <=> n = 1 \/ n = 2 \/ n = 3
  OBVIOUS
<1>3. {a, b, c} = {pairs[n][1] : n \in 1 .. 3} /\ \A n \in 1 .. 3 : IsText(pairs[n][2], literals)
  BY <1>1, <1>2
<1>4. Fills(Mappings(pairs), {a, b, c}, literals)
  BY <1>1, <1>3, PairsFill
<1> QED BY <1>4 DEF pairs

LEMMA FourFill ==
  ASSUME NEW a, NEW x, NEW b, NEW y, NEW c, NEW z, NEW d, NEW w, NEW literals,
         IsText(x, literals), IsText(y, literals), IsText(z, literals), IsText(w, literals)
  PROVE  Fills(Mappings(<< <<a, x>>, <<b, y>>, <<c, z>>, <<d, w>> >>), {a, b, c, d}, literals)
<1> DEFINE pairs == << <<a, x>>, <<b, y>>, <<c, z>>, <<d, w>> >>
<1>1. /\ DOMAIN pairs = 1 .. 4
      /\ pairs[1][1] = a /\ pairs[1][2] = x /\ pairs[2][1] = b /\ pairs[2][2] = y
      /\ pairs[3][1] = c /\ pairs[3][2] = z /\ pairs[4][1] = d /\ pairs[4][2] = w
  OBVIOUS
<1> HIDE DEF pairs
<1>2. \A n : n \in 1 .. 4 <=> n = 1 \/ n = 2 \/ n = 3 \/ n = 4
  OBVIOUS
<1>3. /\ {a, b, c, d} = {pairs[n][1] : n \in 1 .. 4}
      /\ \A n \in 1 .. 4 : IsText(pairs[n][2], literals)
  BY <1>1, <1>2
<1>4. Fills(Mappings(pairs), {a, b, c, d}, literals)
  BY <1>1, <1>3, PairsFill
<1> QED BY <1>4 DEF pairs

\* The values that a handler lists are for the placeholders of its node type.
LEMMA ValuesFill ==
  ASSUME NEW p, Ready(p), ast[p].kind \in DOMAIN RuleType
  PROVE  Fills(Values(p), Filled[RuleType[ast[p].kind]], LiteralsOf(p))
<1> DEFINE L == LiteralsOf(p)
           kind == ast[p].kind
<1>1. p \in DOMAIN ast
  BY DEF Ready, Printed
<1>2. IsText(<<NewLine>>, L) /\ IsText(<<>>, L)
  <2>1. NewLine \notin Placeholder
    BY FixedPieces DEF FixedPiece
  <2> QED BY <2>1, TextOne, TextEmpty
<1>3. IsText(<<ast[p].name>>, L)
  <2>1. ast[p].name \in L \/ ast[p].name \notin Placeholder
    <3>1. CASE kind = "literal"
      <4>1. p \in Seq(Nat) /\ Len(p) \in Nat
        BY <1>1, Nodes, LenProperties DEF Ready
      <4>2. SubSeq(p, 1, Len(p)) = p
        BY <4>1, SubSeqFull
      <4> QED BY <1>1, <3>1, <4>1, <4>2 DEF LiteralsOf
    <3>2. CASE kind # "literal"
      BY <1>1, <3>2, Nodes DEF Ready
    <3> QED BY <3>1, <3>2
  <2> QED BY <2>1, TextOne
<1>4. \A use : IsText(Type(use, ast[p].type), L)
  <2>1. ast[p].type \notin Placeholder
    BY <1>1, Nodes DEF Ready
  <2> QED BY <2>1, TypeIsText DEF Ready
<1>5. \A slot : IsSlot(p, slot) => IsText(Part(p, slot), L)
  BY PartIsText
<1>6. kind # "function" => \A slot \in {1, 2, 3, 4} : IsText(Part(p, slot), L)
  BY <1>5 DEF IsSlot
<1>7. kind # "function" =>
        IsText(Parts(p, 1, ast[p].arity, <<>>, <<NewLine>>), L)
  <2>1. \A literals : IsText(<<>>, literals) /\ IsText(<<NewLine>>, literals)
    <3>1. NewLine \notin Placeholder
      BY FixedPieces DEF FixedPiece
    <3> QED BY <3>1, TextOne, TextEmpty
  <2> QED BY <2>1, PartsIsText
<1>8. kind # "function" => IsText(Args(p), L)
  BY ArgsIsText
<1>9. CASE kind = "program"
  <2>1. Values(p) =
          Mappings(<< <<Hole.prologue, <<NewLine>> >>,
                      <<Hole.body, Parts(p, 1, ast[p].arity, <<>>, <<NewLine>>)>>,
                      <<Hole.epilogue, <<>> >> >>)
    BY <1>9 DEF Values, Replacements
  <2>2. Filled[RuleType[kind]] = {Hole.prologue, Hole.body, Hole.epilogue}
    BY <1>9 DEF Filled, RuleType
  <2>3. IsText(<<NewLine>>, L)
    BY <1>2, <1>7, <1>9
  <2>4. IsText(Parts(p, 1, ast[p].arity, <<>>, <<NewLine>>), L)
    BY <1>2, <1>7, <1>9
  <2>5. IsText(<<>>, L)
    BY <1>2, <1>7, <1>9
  <2>6. Fills(Mappings(<< <<Hole.prologue, <<NewLine>> >>,
                        <<Hole.body, Parts(p, 1, ast[p].arity, <<>>, <<NewLine>>)>>,
                        <<Hole.epilogue, <<>> >> >>), {Hole.prologue, Hole.body, Hole.epilogue}, L)
    BY <2>3, <2>4, <2>5, ThreeFill
  <2> QED BY <2>1, <2>2, <2>6
<1>10. CASE kind = "function"
  <2>1. Values(p) =
          Mappings(<< <<Hole.name, <<ast[p].name>> >>,
                      <<Hole.returnType, Type("return", ast[p].type)>>,
                      <<Hole.params, Params(p)>>, <<Hole.body, Part(p, ast[p].arity)>> >>)
    BY <1>10 DEF Values, Replacements
  <2>2. Filled[RuleType[kind]] = {Hole.name, Hole.returnType, Hole.params, Hole.body}
    BY <1>10 DEF Filled, RuleType
  <2>3. IsText(Params(p), L)
    BY <1>10, ParamsIsText
  <2>4. IsText(Part(p, ast[p].arity), L)
    <3>1. IsSlot(p, ast[p].arity)
      BY <1>1, Nodes DEF IsSlot, Ready
    <3> QED BY <1>5, <3>1
  <2>5. IsText(<<ast[p].name>>, L)
    BY <1>3, <1>4
  <2>6. IsText(Type("return", ast[p].type), L)
    BY <1>3, <1>4
  <2>7. Fills(Mappings(<< <<Hole.name, <<ast[p].name>> >>,
                        <<Hole.returnType, Type("return", ast[p].type)>>,
                        <<Hole.params, Params(p)>>, <<Hole.body, Part(p, ast[p].arity)>> >>), {Hole.name, Hole.returnType, Hole.params, Hole.body}, L)
    BY <2>3, <2>4, <2>5, <2>6, FourFill
  <2> QED BY <2>1, <2>2, <2>7
<1>11. CASE kind = "declaration"
  <2>1. Values(p) =
          Mappings(<< <<Hole.type, Type("variable", ast[p].type)>>,
                      <<Hole.name, <<ast[p].name>> >>, <<Hole.initValue, Part(p, 1)>> >>)
    BY <1>11 DEF Values, Replacements
  <2>2. Filled[RuleType[kind]] = {Hole.type, Hole.name, Hole.initValue}
    BY <1>11 DEF Filled, RuleType
  <2>3. IsText(Type("variable", ast[p].type), L)
    BY <1>3, <1>4, <1>6, <1>11
  <2>4. IsText(<<ast[p].name>>, L)
    BY <1>3, <1>4, <1>6, <1>11
  <2>5. IsText(Part(p, 1), L)
    BY <1>3, <1>4, <1>6, <1>11
  <2>6. Fills(Mappings(<< <<Hole.type, Type("variable", ast[p].type)>>,
                        <<Hole.name, <<ast[p].name>> >>, <<Hole.initValue, Part(p, 1)>> >>), {Hole.type, Hole.name, Hole.initValue}, L)
    BY <2>3, <2>4, <2>5, ThreeFill
  <2> QED BY <2>1, <2>2, <2>6
<1>12. CASE kind = "assignment"
  <2>1. Values(p) =
          Mappings(<< <<Hole.variable, <<ast[p].name>> >>, <<Hole.value, Part(p, 1)>> >>)
    BY <1>12 DEF Values, Replacements
  <2>2. Filled[RuleType[kind]] = {Hole.variable, Hole.value}
    BY <1>12 DEF Filled, RuleType
  <2>3. IsText(<<ast[p].name>>, L)
    BY <1>3, <1>6, <1>12
  <2>4. IsText(Part(p, 1), L)
    BY <1>3, <1>6, <1>12
  <2>5. Fills(Mappings(<< <<Hole.variable, <<ast[p].name>> >>, <<Hole.value, Part(p, 1)>> >>), {Hole.variable, Hole.value}, L)
    BY <2>3, <2>4, TwoFill
  <2> QED BY <2>1, <2>2, <2>5
<1>13. CASE kind = "binary"
  <2>1. Values(p) =
          Mappings(<< <<Hole.left, Part(p, 1)>>, <<Hole.operator, <<ast[p].name>> >>,
                      <<Hole.right, Part(p, 2)>> >>)
    BY <1>13 DEF Values, Replacements
  <2>2. Filled[RuleType[kind]] = {Hole.left, Hole.operator, Hole.right}
    BY <1>13 DEF Filled, RuleType
  <2>3. IsText(Part(p, 1), L)
    BY <1>3, <1>6, <1>13
  <2>4. IsText(<<ast[p].name>>, L)
    BY <1>3, <1>6, <1>13
  <2>5. IsText(Part(p, 2), L)
    BY <1>3, <1>6, <1>13
  <2>6. Fills(Mappings(<< <<Hole.left, Part(p, 1)>>, <<Hole.operator, <<ast[p].name>> >>,
                        <<Hole.right, Part(p, 2)>> >>), {Hole.left, Hole.operator, Hole.right}, L)
    BY <2>3, <2>4, <2>5, ThreeFill
  <2> QED BY <2>1, <2>2, <2>6
<1>14. CASE kind = "unary"
  <2>1. Values(p) =
          Mappings(<< <<Hole.operator, <<ast[p].name>> >>, <<Hole.operand, Part(p, 1)>> >>)
    BY <1>14 DEF Values, Replacements
  <2>2. Filled[RuleType[kind]] = {Hole.operator, Hole.operand}
    BY <1>14 DEF Filled, RuleType
  <2>3. Fills(Mappings(<< <<Hole.operator, <<ast[p].name>> >>, <<Hole.operand, Part(p, 1)>> >>), {Hole.operator, Hole.operand}, L)
    BY <1>3, <1>6, <1>14, TwoFill
  <2> QED BY <2>1, <2>2, <2>3
<1>15. CASE kind = "call"
  <2>1. Values(p) = Mappings(<< <<Hole.callee, Part(p, 1)>>, <<Hole.args, Args(p)>> >>)
    BY <1>15 DEF Values, Replacements
  <2>2. Filled[RuleType[kind]] = {Hole.callee, Hole.args}
    BY <1>15 DEF Filled, RuleType
  <2>3. IsText(Part(p, 1), L)
    BY <1>6, <1>8, <1>15
  <2>4. IsText(Args(p), L)
    BY <1>6, <1>8, <1>15
  <2>5. Fills(Mappings(<< <<Hole.callee, Part(p, 1)>>, <<Hole.args, Args(p)>> >>), {Hole.callee, Hole.args}, L)
    BY <2>3, <2>4, TwoFill
  <2> QED BY <2>1, <2>2, <2>5
<1>16. CASE kind = "literal"
  <2>1. Values(p) = Mappings(<< <<Hole.value, <<ast[p].name>> >> >>)
    BY <1>16 DEF Values, Replacements
  <2>2. Filled[RuleType[kind]] = {Hole.value}
    BY <1>16 DEF Filled, RuleType
  <2>3. Fills(Mappings(<< <<Hole.value, <<ast[p].name>> >> >>), {Hole.value}, L)
    BY <1>3, OneFills
  <2> QED BY <2>1, <2>2, <2>3
<1>17. CASE kind = "block"
  <2>1. Values(p) =
          Mappings(<< <<Hole.body, Parts(p, 1, ast[p].arity, <<>>, <<NewLine>>)>> >>)
    BY <1>17 DEF Values, Replacements
  <2>2. Filled[RuleType[kind]] = {Hole.body}
    BY <1>17 DEF Filled, RuleType
  <2>3. IsText(Parts(p, 1, ast[p].arity, <<>>, <<NewLine>>), L)
    BY <1>7, <1>17
  <2>4. Fills(Mappings(<< <<Hole.body, Parts(p, 1, ast[p].arity, <<>>, <<NewLine>>)>> >>), {Hole.body}, L)
    BY <2>3, OneFills
  <2> QED BY <2>1, <2>2, <2>4
<1>18. CASE kind = "return"
  <2>1. Values(p) = Mappings(<< <<Hole.value, Part(p, 1)>> >>)
    BY <1>18 DEF Values, Replacements
  <2>2. Filled[RuleType[kind]] = {Hole.value}
    BY <1>18 DEF Filled, RuleType
  <2>3. Fills(Mappings(<< <<Hole.value, Part(p, 1)>> >>), {Hole.value}, L)
    BY <1>6, <1>18, OneFills
  <2> QED BY <2>1, <2>2, <2>3
<1>19. CASE kind = "if"
  <2>1. Values(p) =
          Mappings(<< <<Hole.condition, Part(p, 1)>>, <<Hole.thenBranch, Part(p, 2)>>,
                      <<Hole.elseBranch, Part(p, 3)>> >>)
    BY <1>19 DEF Values, Replacements
  <2>2. Filled[RuleType[kind]] = {Hole.condition, Hole.thenBranch, Hole.elseBranch}
    BY <1>19 DEF Filled, RuleType
  <2>3. IsText(Part(p, 1), L)
    BY <1>6, <1>19
  <2>4. IsText(Part(p, 2), L)
    BY <1>6, <1>19
  <2>5. IsText(Part(p, 3), L)
    BY <1>6, <1>19
  <2>6. Fills(Mappings(<< <<Hole.condition, Part(p, 1)>>, <<Hole.thenBranch, Part(p, 2)>>,
                        <<Hole.elseBranch, Part(p, 3)>> >>), {Hole.condition, Hole.thenBranch, Hole.elseBranch}, L)
    BY <2>3, <2>4, <2>5, ThreeFill
  <2> QED BY <2>1, <2>2, <2>6
<1>20. CASE kind = "while"
  <2>1. Values(p) = Mappings(<< <<Hole.condition, Part(p, 1)>>, <<Hole.body, Part(p, 2)>> >>)
    BY <1>20 DEF Values, Replacements
  <2>2. Filled[RuleType[kind]] = {Hole.condition, Hole.body}
    BY <1>20 DEF Filled, RuleType
  <2>3. Fills(Mappings(<< <<Hole.condition, Part(p, 1)>>, <<Hole.body, Part(p, 2)>> >>), {Hole.condition, Hole.body}, L)
    BY <1>6, <1>20, TwoFill
  <2> QED BY <2>1, <2>2, <2>3
<1>21. CASE kind = "for"
  <2>1. Values(p) =
          Mappings(<< <<Hole.init, Part(p, 1)>>, <<Hole.condition, Part(p, 2)>>,
                      <<Hole.increment, Part(p, 3)>>, <<Hole.body, Part(p, 4)>> >>)
    BY <1>21 DEF Values, Replacements
  <2>2. Filled[RuleType[kind]] = {Hole.init, Hole.condition, Hole.increment, Hole.body}
    BY <1>21 DEF Filled, RuleType
  <2>3. IsText(Part(p, 1), L)
    BY <1>6, <1>21
  <2>4. IsText(Part(p, 2), L)
    BY <1>6, <1>21
  <2>5. IsText(Part(p, 3), L)
    BY <1>6, <1>21
  <2>6. IsText(Part(p, 4), L)
    BY <1>6, <1>21
  <2>7. Fills(Mappings(<< <<Hole.init, Part(p, 1)>>, <<Hole.condition, Part(p, 2)>>,
                        <<Hole.increment, Part(p, 3)>>, <<Hole.body, Part(p, 4)>> >>), {Hole.init, Hole.condition, Hole.increment, Hole.body}, L)
    BY <2>3, <2>4, <2>5, <2>6, FourFill
  <2> QED BY <2>1, <2>2, <2>7
<1>22. DOMAIN RuleType =
         {"program", "function", "declaration", "assignment", "binary", "unary", "call",
          "literal", "block", "return", "if", "while", "for"}
  BY DEF RuleType
<1> QED BY <1>9, <1>10, <1>11, <1>12, <1>13, <1>14, <1>15, <1>16, <1>17, <1>18, <1>19,
           <1>20, <1>21, <1>22

-----------------------------------------------------------------------------
(* The placeholders of a rule file *)

\* The header of the last section for a type.
LEMMA SectionStarts ==
  ASSUME NEW type \in {File[n].type : n \in {m \in DOMAIN File : File[m].kind = "header"}}
  PROVE  \E h \in DOMAIN File :
           /\ File[h].kind = "header" /\ File[h].type = type
           /\ LastSection(type) = {n \in DOMAIN File :
                                     /\ n > h
                                     /\ \A m \in DOMAIN File :
                                          File[m].kind = "header" => m <= h \/ m > n}
<1> DEFINE headers == {n \in DOMAIN File : File[n].kind = "header"}
           Last1(n) == File[n].type = type /\ \A m \in headers : File[m].type = type => m <= n
           start == CHOOSE n \in headers : Last1(n)
<1>1. start \in headers /\ Last1(start)
  <2> DEFINE T == {n \in headers : File[n].type = type}
  <2>1. T # {}
    OBVIOUS
  <2>2. T \subseteq 0 .. Len(File) /\ Len(File) \in Nat
    <3>1. DOMAIN File = 1 .. Len(File) /\ Len(File) \in Nat
      BY FileIsASequence
    <3>2. T \subseteq DOMAIN File
      OBVIOUS
    <3> HIDE DEF T
    <3> QED BY <3>1, <3>2
  <2>3. PICK h \in T : \A m \in T : m <= h
    <3> HIDE DEF T
    <3> QED BY <2>1, <2>2, GreatestNumber
  <2>4. \E n \in headers : Last1(n)
    BY <2>3
  <2> HIDE DEF headers, Last1
  <2> QED BY <2>4
<1>2. LastSection(type) = {n \in DOMAIN File : n > start /\ \A m \in headers : m <= start \/ m > n}
  BY DEF LastSection
<1> HIDE DEF start
<1>3. start \in DOMAIN File /\ File[start].kind = "header" /\ File[start].type = type
  BY <1>1
<1>4. LastSection(type) = {n \in DOMAIN File :
                             /\ n > start
                             /\ \A m \in DOMAIN File :
                                  File[m].kind = "header" => m <= start \/ m > n}
  BY <1>2
<1> HIDE DEF headers, Last1
<1> QED BY <1>3, <1>4

LEMMA ValueIsOfLine ==
  ASSUME NEW type \in {File[n].type : n \in {m \in DOMAIN File : File[m].kind = "header"}},
         NEW key
  PROVE  \/ Value(type, key) = <<>>
         \/ \E n \in LastSection(type) :
              /\ File[n].kind = "entry" /\ File[n].hasValue /\ Begins(File[n], 8, key)
              /\ Value(type, key) = File[n].value
<1> DEFINE at == {n \in LastSection(type) : /\ File[n].kind = "entry"
                                            /\ Begins(File[n], 8, key) /\ File[n].hasValue}
           last == CHOOSE n \in at : \A m \in at : m <= n
<1>1. CASE at = {}
  BY <1>1 DEF Value
<1>2. CASE at # {}
  <2>1. at \subseteq 0 .. Len(File) /\ Len(File) \in Nat
    <3>1. DOMAIN File = 1 .. Len(File) /\ Len(File) \in Nat
      BY FileIsASequence
    <3>2. LastSection(type) \subseteq DOMAIN File
      BY DEF LastSection
    <3>3. at \subseteq LastSection(type)
      OBVIOUS
    <3> HIDE DEF at
    <3> QED BY <3>1, <3>2, <3>3
  <2>2. \E n \in at : \A m \in at : m <= n
    <3> HIDE DEF at
    <3> QED BY <1>2, <2>1, GreatestNumber
  <2>3. last \in at
    <3> HIDE DEF at
    <3> QED BY <2>2
  <2>4. Value(type, key) = File[last].value
    BY <1>2 DEF Value
  <2> HIDE DEF last
  <2> QED BY <2>3, <2>4
<1> QED BY <1>1, <1>2

\* The template of a rule has no placeholders that its handler does not fill.
LEMMA TemplateOfRule ==
  ASSUME ReadInv, reading = "loaded", Generator = "generic", NEW type \in DOMAIN rules
  PROVE  /\ rules[type].template \in Texts(Range(rules[type].template))
         /\ type \in DOMAIN Filled =>
              Range(rules[type].template) \cap Placeholder \subseteq Filled[type]
<1> DEFINE template == rules[type].template
<1>1. /\ type \in {File[n].type : n \in {m \in DOMAIN File : File[m].kind = "header"}}
      /\ template = Value(type, "template")
  BY DEF ReadInv, RulesAreTheSections, Generator
<1> HIDE DEF template
<1>2. language \in DOMAIN RuleFiles /\ File = RuleFiles[language]
  <2>1. DOMAIN File # {}
    BY <1>1
  <2> QED BY <2>1 DEF File
<1>3. CASE template = <<>>
  <2>1. Range(template) = {} /\ template \in Seq({})
    BY <1>3, EmptySeq DEF Range
  <2> QED BY <2>1 DEF Texts, template
<1>4. CASE template # <<>>
  <2>1. PICK n \in LastSection(type) :
          /\ File[n].kind = "entry" /\ File[n].hasValue /\ Begins(File[n], 8, "template")
          /\ template = File[n].value
    BY <1>1, <1>4, ValueIsOfLine
  <2>2. PICK h \in DOMAIN File :
          /\ File[h].kind = "header" /\ File[h].type = type
          /\ LastSection(type) = {i \in DOMAIN File :
                                    /\ i > h
                                    /\ \A m \in DOMAIN File :
                                         File[m].kind = "header" => m <= h \/ m > i}
    BY <1>1, SectionStarts
  <2>3. DOMAIN File = 1 .. Len(File) /\ Len(File) \in Nat
    BY FileIsASequence
  <2>4. n \in DOMAIN File /\ h \in 1 .. n - 1
    BY <2>2, <2>3
  <2>5. \A m \in h + 1 .. n : File[m].kind # "header"
    BY <2>2, <2>3, <2>4
  <2>6. /\ template \in Seq(Range(template))
        /\ type \in DOMAIN Filled => Range(template) \cap Placeholder \subseteq Filled[type]
    BY <1>2, <2>1, <2>2, <2>4, <2>5, TemplatesAssumption
  <2> QED BY <2>6 DEF Texts, template
<1> QED BY <1>3, <1>4

\* The mappings of the rules that have been read, and of the section that is.
MappingsInv ==
  /\ \E k \in Nat : DOMAIN currentMappings = 1 .. k
  /\ \A n \in DOMAIN currentMappings : currentMappings[n][2] \notin Placeholder
  /\ \A n \in DOMAIN parsed : NoHoles(parsed[n].mappings)
  /\ RulesInv

LEMMA MappingsInit ==
  ASSUME FileInit
  PROVE  MappingsInv
<1>1. DOMAIN <<>> = 1 .. 0 /\ \A n \in DOMAIN <<>> : FALSE
  OBVIOUS
<1>2. DOMAIN NoRules = {}
  BY DEF NoRules
<1> QED BY <1>1, <1>2 DEF FileInit, MappingsInv, RulesInv

LEMMA SavedMappings ==
  ASSUME ReadInv, MappingsInv
  PROVE  \A n \in DOMAIN Saved : NoHoles(Saved[n].mappings)
<1> DEFINE rule == [nodeType |-> currentType, template |-> currentTemplate,
                    mappings |-> Mappings(currentMappings)]
<1>1. CASE currentType = ""
  BY <1>1 DEF Saved, MappingsInv
<1>2. CASE currentType # ""
  <2>1. Saved = Append(parsed, rule)
    BY <1>2 DEF Saved
  <2>2. NoHoles(rule.mappings)
    <3>1. PICK k \in Nat : DOMAIN currentMappings = 1 .. k
      BY DEF MappingsInv
    <3>2. \A key \in DOMAIN Mappings(currentMappings) :
            HasValue(currentMappings, k, key, Mappings(currentMappings)[key])
      BY <3>1, MappingsOfPairs
    <3>3. NoHoles(Mappings(currentMappings))
      BY <3>1, <3>2 DEF HasValue, NoHoles, MappingsInv
    <3> QED BY <3>3
  <2> HIDE DEF rule
  <2>3. IsList(parsed)
    BY DEF ReadInv
  <2>4. /\ IsList(Saved) /\ Len(parsed) \in Nat /\ Len(Saved) = Len(parsed) + 1
        /\ \A i \in 1 .. Len(parsed) : Saved[i] = parsed[i]
        /\ Saved[Len(parsed) + 1] = rule
    BY <2>1, <2>3, AppendToList
  <2>5. DOMAIN Saved = 1 .. Len(Saved) /\ DOMAIN parsed = 1 .. Len(parsed)
    BY <2>3, <2>4, LenProperties DEF IsList
  <2>6. \A n \in DOMAIN Saved : n \in DOMAIN parsed \/ n = Len(parsed) + 1
    BY <2>4, <2>5
  <2> QED BY <2>2, <2>4, <2>5, <2>6 DEF MappingsInv
<1> QED BY <1>1, <1>2

LEMMA MappingsNext ==
  ASSUME ReadInv, MappingsInv, [Next]_vars
  PROVE  MappingsInv'
<1>1. CASE CreateGenerator \/ SkipLine
  BY <1>1 DEF CreateGenerator, SkipLine, MappingsInv, RulesInv
<1>2. CASE Header
  <2>1. parsed' = Saved /\ rules' = rules /\ currentMappings' = <<>>
    BY <1>2 DEF Header
  <2>2. DOMAIN <<>> = 1 .. 0 /\ \A n \in DOMAIN <<>> : FALSE
    OBVIOUS
  <2>3. \A n \in DOMAIN Saved : NoHoles(Saved[n].mappings)
    BY SavedMappings
  <2> QED BY <2>1, <2>2, <2>3 DEF MappingsInv, RulesInv
<1>3. CASE Entry
  <2> DEFINE line == Head(lines)
             maps == /\ ~Begins(line, 8, "template")
                     /\ Begins(line, 7, "mappings") /\ line.hasValue
  <2>1. /\ Line("entry") /\ UNCHANGED <<parsed, rules>>
        /\ currentMappings' = IF maps THEN line.value ELSE currentMappings
    BY <1>3 DEF Entry
  <2>2. reading = "lines" /\ lines # <<>> /\ line.kind = "entry"
    BY <2>1 DEF Line
  <2>3. language \in DOMAIN RuleFiles /\ File = RuleFiles[language]
    BY <2>2 DEF ReadInv, File
  <2>4. PICK k \in 0 .. Len(File) : ReadTo(k)
    BY <2>2 DEF ReadInv
  <2>5. k + 1 \in DOMAIN File /\ line = File[k + 1]
    BY <2>2, <2>4, NextLine, FileIsASequence DEF ReadTo
  <2> HIDE DEF line
  <2>6. ASSUME maps
        PROVE  /\ \E i \in Nat : DOMAIN line.value = 1 .. i
               /\ \A n \in DOMAIN line.value : line.value[n][2] \notin Placeholder
    <3>1. /\ line.value \in Seq(Range(line.value))
          /\ \A pair \in Range(line.value) : pair[2] \notin Placeholder
      BY <2>2, <2>3, <2>5, <2>6, TemplatesAssumption
    <3>2. DOMAIN line.value = 1 .. Len(line.value) /\ Len(line.value) \in Nat
      BY <3>1, LenProperties
    <3>3. \A n \in DOMAIN line.value : line.value[n] \in Range(line.value)
      BY DEF Range
    <3> QED BY <3>1, <3>2, <3>3
  <2>7. CASE maps
    <3>1. currentMappings' = line.value /\ parsed' = parsed /\ rules' = rules
      BY <2>1, <2>7
    <3> QED BY <2>6, <2>7, <3>1 DEF MappingsInv, RulesInv
  <2>8. CASE ~maps
    <3>1. currentMappings' = currentMappings /\ parsed' = parsed /\ rules' = rules
      BY <2>1, <2>8
    <3> QED BY <3>1 DEF MappingsInv, RulesInv
  <2> QED BY <2>7, <2>8
<1>4. CASE LoadRules
  <2>1. parsed' = Saved /\ rules' = Loaded(Saved) /\ currentMappings' = currentMappings
    BY <1>4 DEF LoadRules
  <2>2. \A n \in DOMAIN Saved : NoHoles(Saved[n].mappings)
    BY SavedMappings
  <2>3. IsList(Saved)
    <3>1. PICK k \in 0 .. Len(File) : ReadTo(k)
      BY <1>4 DEF LoadRules, ReadInv
    <3> QED BY <3>1, SavedLists DEF ReadInv
  <2>4. \A type \in DOMAIN Loaded(Saved) :
          \E n \in DOMAIN Saved : Loaded(Saved)[type] = Saved[n]
    BY <2>3, LoadedRules
  <2>5. \A type \in DOMAIN rules' : NoHoles(rules'[type].mappings)
    BY <2>1, <2>2, <2>4
  <2> QED BY <2>1, <2>2, <2>5 DEF MappingsInv, RulesInv
<1>5. CASE Generate \/ JavaGenerate \/ PythonGenerate
  <2>1. PICK p : Emits(p)
    BY <1>5, Generating
  <2> QED BY <2>1 DEF Emits, fileVars, MappingsInv, RulesInv
<1>6. CASE UNCHANGED vars
  BY <1>6 DEF vars, fileVars, MappingsInv, RulesInv
<1> QED BY <1>1, <1>2, <1>3, <1>4, <1>5, <1>6 DEF Next, Terminated, ReadRules, FileNext

-----------------------------------------------------------------------------
(* What is printed by a rule *)

LEMMA FilledHoles ==
  ASSUME NEW kind \in DOMAIN RuleType
  PROVE  RuleType[kind] \in DOMAIN Filled /\ Filled[RuleType[kind]] \subseteq Placeholder
<1>1. DOMAIN Hole =
        {"prologue", "epilogue", "body", "name", "returnType", "params", "type",
         "initValue", "variable", "value", "left", "right", "operator", "operand",
         "callee", "args", "condition", "thenBranch", "elseBranch", "init", "increment"}
  BY Zenon DEF Hole
<1>2. /\ {Hole.prologue, Hole.epilogue, Hole.body, Hole.name, Hole.returnType} \subseteq Placeholder
      /\ {Hole.params, Hole.type, Hole.initValue, Hole.variable} \subseteq Placeholder
      /\ {Hole.value, Hole.left, Hole.right, Hole.operator, Hole.operand} \subseteq Placeholder
      /\ {Hole.callee, Hole.args, Hole.condition, Hole.thenBranch} \subseteq Placeholder
      /\ {Hole.elseBranch, Hole.init, Hole.increment} \subseteq Placeholder
  BY <1>1 DEF Placeholder
<1>3. \A type \in DOMAIN Filled : Filled[type] \subseteq Placeholder
  BY <1>2 DEF Filled
<1>4. RuleType[kind] \in DOMAIN Filled
  BY DEF RuleType, Filled
<1> QED BY <1>3, <1>4

\* The template of a rule with all the placeholders replaced at once.
AllAtOnce(p, type) ==
  FlattenSeq([n \in DOMAIN rules[type].template |->
    LET piece == rules[type].template[n] IN
    IF piece \in DOMAIN Values(p) THEN Values(p)[piece] ELSE <<piece>>])

IsPrintOf(p, pieces) ==
  /\ IsText(pieces, LiteralsOf(p))
  /\ ast[p].kind \in DOMAIN RuleType =>
       (RuleType[ast[p].kind] \in DOMAIN rules /\ LiteralsOf(p) \cap DOMAIN Values(p) = {} =>
          pieces = AllAtOnce(p, RuleType[ast[p].kind]))

LEMMA PutIsAllAtOnce ==
  ASSUME NEW p, NEW type, NEW S, Range(rules[type].template) \subseteq S
  PROVE  Put(rules[type].template, Filler(S, Values(p), DOMAIN Values(p))) = AllAtOnce(p, type)
<1> DEFINE template == rules[type].template
           values == Values(p)
           g == Filler(S, values, DOMAIN values)
<1>1. \A n \in DOMAIN template : template[n] \in S
  BY DEF Range
<1>2. \A n \in DOMAIN template :
        g[template[n]] = IF template[n] \in DOMAIN values THEN values[template[n]]
                         ELSE <<template[n]>>
  BY <1>1 DEF Filler, One
<1> HIDE DEF template, values, g
<1>3. [n \in DOMAIN template |-> g[template[n]]] =
        [n \in DOMAIN template |->
           IF template[n] \in DOMAIN values THEN values[template[n]] ELSE <<template[n]>>]
  BY <1>2
<1>4. Put(template, g) =
        FlattenSeq([n \in DOMAIN template |->
           IF template[n] \in DOMAIN values THEN values[template[n]] ELSE <<template[n]>>])
  BY <1>3 DEF Put
<1> QED BY <1>4 DEF AllAtOnce, template, values, g

LEMMA RulePrints ==
  ASSUME ReadInv, reading = "loaded", NEW p, Ready(p), ast[p].kind \in DOMAIN RuleType,
         NEW default, IsText(default, LiteralsOf(p)),
         NEW pieces \in ByRule(RuleType[ast[p].kind], p, default)
  PROVE  IsPrintOf(p, pieces)
<1> DEFINE type == RuleType[ast[p].kind]
           L == LiteralsOf(p)
           D == DOMAIN Values(p)
           template == rules[type].template
           S == Range(template)
           V == UNION {Range(Values(p)[x]) : x \in D}
<1>1. CASE type \notin DOMAIN rules
  BY <1>1 DEF ByRule, IsPrintOf
<1>2. CASE type \in DOMAIN rules
  <2>1. pieces \in ApplyTemplate(template, Values(p))
    BY <1>2 DEF ByRule
  <2>2. type \in DOMAIN Filled /\ Filled[type] \subseteq Placeholder
    BY FilledHoles
  <2>3. template \in Texts(S) /\ S \cap Placeholder \subseteq Filled[type]
    <3>1. Generator = "generic"
      BY DEF Ready
    <3> HIDE DEF type
    <3> QED BY <1>2, <2>2, <3>1, TemplateOfRule
  <2>4. D = Filled[type] /\ IsFiniteSet(D) /\ \A x \in D : IsText(Values(p)[x], L)
    BY ValuesFill DEF Fills
  <2>5. V \cap Placeholder \subseteq L
    BY <2>4 DEF IsText
  <2>6. \A x \in D : Values(p)[x] \in Texts(V)
    BY <2>4, TextIn
  <2>7. /\ pieces \in Texts((S \ D) \cup V)
        /\ V \cap D = {} => pieces = Put(template, Filler(S \cup V, Values(p), D))
    <3> HIDE DEF template, V, S
    <3> QED BY <2>1, <2>3, <2>4, <2>6, TemplateIsApplied
  <2>8. IsText(pieces, L)
    <3>1. ((S \ D) \cup V) \cap Placeholder \subseteq L
      <4> HIDE DEF S, V, D
      <4> QED BY <2>3, <2>4, <2>5
    <3> HIDE DEF S, V, D
    <3> QED BY <2>7, <3>1, TextIf
  <2>9. ASSUME L \cap D = {}
         PROVE  pieces = AllAtOnce(p, type)
    <3>1. V \cap D = {}
      <4> HIDE DEF S, V, D, L
      <4> QED BY <2>2, <2>4, <2>5, <2>9
    <3>2. Put(template, Filler(S \cup V, Values(p), D)) = AllAtOnce(p, type)
      <4>1. Range(rules[type].template) \subseteq S \cup V
        OBVIOUS
      <4> HIDE DEF V
      <4> QED BY <4>1, PutIsAllAtOnce
    <3> QED BY <2>7, <3>1, <3>2
  <2> QED BY <2>8, <2>9 DEF IsPrintOf
<1> QED BY <1>1, <1>2

-----------------------------------------------------------------------------
(* What is printed by default *)

\* What is known while nodes are printed.
PrintInv ==
  /\ GeneratorInv /\ MappingsInv /\ ast \in Programs
  /\ \A p \in DOMAIN text : \A q \in Printed : Precedes(q, p) => q \in DOMAIN text
  /\ Generator = "generic" => \A p \in DOMAIN text : IsText(text[p], LiteralsOf(p))
  /\ SubstitutionIsSimultaneous

EmitsPrint(p) == Emits(p) /\ Ready(p) /\ IsPrintOf(p, text'[p])

LEMMA DueIsReady ==
  ASSUME PrintInv, Generator = "generic", NEW kind, NEW p \in Due(kind)
  PROVE  /\ Ready(p) /\ ast[p].kind = kind /\ p \in DOMAIN ast
         /\ reading = "loaded" /\ ReadInv
BY DEF PrintInv, GeneratorInv, MappingsInv, Due, Ready, Printed

LEMMA EmitsByRule ==
  ASSUME PrintInv, Generator = "generic", NEW kind \in DOMAIN RuleType, NEW p \in Due(kind),
         NEW type, type = RuleType[kind], NEW default, IsText(default, LiteralsOf(p)),
         Emit(p, ByRule(type, p, default))
  PROVE  EmitsPrint(p)
<1>1. Ready(p) /\ ast[p].kind = kind /\ reading = "loaded" /\ ReadInv
  BY DueIsReady
<1>2. PICK pieces \in ByRule(type, p, default) :
        text' = [q \in DOMAIN text \cup {p} |-> IF q = p THEN pieces ELSE text[q]]
  BY DEF Emit
<1>3. text'[p] = pieces
  BY <1>2
<1>4. IsPrintOf(p, pieces)
  BY <1>1, <1>2, RulePrints
<1>5. Emits(p)
  BY DueEmits
<1> QED BY <1>1, <1>3, <1>4, <1>5 DEF EmitsPrint

\* Node types without a rule.
LEMMA EmitsAlways ==
  ASSUME PrintInv, Generator = "generic", NEW kind, kind \notin DOMAIN RuleType,
         NEW p \in Due(kind), NEW default, IsText(default, LiteralsOf(p)),
         Emit(p, {default})
  PROVE  EmitsPrint(p)
<1>1. Ready(p) /\ ast[p].kind = kind
  BY DueIsReady
<1>2. text' = [q \in DOMAIN text \cup {p} |-> IF q = p THEN default ELSE text[q]]
  BY DEF Emit
<1>3. text'[p] = default
  BY <1>2
<1>4. Emits(p)
  BY DueEmits
<1> QED BY <1>1, <1>3, <1>4 DEF EmitsPrint, IsPrintOf

\* The pieces that the default formats are made of.
LEMMA DefaultPieces ==
  ASSUME NEW p, Ready(p), ast[p].kind # "literal"
  PROVE  LET L == LiteralsOf(p) IN
         /\ \A x \in FixedPiece : IsText(<<x>>, L)
         /\ \A x, y \in FixedPiece : IsText(<<x, y>>, L)
         /\ \A x, y, z \in FixedPiece : IsText(<<x, y, z>>, L)
         /\ IsText(<<>>, L)
         /\ IsText(<<ast[p].name>>, L)
         /\ \A x \in FixedPiece : IsText(<<x, ast[p].name>>, L) /\ IsText(<<ast[p].name, x>>, L)
         /\ \A x, y \in FixedPiece : IsText(<<x, ast[p].name, y>>, L)
         /\ \A x, y, z \in FixedPiece : IsText(<<ast[p].name, x, y, z>>, L)
         /\ \A use : IsText(Type(use, ast[p].type), L)
<1> DEFINE L == LiteralsOf(p)
<1>1. \A x \in FixedPiece : x \notin Placeholder
  BY FixedPieces
<1>2. ast[p].name \notin Placeholder /\ ast[p].type \notin Placeholder
  BY Nodes DEF Ready, Printed
<1> HIDE DEF L
<1>3. \A x \in FixedPiece : IsText(<<x>>, L)
  BY <1>1, TextOne
<1>4. \A x, y \in FixedPiece : IsText(<<x, y>>, L)
  BY <1>1, TextTwo
<1>5. \A x, y, z \in FixedPiece : IsText(<<x, y, z>>, L)
  BY <1>1, TextThree
<1>6. IsText(<<>>, L) /\ IsText(<<ast[p].name>>, L)
  BY <1>2, TextEmpty, TextOne
<1>7. \A x \in FixedPiece : IsText(<<x, ast[p].name>>, L) /\ IsText(<<ast[p].name, x>>, L)
  BY <1>1, <1>2, TextTwo
<1>8. \A x, y \in FixedPiece : IsText(<<x, ast[p].name, y>>, L)
  BY <1>1, <1>2, TextThree
<1>9. \A x, y, z \in FixedPiece : IsText(<<ast[p].name, x, y, z>>, L)
  BY <1>1, <1>2, TextFour
<1>10. \A use : IsText(Type(use, ast[p].type), L)
  BY <1>2, TypeIsText DEF Ready
<1> QED BY <1>3, <1>4, <1>5, <1>6, <1>7, <1>8, <1>9, <1>10 DEF L

LEMMA PartsOfDefault ==
  ASSUME NEW p, Ready(p), ast[p].kind # "function"
  PROVE  LET L == LiteralsOf(p) IN
         /\ \A slot \in {1, 2, 3, 4} : IsText(Part(p, slot), L)
         /\ \A before \in {<<>>, <<Tab>>} :
              IsText(Parts(p, 1, ast[p].arity, before, <<NewLine>>), L)
         /\ IsText(Args(p), L)
<1>1. \A literals : /\ IsText(<<>>, literals) /\ IsText(<<Tab>>, literals)
                    /\ IsText(<<NewLine>>, literals)
  <2>1. Tab \notin Placeholder /\ NewLine \notin Placeholder
    BY FixedPieces DEF FixedPiece
  <2> QED BY <2>1, TextOne, TextEmpty
<1>2. \A before \in {<<>>, <<Tab>>} :
        IsText(Parts(p, 1, ast[p].arity, before, <<NewLine>>), LiteralsOf(p))
  <2>1. IsText(Parts(p, 1, ast[p].arity, <<>>, <<NewLine>>), LiteralsOf(p))
    BY <1>1, PartsIsText
  <2>2. IsText(Parts(p, 1, ast[p].arity, <<Tab>>, <<NewLine>>), LiteralsOf(p))
    BY <1>1, PartsIsText
  <2> QED BY <2>1, <2>2
<1>3. \A slot \in {1, 2, 3, 4} : IsText(Part(p, slot), LiteralsOf(p))
  <2>1. \A slot \in {1, 2, 3, 4} : IsSlot(p, slot)
    BY DEF IsSlot
  <2> QED BY <2>1, PartIsText
<1> QED BY <1>2, <1>3, ArgsIsText

-----------------------------------------------------------------------------
(* The generate functions *)

LEMMA FixedIn ==
  /\ NewLine \in FixedPiece /\ Space \in FixedPiece /\ Tab \in FixedPiece
  /\ "(" \in FixedPiece /\ ")" \in FixedPiece /\ "=" \in FixedPiece
  /\ ";" \in FixedPiece /\ "," \in FixedPiece /\ "return" \in FixedPiece
  /\ "if" \in FixedPiece /\ "else" \in FixedPiece /\ "while" \in FixedPiece
  /\ "for" \in FixedPiece
BY Zenon DEF FixedPiece

LEMMA ProgramPrints ==
  ASSUME PrintInv, Generator = "generic", GenerateProgram
  PROVE  \E p : EmitsPrint(p)
<1> DEFINE default(p) ==
             <<NewLine>> \o Parts(p, 1, ast[p].arity, <<>>, <<NewLine>>)
<1>1. PICK p \in Due("program") : Emit(p, ByRule("Program", p, default(p)))
  BY DEF GenerateProgram
<1>2. Ready(p) /\ ast[p].kind = "program"
  BY DueIsReady
<1>3. IsText(default(p), LiteralsOf(p))
  <2>1. IsText(<<NewLine>>, LiteralsOf(p))
    BY <1>2, DefaultPieces, FixedIn
  <2>2. IsText(Parts(p, 1, ast[p].arity, <<>>, <<NewLine>>), LiteralsOf(p))
    BY <1>2, PartsOfDefault
  <2> QED BY <2>1, <2>2, TextConcat
<1> HIDE DEF default
<1> QED BY <1>1, <1>3, EmitsByRule DEF RuleType

LEMMA VariableDeclarationPrints ==
  ASSUME PrintInv, Generator = "generic", GenerateVariableDeclaration
  PROVE  \E p : EmitsPrint(p)
<1> DEFINE default(p) ==
             Type("variable", ast[p].type) \o <<Space, ast[p].name>>
             \o (IF Has(p, 1) THEN <<Space, "=", Space>> \o Part(p, 1) ELSE <<>>) \o <<";">>
<1>1. PICK p \in Due("declaration") : Emit(p, ByRule("VariableDeclaration", p, default(p)))
  BY DEF GenerateVariableDeclaration
<1>2. Ready(p) /\ ast[p].kind = "declaration"
  BY DueIsReady
<1>3. IsText(default(p), LiteralsOf(p))
  <2>1. /\ IsText(Type("variable", ast[p].type), LiteralsOf(p))
        /\ IsText(<<Space, ast[p].name>>, LiteralsOf(p))
        /\ IsText(<<>>, LiteralsOf(p))
        /\ IsText(<<Space, "=", Space>>, LiteralsOf(p))
        /\ IsText(<<";">>, LiteralsOf(p))
    BY <1>2, DefaultPieces, FixedIn
  <2>2. IsText(Part(p, 1), LiteralsOf(p))
    BY <1>2, PartsOfDefault
  <2> QED BY <2>1, <2>2, TextConcat
<1> HIDE DEF default
<1> QED BY <1>1, <1>3, EmitsByRule DEF RuleType

LEMMA AssignmentPrints ==
  ASSUME PrintInv, Generator = "generic", GenerateAssignment
  PROVE  \E p : EmitsPrint(p)
<1> DEFINE default(p) ==
             <<ast[p].name, Space, "=", Space>> \o Part(p, 1) \o <<";">>
<1>1. PICK p \in Due("assignment") : Emit(p, ByRule("Assignment", p, default(p)))
  BY DEF GenerateAssignment
<1>2. Ready(p) /\ ast[p].kind = "assignment"
  BY DueIsReady
<1>3. IsText(default(p), LiteralsOf(p))
  <2>1. /\ IsText(<<ast[p].name, Space, "=", Space>>, LiteralsOf(p))
        /\ IsText(<<";">>, LiteralsOf(p))
    BY <1>2, DefaultPieces, FixedIn
  <2>2. IsText(Part(p, 1), LiteralsOf(p))
    BY <1>2, PartsOfDefault
  <2> QED BY <2>1, <2>2, TextConcat
<1> HIDE DEF default
<1> QED BY <1>1, <1>3, EmitsByRule DEF RuleType

LEMMA BinaryOperationPrints ==
  ASSUME PrintInv, Generator = "generic", GenerateBinaryOperation
  PROVE  \E p : EmitsPrint(p)
<1> DEFINE default(p) ==
             <<"(">> \o Part(p, 1) \o <<Space, ast[p].name, Space>> \o Part(p, 2) \o <<")">>
<1>1. PICK p \in Due("binary") : Emit(p, ByRule("BinaryOperation", p, default(p)))
  BY DEF GenerateBinaryOperation
<1>2. Ready(p) /\ ast[p].kind = "binary"
  BY DueIsReady
<1>3. IsText(default(p), LiteralsOf(p))
  <2>1. /\ IsText(<<"(">>, LiteralsOf(p))
        /\ IsText(<<Space, ast[p].name, Space>>, LiteralsOf(p))
        /\ IsText(<<")">>, LiteralsOf(p))
    BY <1>2, DefaultPieces, FixedIn
  <2>2. /\ IsText(Part(p, 1), LiteralsOf(p))
        /\ IsText(Part(p, 2), LiteralsOf(p))
    BY <1>2, PartsOfDefault
  <2> QED BY <2>1, <2>2, TextConcat
<1> HIDE DEF default
<1> QED BY <1>1, <1>3, EmitsByRule DEF RuleType

LEMMA UnaryOperationPrints ==
  ASSUME PrintInv, Generator = "generic", GenerateUnaryOperation
  PROVE  \E p : EmitsPrint(p)
<1> DEFINE default(p) ==
             <<ast[p].name, "(">> \o Part(p, 1) \o <<")">>
<1>1. PICK p \in Due("unary") : Emit(p, ByRule("UnaryOperation", p, default(p)))
  BY DEF GenerateUnaryOperation
<1>2. Ready(p) /\ ast[p].kind = "unary"
  BY DueIsReady
<1>3. IsText(default(p), LiteralsOf(p))
  <2>1. /\ IsText(<<ast[p].name, "(">>, LiteralsOf(p))
        /\ IsText(<<")">>, LiteralsOf(p))
    BY <1>2, DefaultPieces, FixedIn
  <2>2. IsText(Part(p, 1), LiteralsOf(p))
    BY <1>2, PartsOfDefault
  <2> QED BY <2>1, <2>2, TextConcat
<1> HIDE DEF default
<1> QED BY <1>1, <1>3, EmitsByRule DEF RuleType

LEMMA CallExpressionPrints ==
  ASSUME PrintInv, Generator = "generic", GenerateCallExpression
  PROVE  \E p : EmitsPrint(p)
<1> DEFINE default(p) ==
             Part(p, 1) \o <<"(">> \o Args(p) \o <<")">>
<1>1. PICK p \in Due("call") : Emit(p, ByRule("CallExpression", p, default(p)))
  BY DEF GenerateCallExpression
<1>2. Ready(p) /\ ast[p].kind = "call"
  BY DueIsReady
<1>3. IsText(default(p), LiteralsOf(p))
  <2>1. /\ IsText(<<"(">>, LiteralsOf(p))
        /\ IsText(<<")">>, LiteralsOf(p))
    BY <1>2, DefaultPieces, FixedIn
  <2>2. /\ IsText(Part(p, 1), LiteralsOf(p))
        /\ IsText(Args(p), LiteralsOf(p))
    BY <1>2, PartsOfDefault
  <2> QED BY <2>1, <2>2, TextConcat
<1> HIDE DEF default
<1> QED BY <1>1, <1>3, EmitsByRule DEF RuleType

LEMMA ReturnPrints ==
  ASSUME PrintInv, Generator = "generic", GenerateReturn
  PROVE  \E p : EmitsPrint(p)
<1> DEFINE default(p) ==
             <<"return">> \o (IF Has(p, 1) THEN <<Space>> \o Part(p, 1) ELSE <<>>) \o <<";">>
<1>1. PICK p \in Due("return") : Emit(p, ByRule("Return", p, default(p)))
  BY DEF GenerateReturn
<1>2. Ready(p) /\ ast[p].kind = "return"
  BY DueIsReady
<1>3. IsText(default(p), LiteralsOf(p))
  <2>1. /\ IsText(<<"return">>, LiteralsOf(p))
        /\ IsText(<<Space>>, LiteralsOf(p))
        /\ IsText(<<";">>, LiteralsOf(p))
        /\ IsText(<<>>, LiteralsOf(p))
    BY <1>2, DefaultPieces, FixedIn
  <2>2. IsText(Part(p, 1), LiteralsOf(p))
    BY <1>2, PartsOfDefault
  <2> QED BY <2>1, <2>2, TextConcat
<1> HIDE DEF default
<1> QED BY <1>1, <1>3, EmitsByRule DEF RuleType

LEMMA IfPrints ==
  ASSUME PrintInv, Generator = "generic", GenerateIf
  PROVE  \E p : EmitsPrint(p)
<1> DEFINE default(p) ==
             <<"if", Space, "(">> \o Part(p, 1) \o <<")", Space>> \o Part(p, 2)
             \o (IF Has(p, 3) THEN <<Space, "else", Space>> \o Part(p, 3) ELSE <<>>)
<1>1. PICK p \in Due("if") : Emit(p, ByRule("If", p, default(p)))
  BY DEF GenerateIf
<1>2. Ready(p) /\ ast[p].kind = "if"
  BY DueIsReady
<1>3. IsText(default(p), LiteralsOf(p))
  <2>1. /\ IsText(<<"if", Space, "(">>, LiteralsOf(p))
        /\ IsText(<<")", Space>>, LiteralsOf(p))
        /\ IsText(<<Space, "else", Space>>, LiteralsOf(p))
        /\ IsText(<<>>, LiteralsOf(p))
    BY <1>2, DefaultPieces, FixedIn
  <2>2. /\ IsText(Part(p, 1), LiteralsOf(p))
        /\ IsText(Part(p, 2), LiteralsOf(p))
        /\ IsText(Part(p, 3), LiteralsOf(p))
    BY <1>2, PartsOfDefault
  <2> QED BY <2>1, <2>2, TextConcat
<1> HIDE DEF default
<1> QED BY <1>1, <1>3, EmitsByRule DEF RuleType

LEMMA WhilePrints ==
  ASSUME PrintInv, Generator = "generic", GenerateWhile
  PROVE  \E p : EmitsPrint(p)
<1> DEFINE default(p) ==
             <<"while", Space, "(">> \o Part(p, 1) \o <<")", Space>> \o Part(p, 2)
<1>1. PICK p \in Due("while") : Emit(p, ByRule("While", p, default(p)))
  BY DEF GenerateWhile
<1>2. Ready(p) /\ ast[p].kind = "while"
  BY DueIsReady
<1>3. IsText(default(p), LiteralsOf(p))
  <2>1. /\ IsText(<<"while", Space, "(">>, LiteralsOf(p))
        /\ IsText(<<")", Space>>, LiteralsOf(p))
    BY <1>2, DefaultPieces, FixedIn
  <2>2. /\ IsText(Part(p, 1), LiteralsOf(p))
        /\ IsText(Part(p, 2), LiteralsOf(p))
    BY <1>2, PartsOfDefault
  <2> QED BY <2>1, <2>2, TextConcat
<1> HIDE DEF default
<1> QED BY <1>1, <1>3, EmitsByRule DEF RuleType

LEMMA FunctionPrints ==
  ASSUME PrintInv, Generator = "generic", GenerateFunction
  PROVE  \E p : EmitsPrint(p)
<1> DEFINE default(p) == Signature(p) \o <<NewLine>> \o Part(p, ast[p].arity)
<1>1. PICK p \in Due("function") : Emit(p, ByRule("Function", p, default(p)))
  BY DEF GenerateFunction
<1>2. Ready(p) /\ ast[p].kind = "function" /\ ast[p].arity \in Nat
  BY DueIsReady, Nodes DEF Ready
<1>3. IsText(default(p), LiteralsOf(p))
  <2>1. /\ IsText(Type("return", ast[p].type), LiteralsOf(p))
        /\ IsText(<<Space, ast[p].name, "(">>, LiteralsOf(p))
        /\ IsText(<<")">>, LiteralsOf(p)) /\ IsText(<<NewLine>>, LiteralsOf(p))
    BY <1>2, DefaultPieces, FixedIn
  <2>2. IsText(Params(p), LiteralsOf(p))
    BY <1>2, ParamsIsText
  <2>3. IsText(Part(p, ast[p].arity), LiteralsOf(p))
    BY <1>2, PartIsText DEF IsSlot
  <2>4. IsText(Signature(p), LiteralsOf(p))
    BY <2>1, <2>2, TextConcat DEF Signature
  <2> QED BY <2>1, <2>3, <2>4, TextConcat
<1> HIDE DEF default
<1> QED BY <1>1, <1>3, EmitsByRule DEF RuleType

LEMMA LiteralPrints ==
  ASSUME PrintInv, Generator = "generic", GenerateLiteral
  PROVE  \E p : EmitsPrint(p)
<1>1. PICK p \in Due("literal") : Emit(p, ByRule("Literal", p, <<ast[p].name>>))
  BY DEF GenerateLiteral
<1>2. Ready(p) /\ ast[p].kind = "literal" /\ p \in DOMAIN ast
  BY DueIsReady
<1>3. ast[p].name \in LiteralsOf(p)
  <2>1. p \in Seq(Nat) /\ Len(p) \in Nat
    BY <1>2, Nodes, LenProperties DEF Ready
  <2>2. SubSeq(p, 1, Len(p)) = p
    BY <2>1, SubSeqFull
  <2> QED BY <1>2, <2>1, <2>2 DEF LiteralsOf
<1>4. IsText(<<ast[p].name>>, LiteralsOf(p))
  BY <1>3, TextOne
<1> QED BY <1>1, <1>4, EmitsByRule DEF RuleType

LEMMA IdentifierPrints ==
  ASSUME PrintInv, Generator = "generic", GenerateIdentifier
  PROVE  \E p : EmitsPrint(p)
<1>1. PICK p \in Due("identifier") : Emit(p, {<<ast[p].name>>})
  BY DEF GenerateIdentifier
<1>2. Ready(p) /\ ast[p].kind = "identifier"
  BY DueIsReady
<1>3. IsText(<<ast[p].name>>, LiteralsOf(p))
  BY <1>2, DefaultPieces
<1>4. "identifier" \notin DOMAIN RuleType
  BY DEF RuleType
<1> QED BY <1>1, <1>3, <1>4, EmitsAlways

LEMMA ExpressionStatementPrints ==
  ASSUME PrintInv, Generator = "generic", GenerateExpressionStatement
  PROVE  \E p : EmitsPrint(p)
<1>1. PICK p \in Due("expression") : Emit(p, {Part(p, 1) \o <<";">>})
  BY DEF GenerateExpressionStatement
<1>2. Ready(p) /\ ast[p].kind = "expression"
  BY DueIsReady
<1>3. IsText(Part(p, 1) \o <<";">>, LiteralsOf(p))
  <2>1. IsText(<<";">>, LiteralsOf(p))
    BY <1>2, DefaultPieces, FixedIn
  <2>2. IsText(Part(p, 1), LiteralsOf(p))
    BY <1>2, PartsOfDefault
  <2> QED BY <2>1, <2>2, TextConcat
<1>4. "expression" \notin DOMAIN RuleType
  BY DEF RuleType
<1> QED BY <1>1, <1>3, <1>4, EmitsAlways

LEMMA BlockPrints ==
  ASSUME PrintInv, Generator = "generic", GenerateBlock
  PROVE  \E p : EmitsPrint(p)
<1> DEFINE default(p) == <<Space, "{", NewLine>>
                           \o Parts(p, 1, ast[p].arity, <<Tab>>, <<NewLine>>) \o <<"}">>
<1>1. PICK p \in Due("block") : Emit(p, ByRule("Block", p, default(p)))
  BY Zenon DEF GenerateBlock
<1>2. Ready(p) /\ ast[p].kind = "block"
  BY DueIsReady
<1>3. IsText(default(p), LiteralsOf(p))
  <2>1. "{" \in FixedPiece /\ "}" \in FixedPiece
    BY Zenon DEF FixedPiece
  <2>2. PICK open, close \in FixedPiece : open = "{" /\ close = "}"
    BY <2>1, Zenon
  <2>3. IsText(<<Space, open, NewLine>>, LiteralsOf(p)) /\ IsText(<<close>>, LiteralsOf(p))
    BY <1>2, DefaultPieces, FixedIn
  <2>4. IsText(Parts(p, 1, ast[p].arity, <<Tab>>, <<NewLine>>), LiteralsOf(p))
    BY <1>2, PartsOfDefault
  <2>5. IsText(<<Space, open, NewLine>> \o Parts(p, 1, ast[p].arity, <<Tab>>, <<NewLine>>)
                 \o <<close>>, LiteralsOf(p))
    BY <2>3, <2>4, TextConcat
  <2> QED BY <2>2, <2>5, Zenon
<1> HIDE DEF default
<1> QED BY <1>1, <1>3, EmitsByRule DEF RuleType

LEMMA ForPrints ==
  ASSUME PrintInv, Generator = "generic", GenerateFor
  PROVE  \E p : EmitsPrint(p)
<1> DEFINE default(p) == <<"for", Space, "(">> \o ForHeader(p, <<Space>>) \o Part(p, 3)
                           \o <<")", Space>> \o Part(p, 4)
<1>1. PICK p \in Due("for") : Emit(p, ByRule("For", p, default(p)))
  BY DEF GenerateFor
<1>2. Ready(p) /\ ast[p].kind = "for"
  BY DueIsReady
<1>3. IsText(default(p), LiteralsOf(p))
  <2>1. /\ IsText(<<"for", Space, "(">>, LiteralsOf(p)) /\ IsText(<<Space>>, LiteralsOf(p))
        /\ IsText(<<")", Space>>, LiteralsOf(p)) /\ IsText(<<";", Space>>, LiteralsOf(p))
    BY <1>2, DefaultPieces, FixedIn
  <2>2. \A slot \in {1, 2, 3, 4} : IsText(Part(p, slot), LiteralsOf(p))
    BY <1>2, PartsOfDefault
  <2>3. IsText(ForHeader(p, <<Space>>), LiteralsOf(p))
    <3>1. /\ IsText(Part(p, 1) \o <<Space>>, LiteralsOf(p))
          /\ IsText(Part(p, 2) \o <<Space>>, LiteralsOf(p))
      BY <2>1, <2>2, TextConcat
    <3>2. /\ IsText(IF Has(p, 1) THEN Part(p, 1) \o <<Space>> ELSE <<";", Space>>, LiteralsOf(p))
          /\ IsText(IF Has(p, 2) THEN Part(p, 2) \o <<Space>> ELSE <<";", Space>>, LiteralsOf(p))
      BY <2>1, <3>1
    <3> QED BY <3>2, TextConcat DEF ForHeader
  <2> QED BY <2>1, <2>2, <2>3, TextConcat
<1> HIDE DEF default
<1> QED BY <1>1, <1>3, EmitsByRule DEF RuleType

LEMMA GenericPrints ==
  ASSUME PrintInv, Generator = "generic", Generate
  PROVE  \E p : EmitsPrint(p)
BY ProgramPrints, FunctionPrints, VariableDeclarationPrints, AssignmentPrints,
   BinaryOperationPrints, UnaryOperationPrints, CallExpressionPrints, LiteralPrints,
   IdentifierPrints, BlockPrints, ReturnPrints, ExpressionStatementPrints, IfPrints,
   WhilePrints, ForPrints
   DEF Generate, SameInJava

-----------------------------------------------------------------------------
(* The texts of all nodes *)

\* What a node is printed from stays while other nodes are printed.
LEMMA ValuesStay ==
  ASSUME ast \in Programs, UNCHANGED <<ast, language, rules>>, NEW p \in Printed,
         \A q \in Printed : Precedes(q, p) => q \in DOMAIN text,
         DOMAIN text \subseteq DOMAIN text', \A q \in DOMAIN text : text'[q] = text[q],
         ast[p].kind \in DOMAIN RuleType
  PROVE  Values(p)' = Values(p)
<1>1. \A slot : IsSlot(p, slot) => Part(p, slot)' = Part(p, slot)
  <2>1. ASSUME NEW slot, IsSlot(p, slot), Has(p, slot)
        PROVE  text'[Append(p, slot)] = text[Append(p, slot)]
    <3>1. IsChild(p, slot)
      BY <2>1 DEF IsChild, IsSlot
    <3> QED BY <3>1, ChildIsPrinted
  <2> QED BY <2>1 DEF Part, Has
<1>2. \A use, type : Type(use, type)' = Type(use, type)
  BY DEF Type, MapType, Generator
<1>3. p \in DOMAIN ast /\ ast[p].arity \in Nat
  BY Nodes DEF Printed
<1>4. CASE ast[p].kind = "function"
  <2>1. Params(p)' = Params(p)
    BY <1>2 DEF Params
  <2>2. Part(p, ast[p].arity)' = Part(p, ast[p].arity)
    BY <1>1, <1>3, <1>4 DEF IsSlot
  <2>3. Replacements(p) =
          << <<Hole.name, <<ast[p].name>> >>, <<Hole.returnType, Type("return", ast[p].type)>>,
             <<Hole.params, Params(p)>>, <<Hole.body, Part(p, ast[p].arity)>> >>
    BY <1>4 DEF Replacements
  <2>4. Replacements(p)' = Replacements(p)
    BY <1>2, <1>4, <2>1, <2>2 DEF Replacements
  <2> QED BY <2>4 DEF Values
<1>5. CASE ast[p].kind # "function"
  <2>1. \A slot \in Nat : Part(p, slot)' = Part(p, slot)
    BY <1>1, <1>5 DEF IsSlot
  <2>2. Args(p)' = Args(p)
    <3>1. \A n \in 1 .. ast[p].arity - 1 : n + 1 \in Nat
      BY <1>3
    <3>2. [n \in 1 .. ast[p].arity - 1 |-> Part(p, n + 1)]'
            = [n \in 1 .. ast[p].arity - 1 |-> Part(p, n + 1)]
      BY <2>1, <3>1
    <3> QED BY <3>2 DEF Args
  <2>3. Parts(p, 1, ast[p].arity, <<>>, <<NewLine>>)'
          = Parts(p, 1, ast[p].arity, <<>>, <<NewLine>>)
    <3>1. \A n \in 1 .. ast[p].arity - 1 + 1 : 1 + n - 1 \in Nat
      BY <1>3
    <3>2. [n \in 1 .. ast[p].arity - 1 + 1 |-> <<>> \o Part(p, 1 + n - 1) \o <<NewLine>>]'
            = [n \in 1 .. ast[p].arity - 1 + 1 |-> <<>> \o Part(p, 1 + n - 1) \o <<NewLine>>]
      BY <2>1, <3>1
    <3> QED BY <3>2 DEF Parts
  <2>4. /\ Part(p, 1)' = Part(p, 1) /\ Part(p, 2)' = Part(p, 2)
        /\ Part(p, 3)' = Part(p, 3) /\ Part(p, 4)' = Part(p, 4)
    BY <2>1
  <2>5. ast'[p] = ast[p]
    OBVIOUS
  <2>6. CASE ast[p].kind = "program"
    BY <1>2, <2>2, <2>3, <2>4, <2>5, <2>6 DEF Replacements, Values
  <2>7. CASE ast[p].kind = "declaration"
    BY <1>2, <2>2, <2>3, <2>4, <2>5, <2>7 DEF Replacements, Values
  <2>8. CASE ast[p].kind = "assignment"
    BY <1>2, <2>2, <2>3, <2>4, <2>5, <2>8 DEF Replacements, Values
  <2>9. CASE ast[p].kind = "binary"
    BY <1>2, <2>2, <2>3, <2>4, <2>5, <2>9 DEF Replacements, Values
  <2>10. CASE ast[p].kind = "unary"
    BY <1>2, <2>2, <2>3, <2>4, <2>5, <2>10 DEF Replacements, Values
  <2>11. CASE ast[p].kind = "call"
    BY <1>2, <2>2, <2>3, <2>4, <2>5, <2>11 DEF Replacements, Values
  <2>12. CASE ast[p].kind = "literal"
    BY <1>2, <2>2, <2>3, <2>4, <2>5, <2>12 DEF Replacements, Values
  <2>13. CASE ast[p].kind = "block"
    BY <1>2, <2>2, <2>3, <2>4, <2>5, <2>13 DEF Replacements, Values
  <2>14. CASE ast[p].kind = "return"
    BY <1>2, <2>2, <2>3, <2>4, <2>5, <2>14 DEF Replacements, Values
  <2>15. CASE ast[p].kind = "if"
    BY <1>2, <2>2, <2>3, <2>4, <2>5, <2>15 DEF Replacements, Values
  <2>16. CASE ast[p].kind = "while"
    BY <1>2, <2>2, <2>3, <2>4, <2>5, <2>16 DEF Replacements, Values
  <2>17. CASE ast[p].kind = "for"
    BY <1>2, <2>2, <2>3, <2>4, <2>5, <2>17 DEF Replacements, Values
  <2> QED BY <1>5, <2>6, <2>7, <2>8, <2>9, <2>10, <2>11, <2>12, <2>13, <2>14, <2>15, <2>16, <2>17 DEF RuleType
<1> QED BY <1>4, <1>5
LEMMA AllAtOnceStays ==
  ASSUME ast \in Programs, UNCHANGED <<ast, language, rules>>, NEW p \in Printed,
         \A q \in Printed : Precedes(q, p) => q \in DOMAIN text,
         DOMAIN text \subseteq DOMAIN text', \A q \in DOMAIN text : text'[q] = text[q],
         ast[p].kind \in DOMAIN RuleType, NEW type
  PROVE  AllAtOnce(p, type)' = AllAtOnce(p, type)
<1>1. Values(p)' = Values(p)
  BY ValuesStay
<1> QED BY <1>1 DEF AllAtOnce

\* SubstitutionIsSimultaneous for one node.
IsSubstituted(p) ==
  LET type == RuleType[ast[p].kind] IN
  ast[p].kind \in DOMAIN RuleType /\ type \in DOMAIN rules
    /\ LiteralsOf(p) \cap DOMAIN Values(p) = {} => text[p] = AllAtOnce(p, type)

LEMMA SubstitutedNodes ==
  SubstitutionIsSimultaneous <=> \A p \in DOMAIN text : IsSubstituted(p)
BY DEF SubstitutionIsSimultaneous, IsSubstituted, AllAtOnce

\* A step that prints a node leaves what is known about the others.
LEMMA SubstitutedStays ==
  ASSUME PrintInv, NEW n, Emits(n), NEW p \in DOMAIN text
  PROVE  IsSubstituted(p)' /\ LiteralsOf(p)' = LiteralsOf(p)
<1>1. /\ UNCHANGED <<ast, language, rules>> /\ ast \in Programs
      /\ \A q \in DOMAIN text : text'[q] = text[q]
      /\ DOMAIN text \subseteq DOMAIN text'
  BY DEF Emits, fileVars, PrintInv
<1>2. p \in Printed /\ \A q \in Printed : Precedes(q, p) => q \in DOMAIN text
  BY DEF PrintInv, GeneratorInv, TypeOK
<1>3. LiteralsOf(p)' = LiteralsOf(p)
  BY <1>1 DEF LiteralsOf
<1>4. IsSubstituted(p)
  BY SubstitutedNodes DEF PrintInv
<1>5. CASE ast[p].kind \in DOMAIN RuleType
  <2>1. \A type : AllAtOnce(p, type)' = AllAtOnce(p, type)
    BY <1>1, <1>2, <1>5, AllAtOnceStays
  <2>2. Values(p)' = Values(p)
    BY <1>1, <1>2, <1>5, ValuesStay
  <2> QED BY <1>1, <1>3, <1>4, <2>1, <2>2 DEF IsSubstituted
<1>6. CASE ast[p].kind \notin DOMAIN RuleType
  BY <1>1, <1>3, <1>6 DEF IsSubstituted
<1> QED BY <1>5, <1>6

LEMMA PrintInit ==
  ASSUME Init
  PROVE  PrintInv
<1>1. text = <<>> /\ DOMAIN text = {} /\ ast \in Programs /\ FileInit
  BY DEF Init
<1>2. GeneratorInv /\ MappingsInv
  BY <1>1, ReadInit, TypeInit, MappingsInit DEF GeneratorInv
<1> QED BY <1>1, <1>2 DEF PrintInv, SubstitutionIsSimultaneous

\* Only a generic generator has rules to print by.
LEMMA PrintNext ==
  ASSUME PrintInv, [Next]_vars
  PROVE  PrintInv'
<1>1. GeneratorInv' /\ MappingsInv'
  BY TypeNext, MappingsNext DEF PrintInv, GeneratorInv
<1>2. CASE ReadRules
  <2>1. text = <<>> /\ UNCHANGED <<ast, text>>
    BY <1>2 DEF PrintInv, GeneratorInv, TypeOK, ReadRules, FileNext, CreateGenerator,
                SkipLine, Header, Entry, LoadRules, Line
  <2>2. DOMAIN text' = {} /\ ast' \in Programs
    BY <2>1 DEF PrintInv
  <2> QED BY <1>1, <2>2 DEF PrintInv, SubstitutionIsSimultaneous
<1>3. ASSUME NEW n, Emits(n),
             Generator = "generic" => EmitsPrint(n)
      PROVE  PrintInv'
  <2>1. /\ UNCHANGED <<ast, language, rules, reading>> /\ ast \in Programs /\ n \in Printed
        /\ \A q \in DOMAIN text : text'[q] = text[q]
        /\ DOMAIN text' = DOMAIN text \cup {n}
        /\ \A q \in Printed : Precedes(q, n) => q \in DOMAIN text
    BY <1>3 DEF Emits, fileVars, PrintInv
  <2>2. Printed' = Printed /\ Generator' = Generator
    BY <2>1 DEF Printed, Generator
  <2>3. \A p \in DOMAIN text : IsSubstituted(p)' /\ LiteralsOf(p)' = LiteralsOf(p)
    BY <1>3, SubstitutedStays
  <2>4. LiteralsOf(n)' = LiteralsOf(n)
    BY <2>1 DEF LiteralsOf
  <2>5. ASSUME Generator = "generic", NEW p \in DOMAIN text'
        PROVE  IsText(text'[p], LiteralsOf(p)')
    BY <1>3, <2>1, <2>3, <2>4, <2>5 DEF PrintInv, EmitsPrint, IsPrintOf
  <2>6. IsSubstituted(n)'
    <3>1. CASE Generator # "generic"
      <4>1. DOMAIN rules' = {}
        BY <2>1, <3>1 DEF PrintInv, GeneratorInv, ReadInv, NoRules
      <4> QED BY <4>1 DEF IsSubstituted
    <3>2. CASE Generator = "generic" /\ ast[n].kind \notin DOMAIN RuleType
      BY <2>1, <3>2 DEF IsSubstituted
    <3>3. CASE Generator = "generic" /\ ast[n].kind \in DOMAIN RuleType
      <4>1. \A type : AllAtOnce(n, type)' = AllAtOnce(n, type)
        BY <2>1, <3>3, AllAtOnceStays
      <4>2. Values(n)' = Values(n)
        BY <2>1, <3>3, ValuesStay
      <4> QED BY <1>3, <2>1, <2>4, <3>3, <4>1, <4>2 DEF IsSubstituted, EmitsPrint, IsPrintOf
    <3> QED BY <3>1, <3>2, <3>3
  <2>7. SubstitutionIsSimultaneous'
    <3>1. \A p \in DOMAIN text' : IsSubstituted(p)'
      BY <2>1, <2>3, <2>6
    <3> QED BY <3>1 DEF SubstitutionIsSimultaneous, IsSubstituted, AllAtOnce
  <2>8. \A p \in DOMAIN text' : \A q \in Printed' : Precedes(q, p) => q \in DOMAIN text'
    BY <2>1, <2>2 DEF PrintInv
  <2> QED BY <1>1, <2>1, <2>2, <2>5, <2>7, <2>8 DEF PrintInv
<1>4. CASE (Generate \/ JavaGenerate \/ PythonGenerate) /\ (Generator = "generic" => Generate)
  <2>1. CASE Generator = "generic"
    <3>1. PICK n : EmitsPrint(n)
      BY <1>4, <2>1, GenericPrints
    <3> QED BY <1>3, <3>1 DEF EmitsPrint
  <2>2. CASE Generator # "generic"
    <3>1. PICK n : Emits(n)
      BY <1>4, Generating
    <3> QED BY <1>3, <2>2, <3>1
  <2> QED BY <2>1, <2>2
<1>5. CASE UNCHANGED vars
  <2>1. UNCHANGED <<ast, text, language, rules, reading>> /\ ast \in Programs
    BY <1>5 DEF vars, fileVars, PrintInv
  <2>2. Printed' = Printed /\ Generator' = Generator
    BY <2>1 DEF Printed, Generator
  <2>3. \A p \in DOMAIN text : LiteralsOf(p)' = LiteralsOf(p)
    BY <2>1 DEF LiteralsOf
  <2>4. ASSUME NEW p \in DOMAIN text
        PROVE  IsSubstituted(p)'
    <3>1. IsSubstituted(p)
      BY SubstitutedNodes DEF PrintInv
    <3>2. CASE ast[p].kind \in DOMAIN RuleType
      <4>1. p \in Printed /\ \A q \in Printed : Precedes(q, p) => q \in DOMAIN text
        BY DEF PrintInv, GeneratorInv, TypeOK
      <4>2. \A type : AllAtOnce(p, type)' = AllAtOnce(p, type)
        BY <2>1, <3>2, <4>1, AllAtOnceStays
      <4>3. Values(p)' = Values(p)
        BY <2>1, <3>2, <4>1, ValuesStay
      <4> QED BY <2>1, <2>3, <3>1, <4>2, <4>3 DEF IsSubstituted
    <3>3. CASE ast[p].kind \notin DOMAIN RuleType
      BY <2>1, <3>3 DEF IsSubstituted
    <3> QED BY <3>2, <3>3
  <2>5. SubstitutionIsSimultaneous'
    <3>1. \A p \in DOMAIN text' : IsSubstituted(p)'
      BY <2>1, <2>4
    <3> QED BY <3>1 DEF SubstitutionIsSimultaneous, IsSubstituted, AllAtOnce
  <2>6. Generator' = "generic" => \A p \in DOMAIN text' : IsText(text'[p], LiteralsOf(p)')
    BY <2>1, <2>2, <2>3 DEF PrintInv
  <2>7. \A p \in DOMAIN text' : \A q \in Printed' : Precedes(q, p) => q \in DOMAIN text'
    BY <2>1, <2>2 DEF PrintInv
  <2> QED BY <1>1, <2>1, <2>5, <2>6, <2>7 DEF PrintInv
<1>6. CASE \/ Generator \in {"C", "C++", "generic"} /\ Generate
           \/ Generator = "Java" /\ JavaGenerate
           \/ Generator = "Python" /\ PythonGenerate
  BY <1>4, <1>6
<1>7. CASE Terminated
  BY <1>5, <1>7 DEF Terminated
<1>8. CASE Next
  BY <1>2, <1>6, <1>7, <1>8 DEF Next
<1> QED BY <1>5, <1>8

\* What a rule prints does not depend on the order in which the unordered_map
\* of GenericCodeGenerator::applyTemplate gives the placeholders: with no
\* placeholder in a literal it is the template with all of them replaced at once.
THEOREM SubstitutionIsRight == Spec => []SubstitutionIsSimultaneous
<1>1. Init => PrintInv
  BY PrintInit
<1>2. PrintInv /\ [Next]_vars => PrintInv'
  BY PrintNext
<1>3. PrintInv => SubstitutionIsSimultaneous
  BY DEF PrintInv
<1> QED BY <1>1, <1>2, <1>3, PTL DEF Spec
=============================================================================

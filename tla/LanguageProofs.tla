--------------------------- MODULE LanguageProofs ---------------------------
(***************************************************************************)
(* The theorem about LanguageProvider, for all contents of the files, and  *)
(* however they are edited and loaded.                                     *)
(***************************************************************************)
EXTENDS LanguageProvider, TLAPS

\* The map has the texts of the first k members: one for each number that is
\* kept, that of the last member with the number.
Gathered(table, members, k) ==
  /\ \A i \in 1 .. k : Kept(members[i]) => members[i].number \in DOMAIN table
  /\ DOMAIN table \subseteq 0 .. MaxCode
  /\ \A n \in DOMAIN table : \E i \in 1 .. k :
       /\ members[i].number = n
       /\ table[n] = members[i].text
       /\ \A j \in i + 1 .. k : members[j].number # n

Readable(members, k) == \A i \in 1 .. k : Kept(members[i]) => members[i].string

\* The table comes from the file as a whole.
ComesFrom(table, name) ==
  LET members == Contents[name].members
  IN  /\ name \in DOMAIN Contents
      /\ Contents[name].kind = "object"
      /\ Readable(members, Len(members))
      /\ Gathered(table, members, Len(members))

(***************************************************************************)
(* What the loop of save_errors() has done so far, and what its last       *)
(* statement has left for each language                                    *)
(***************************************************************************)
LoopInv ==
  saving =>
    /\ object \in obtained
    /\ object \in DOMAIN Contents
    /\ Contents[object].kind = "object"
    /\ position \in 0 .. Len(Contents[object].members)
    /\ Readable(Contents[object].members, position)
    /\ Gathered(map, Contents[object].members, position)

TablesInv ==
  \A language \in DOMAIN error_messages :
    \E name \in obtained : ComesFrom(error_messages[language], name)

LanguageInv ==
  /\ files \in [FileNames -> DOMAIN Contents]
  /\ LoopInv
  /\ TablesInv

LEMMA InitLanguageInv == LanguageInit => LanguageInv
<1> SUFFICES ASSUME LanguageInit PROVE LanguageInv
  OBVIOUS
<1>1. LoopInv
  BY DEF LanguageInit, LoopInv
<1>2. TablesInv
  <2>1. error_messages = <<>>
    BY DEF LanguageInit
  <2>2. DOMAIN error_messages = {}
    BY <2>1
  <2> QED  BY <2>2 DEF TablesInv
<1> QED  BY <1>1, <1>2 DEF LanguageInit, LanguageInv

\* A round of the loop gathers one member more.
LEMMA RoundGathers ==
  ASSUME NEW members \in Seq(MemberShape), NEW k \in Nat, k < Len(members),
         NEW table, Gathered(table, members, k), Readable(members, k),
         Kept(members[k + 1]) => members[k + 1].string,
         NEW next,
         next = IF Kept(members[k + 1])
                THEN Put(table, members[k + 1].number, members[k + 1].text)
                ELSE table
  PROVE  Gathered(next, members, k + 1) /\ Readable(members, k + 1)
<1> DEFINE m == members[k + 1]
<1>1. Readable(members, k + 1)
  BY DEF Readable
<1>2. CASE ~Kept(m)
  <2>1. next = table
    BY <1>2
  <2>2. ASSUME NEW i \in 1 .. k + 1, Kept(members[i])
        PROVE  members[i].number \in DOMAIN next
    BY <1>2, <2>1, <2>2 DEF Gathered
  <2>3. ASSUME NEW n \in DOMAIN next
        PROVE  \E i \in 1 .. k + 1 : /\ members[i].number = n
                                     /\ next[n] = members[i].text
                                     /\ \A j \in i + 1 .. k + 1 : members[j].number # n
    <3>1. n \in 0 .. MaxCode /\ next[n] = table[n]
      BY <2>1, <2>3 DEF Gathered
    <3>2. PICK i \in 1 .. k : /\ members[i].number = n
                              /\ table[n] = members[i].text
                              /\ \A j \in i + 1 .. k : members[j].number # n
      BY <2>1, <2>3 DEF Gathered
    <3>3. m.number # n
      BY <1>2, <3>1 DEF Kept
    <3>4. \A j \in i + 1 .. k + 1 : members[j].number # n
      BY <3>2, <3>3
    <3> QED  BY <3>1, <3>2, <3>4
  <2> QED  BY <1>1, <2>1, <2>2, <2>3 DEF Gathered
<1>3. CASE Kept(m)
  <2>1. /\ DOMAIN next = {m.number} \cup DOMAIN table
        /\ next[m.number] = m.text
        /\ \A n \in DOMAIN table \ {m.number} : next[n] = table[n]
    BY <1>3 DEF Put
  <2>2. ASSUME NEW i \in 1 .. k + 1, Kept(members[i])
        PROVE  members[i].number \in DOMAIN next
    BY <2>1, <2>2 DEF Gathered
  <2>3. ASSUME NEW n \in DOMAIN next
        PROVE  \E i \in 1 .. k + 1 : /\ members[i].number = n
                                     /\ next[n] = members[i].text
                                     /\ \A j \in i + 1 .. k + 1 : members[j].number # n
    <3>1. CASE n = m.number
      <4> WITNESS k + 1 \in 1 .. k + 1
      <4> QED  BY <2>1, <3>1
    <3>2. CASE n # m.number
      <4>1. n \in DOMAIN table /\ next[n] = table[n]
        BY <2>1, <2>3, <3>2
      <4>2. PICK i \in 1 .. k : /\ members[i].number = n
                                /\ table[n] = members[i].text
                                /\ \A j \in i + 1 .. k : members[j].number # n
        BY <4>1 DEF Gathered
      <4>3. \A j \in i + 1 .. k + 1 : members[j].number # n
        BY <3>2, <4>2
      <4> QED  BY <4>1, <4>2, <4>3
    <3> QED  BY <3>1, <3>2
  <2>4. DOMAIN next \subseteq 0 .. MaxCode
    BY <1>3, <2>1 DEF Gathered, Kept
  <2> QED  BY <1>1, <2>2, <2>3, <2>4 DEF Gathered
<1> QED  BY <1>1, <1>2, <1>3

\* What has been loaded stays obtained.
LEMMA TablesKept ==
  ASSUME TablesInv, obtained \subseteq obtained', UNCHANGED error_messages
  PROVE  TablesInv'
<1>1. \A table, name : ComesFrom(table, name)' <=> ComesFrom(table, name)
  BY DEF ComesFrom, Gathered, Readable, Kept
<1> QED  BY <1>1 DEF TablesInv

LEMMA LanguageInductive == LanguageInv /\ [LanguageNext]_languageVars => LanguageInv'
<1> SUFFICES ASSUME LanguageInv, [LanguageNext]_languageVars PROVE LanguageInv'
  OBVIOUS
<1> USE DEF LanguageInv
<1>1. ASSUME NEW language \in DOMAIN languages, LoadLanguageFile(language)
      PROVE  LanguageInv'
  <2> DEFINE name == files[FileName(language)]
  <2>1. name \in DOMAIN Contents
    BY DEF FileNames
  <2>2. /\ object' = name /\ position' = 0 /\ map' = <<>>
        /\ obtained' = obtained \cup {name}
        /\ saving' = (Contents[name].kind = "object")
        /\ UNCHANGED <<files, error_messages>>
    BY <1>1 DEF LoadLanguageFile
  <2>3. LoopInv'
    <3> SUFFICES ASSUME Contents[name].kind = "object"
                 PROVE  /\ position' \in 0 .. Len(Contents[name].members)
                        /\ Readable(Contents[name].members, 0)
                        /\ Gathered(<<>>, Contents[name].members, 0)
      BY <2>1, <2>2 DEF LoopInv
    <3>1. Contents[name].members \in Seq(MemberShape)
      BY <2>1, LanguageAssumption
    <3> QED  BY <2>2, <3>1 DEF Readable, Gathered
  <2> QED  BY <2>2, <2>3, TablesKept
<1>2. CASE SaveMember
  <2> DEFINE members == Contents[object].members
  <2>1. /\ saving /\ position < Len(members)
        /\ position' = position + 1
        /\ UNCHANGED <<files, error_messages, obtained, object, lang_enum>>
    BY <1>2 DEF SaveMember
  <2>2. /\ object \in obtained /\ object \in DOMAIN Contents
        /\ Contents[object].kind = "object"
        /\ members \in Seq(MemberShape)
        /\ position \in Nat
        /\ Readable(members, position)
        /\ Gathered(map, members, position)
    BY <2>1, LanguageAssumption DEF LoopInv
  <2>3. CASE saving'
    <3>1. /\ Kept(members[position + 1]) => members[position + 1].string
          /\ map' = IF Kept(members[position + 1])
                    THEN Put(map, members[position + 1].number, members[position + 1].text)
                    ELSE map
      BY <1>2, <2>3 DEF SaveMember, NextMember
    <3>2. Gathered(map', members, position + 1) /\ Readable(members, position + 1)
      BY <2>1, <2>2, <3>1, RoundGathers
    <3>3. position + 1 \in 0 .. Len(members)
      BY <2>1, <2>2
    <3>4. LoopInv'
      BY <2>1, <2>2, <3>2, <3>3 DEF LoopInv, Gathered, Readable
    <3> QED  BY <2>1, <3>4, TablesKept
  <2>4. CASE ~saving'
    BY <2>1, <2>4, TablesKept DEF LoopInv
  <2> QED  BY <2>3, <2>4
<1>3. CASE SaveErrors
  <2>1. /\ saving /\ ~saving'
        /\ position = Len(Contents[object].members)
        /\ error_messages' = Put(error_messages, lang_enum, map)
        /\ UNCHANGED <<files, obtained>>
    BY <1>3 DEF SaveErrors
  <2>2. ComesFrom(map, object) /\ object \in obtained
    BY <2>1 DEF LoopInv, ComesFrom
  <2>3. /\ DOMAIN error_messages' = {lang_enum} \cup DOMAIN error_messages
        /\ error_messages'[lang_enum] = map
        /\ \A l \in DOMAIN error_messages \ {lang_enum} :
             error_messages'[l] = error_messages[l]
    BY <2>1 DEF Put
  <2>4. ASSUME NEW l \in DOMAIN error_messages'
        PROVE  \E name \in obtained : ComesFrom(error_messages'[l], name)
    BY <2>2, <2>3 DEF TablesInv
  <2>5. TablesInv'
    BY <2>1, <2>4 DEF TablesInv, ComesFrom, Gathered, Readable, Kept
  <2> QED  BY <2>1, <2>5 DEF LoopInv
<1>4. CASE EditLanguageFile
  <2>1. /\ UNCHANGED <<error_messages, obtained, saving, object, lang_enum, position, map>>
        /\ files' \in [FileNames -> DOMAIN Contents]
    BY <1>4 DEF EditLanguageFile
  <2>2. LoopInv'
    BY <2>1 DEF LoopInv, Gathered, Readable, Kept
  <2> QED  BY <2>1, <2>2, TablesKept
<1>5. CASE UNCHANGED languageVars
  <2>1. LoopInv'
    BY <1>5 DEF LoopInv, languageVars, Gathered, Readable, Kept
  <2> QED  BY <1>5, <2>1, TablesKept DEF languageVars
<1> QED  BY <1>1, <1>2, <1>3, <1>4, <1>5 DEF LanguageNext

LEMMA LanguageInvariant == LanguageSpec => []LanguageInv
BY InitLanguageInv, LanguageInductive, PTL DEF LanguageSpec

\* The lookup finds what the last member with the number says.
LEMMA GatheredIsWhatTheFileSays ==
  ASSUME NEW language \in DOMAIN error_messages, NEW name,
         ComesFrom(error_messages[language], name),
         NEW code \in 0 .. MaxCode
  PROVE  ErrorCodeToText(code, language) = TextInFile(name, code)
<1> DEFINE members == Contents[name].members
           table == error_messages[language]
           given == {i \in 1 .. Len(members) : members[i].number = code}
           last == CHOOSE i \in given : \A j \in given : j <= i
<1>1. members \in Seq(MemberShape) /\ Gathered(table, members, Len(members))
  BY LanguageAssumption DEF ComesFrom
<1>2. Len(members) \in Nat
  BY <1>1
<1>3. CASE given = {}
  <2>1. code \notin DOMAIN table
    BY <1>1, <1>3 DEF Gathered
  <2> QED  BY <1>3, <2>1 DEF ErrorCodeToText, TextInFile
<1>4. CASE given # {}
  <2>1. code \in DOMAIN table
    BY <1>1, <1>4 DEF Gathered, Kept
  <2>2. PICK i \in 1 .. Len(members) :
          /\ members[i].number = code
          /\ table[code] = members[i].text
          /\ \A j \in i + 1 .. Len(members) : members[j].number # code
    BY <1>1, <2>1 DEF Gathered
  <2>3. i \in given /\ \A j \in given : j <= i
    BY <1>2, <2>2
  <2>4. last \in given /\ \A j \in given : j <= last
    <3> HIDE DEF given
    <3> QED  BY <2>3
  <2>5. last = i
    <3>1. given \subseteq Nat
      BY <1>2
    <3> HIDE DEF given, last
    <3> QED  BY <2>3, <2>4, <3>1
  <2>6. ErrorCodeToText(code, language) = members[i].text
    BY <2>1, <2>2 DEF ErrorCodeToText
  <2> QED  BY <1>4, <2>5, <2>6 DEF TextInFile
<1> QED  BY <1>3, <1>4

LEMMA TablesAreWhole == LanguageInv => TextsOfOneFile
<1> SUFFICES ASSUME LanguageInv, NEW language \in DOMAIN error_messages
             PROVE  \E name \in obtained :
                      /\ Contents[name].kind = "object"
                      /\ ~Throws(Contents[name].members)
                      /\ \A code \in 0 .. MaxCode :
                           ErrorCodeToText(code, language) = TextInFile(name, code)
  BY DEF TextsOfOneFile
<1>1. PICK name \in obtained : ComesFrom(error_messages[language], name)
  BY DEF LanguageInv, TablesInv
<1>2. Contents[name].kind = "object" /\ ~Throws(Contents[name].members)
  BY <1>1 DEF ComesFrom, Readable, Throws
<1> WITNESS name \in obtained
<1> QED  BY <1>1, <1>2, GatheredIsWhatTheFileSays

\* However files are edited and loads fail, the texts of a language are those
\* of one file, with the last of two members that have one number.
THEOREM TextsComeFromOneFile == LanguageSpec => []TextsOfOneFile
BY LanguageInvariant, TablesAreWhole, PTL
=============================================================================

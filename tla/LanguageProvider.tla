-------------------------- MODULE LanguageProvider --------------------------
(***************************************************************************)
(* LanguageProvider: the texts of the error codes, loaded from one file    *)
(* for each language.  Nothing in the program calls it yet, so its callers *)
(* load and look up in any order, and the files change in between.         *)
(*                                                                         *)
(* A JSON object is the sequence of its members; of a key only the number  *)
(* matters that its leading digits make, -1 if it has none, since          *)
(* std::from_chars stops at the first other character.                     *)
(***************************************************************************)
EXTENDS Integers, Sequences

CONSTANTS
  Contents,     \* what a file may hold: a function from names to files
  MaxCode       \* the largest uint16_t

MemberShape == [number : Int, string : BOOLEAN, text : STRING]

ASSUME LanguageAssumption ==
  /\ MaxCode \in Nat
  /\ \A name \in DOMAIN Contents :
       Contents[name].kind = "object" => Contents[name].members \in Seq(MemberShape)

VARIABLES
  files,            \* resource/lang/, the name in Contents by file name
  error_messages,   \* the table of each language that has one
  obtained,         \* the contents that a load has found in its file
  saving,           \* whether save_errors() is in its loop
  object, lang_enum, position, map   \* its locals; position members are done

languageVars == <<files, error_messages, obtained, saving, object, lang_enum, position, map>>

languages == [en |-> "en"]

LanguageCodeToText(language) ==
  IF language \in DOMAIN languages THEN languages[language] ELSE "en"

\* The first language with that text, and en for any other text
LanguageTextToCode(text) ==
  IF \E language \in DOMAIN languages : languages[language] = text
  THEN CHOOSE language \in DOMAIN languages : languages[language] = text
  ELSE "en"

FileName(language) == LanguageCodeToText(language) \o ".json"

FileNames == {FileName(language) : language \in DOMAIN languages}

LanguageInit ==
  /\ files \in [FileNames -> DOMAIN Contents]
  /\ error_messages = <<>>
  /\ obtained = {}
  /\ saving = FALSE
  /\ object = "" /\ lang_enum = "en" /\ position = 0 /\ map = <<>>

\* table[key] = value of a std::map
Put(table, key, value) ==
  [k \in {key} \cup DOMAIN table |-> IF k = key THEN value ELSE table[k]]

\* The member is kept: its key begins with a number that a code can hold.
Kept(member) == member.number \in 0 .. MaxCode

\* load_file_content(): nothing if there is no file, or none that can be read
\* as a JSON object.  load_language_files() does the same for each language.
\* save_errors() is called with the name of the file and not that of the
\* language.
LoadLanguageFile(language) ==
  LET name == files[FileName(language)]
  IN  /\ ~saving
      /\ obtained' = obtained \cup {name}
      /\ saving' = (Contents[name].kind = "object")
      /\ object' = name
      /\ lang_enum' = LanguageTextToCode(FileName(language))
      /\ position' = 0
      /\ map' = <<>>
      /\ UNCHANGED <<files, error_messages>>

NextMember == Contents[object].members[position + 1]

\* Seeded fault: the members go straight into the table of the language.
SaveMemberInPlace ==
  LET old == IF lang_enum \in DOMAIN error_messages THEN error_messages[lang_enum] ELSE <<>>
  IN  /\ saving
      /\ position < Len(Contents[object].members)
      /\ saving' = (Kept(NextMember) => NextMember.string)
      /\ position' = position + 1
      /\ map' = IF Kept(NextMember) THEN Put(old, NextMember.number, NextMember.text) ELSE old
      /\ error_messages' = Put(error_messages, lang_enum, map')
      /\ UNCHANGED <<files, obtained, object, lang_enum>>

\* One round of the loop of save_errors().  as_string() throws for a kept
\* member that is no string, and the map is gone.
SaveMember ==
  /\ saving
  /\ position < Len(Contents[object].members)
  /\ \/ ~Kept(NextMember) /\ UNCHANGED <<saving, map>>
     \/ /\ Kept(NextMember) /\ NextMember.string
        /\ map' = Put(map, NextMember.number, NextMember.text)
        /\ UNCHANGED saving
     \/ /\ Kept(NextMember) /\ ~NextMember.string
        /\ saving' = FALSE
        /\ UNCHANGED map
  /\ position' = position + 1
  /\ UNCHANGED <<files, error_messages, obtained, object, lang_enum>>

\* Its last statement, which replaces the table
SaveErrors ==
  /\ saving
  /\ position = Len(Contents[object].members)
  /\ error_messages' = Put(error_messages, lang_enum, map)
  /\ saving' = FALSE
  /\ UNCHANGED <<files, obtained, object, lang_enum, position, map>>

EditLanguageFile ==
  /\ \E f \in FileNames, c \in DOMAIN Contents : files' = [files EXCEPT ![f] = c]
  /\ UNCHANGED <<error_messages, obtained, saving, object, lang_enum, position, map>>

LanguageNext ==
  \/ \E language \in DOMAIN languages : LoadLanguageFile(language)
  \/ SaveMember
  \/ SaveErrors
  \/ EditLanguageFile

LanguageSpec == LanguageInit /\ [][LanguageNext]_languageVars

\* error_code_to_text(); the view it returns dangles after the next load.
ErrorCodeToText(code, language) ==
  IF language \in DOMAIN error_messages /\ code \in DOMAIN error_messages[language]
  THEN error_messages[language][code]
  ELSE ""

\* as_string() throws for some member of the file.
Throws(members) == \E i \in 1 .. Len(members) : Kept(members[i]) /\ ~members[i].string

\* Of two members with one number the later one counts.
TextInFile(name, code) ==
  LET members == Contents[name].members
      given == {i \in 1 .. Len(members) : members[i].number = code}
  IN  IF given = {} THEN ""
      ELSE members[CHOOSE i \in given : \A j \in given : j <= i].text

\* The texts of a language are those of one file that was loaded as a whole:
\* a load that fails half way leaves the texts of the load before it, and no
\* text of an older file stays beside those of a newer one.
TextsOfOneFile ==
  \A language \in DOMAIN error_messages :
    \E name \in obtained :
      /\ Contents[name].kind = "object"
      /\ ~Throws(Contents[name].members)
      /\ \A code \in 0 .. MaxCode : ErrorCodeToText(code, language) = TextInFile(name, code)
=============================================================================

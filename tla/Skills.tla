--------------------------------- MODULE Skills ---------------------------------
(***************************************************************************)
(* Skills kept as .md files: SkillCreator, SkillLoader, SkillMatcher and   *)
(* SkillPatcher (skill/), the handlers of skill/router.py, and the agent   *)
(* turn that looks skills up before (shared/context_builder.py) and makes  *)
(* or patches one after it (agent/router.py).                              *)
(*                                                                         *)
(* Three conversions of a name decide which file a request reaches: the    *)
(* creator's slug, the patcher's replacement and the raw name.             *)
(***************************************************************************)
EXTENDS Naturals, Sequences, FiniteSets, Selection

CONSTANTS
    SkillNames,     \* names clients and models use: sequences of characters
    OperatorStems,  \* stems of files put into skills_dir by hand
    Queries,        \* texts to match, lower case
    Chats           \* slots for concurrent agent turns; a slot is used again

ASSUME SkillAssumption ==
    /\ SkillNames \subseteq Seq({"a", "A", "u", " ", "_", "-"})
    /\ OperatorStems \subseteq SkillNames

VARIABLES
    files,      \* files[s]: the file s.md, or NoFile
    chat        \* chat[r]: the agent turn in slot r

skillVars == <<files, chat>>

-------------------------------------------------------------------------------
(* Names *)

Alphanumeric(c) == c \in {"a", "A", "u"}

LowerCase(c) == IF c = "A" THEN "a" ELSE c

Untitled == <<"u">>

\* _sanitize_name: lower case, a run of other characters becomes one dash,
\* and none is left at either end.
Slug(name) ==
    LET kept == {i \in DOMAIN name :
                    \/ Alphanumeric(name[i])
                    \/ /\ i > 1 /\ Alphanumeric(name[i - 1])
                       /\ \E j \in i..Len(name) : Alphanumeric(name[j])}
        places == Select([i \in DOMAIN name |-> i], kept)
        slug == [k \in DOMAIN places |->
                    IF Alphanumeric(name[places[k]]) THEN LowerCase(name[places[k]]) ELSE "-"]
    IN  IF slug = <<>> THEN Untitled ELSE slug

\* patch and patch_all: a blank is replaced (and / and \, which no
\* name here holds), nothing else.
PatchStem(name) ==
    [i \in DOMAIN name |-> IF name[i] = " " THEN "_" ELSE name[i]]

\* Mutant: the creator names files the way the patcher looks them up.
CreateStem_Patcher(name) == PatchStem(name)

CreateStem(name) == Slug(name)

Stems == {Slug(n) : n \in SkillNames} \union {PatchStem(n) : n \in SkillNames}
            \union SkillNames

-------------------------------------------------------------------------------
(* Files *)

NoFile == [by |-> "nobody", found |-> 0]

\* `found' counts the occurrences of the text a patch looks for, up to 2.
File == [by : {"api", "operator"}, found : 0..2]

OnDisk == {s \in Stems : files[s] # NoFile}

Written(found) == [by |-> "api", found |-> found]

\* _load_file: the name of a skill is the stem of its file.  The tags the
\* creator writes ("> tags: ...") are not what the loader looks for ("tags:
\* ..."), so a loaded skill has its name and its description alone.
Loaded == OnDisk

\* SkillDoc.matches, on the name: the query is part of it.
SkillMatches(s, query) ==
    \E i \in 0..(Len(s) - Len(query)) :
        SubSeq([k \in DOMAIN s |-> LowerCase(s[k])], i + 1, i + Len(query)) = query

\* Every request builds a SkillService of its own; nothing is in its cache.
NewCache == {}

\* SkillLoader.search reads the cache, never the disk.
SkillSearch(cache, query) == {s \in cache : SkillMatches(s, query)}

\* POST /api/skills/match scans first when the cache is empty.
Matched(query) == SkillSearch(IF NewCache = {} THEN Loaded ELSE NewCache, query)

\* create, in the file system: an existing file is kept unless overwritten.
CreateAllowed(name, overwrite) == overwrite \/ CreateStem(name) \notin OnDisk

Created(disk, name, found) == [disk EXCEPT ![CreateStem(name)] = Written(found)]

\* patch replaces one occurrence and patch_all every one; both need one.
PatchAllowed(disk, name) ==
    /\ PatchStem(name) \in Stems
    /\ disk[PatchStem(name)] # NoFile
    /\ disk[PatchStem(name)].found > 0

PatchedFile(disk, name, all) ==
    [disk EXCEPT ![PatchStem(name)].found = IF all THEN 0 ELSE @ - 1]

-------------------------------------------------------------------------------
(* The REST handlers *)

CreateSkill(name, found, overwrite) ==
    /\ CreateAllowed(name, overwrite)
    /\ files' = Created(files, name, found)
    /\ UNCHANGED chat

DeleteSkill(name) ==
    /\ Slug(name) \in OnDisk
    /\ files' = [files EXCEPT ![Slug(name)] = NoFile]
    /\ UNCHANGED chat

PatchSkill(name, all) ==
    /\ PatchAllowed(files, name)
    /\ files' = PatchedFile(files, name, all)
    /\ UNCHANGED chat

-------------------------------------------------------------------------------
(* The agent turn *)

NoChat == [at |-> "idle", context |-> {}, missed |-> {}]

\* build_context: `context' is what the system prompt is given; `missed'
\* observes the matching skills that are on disk and are not in it.
StartChat(r, query) ==
    LET inPrompt == SkillSearch(NewCache, query)
    IN  /\ chat[r].at = "idle"
        /\ chat' = [chat EXCEPT ![r] = [at |-> "turn", context |-> inPrompt,
                                        missed |-> Matched(query) \ inPrompt]]
        /\ UNCHANGED files

\* _maybe_create_skill stops at its model call when the turn used enough
\* tools and the provider is there.
ExtractSkill(r) ==
    /\ chat[r].at = "turn"
    /\ chat' = [chat EXCEPT ![r].at = "extract"]
    /\ UNCHANGED files

\* _maybe_patch_skill applies what the answer suggests; a patch that fails is
\* skipped.  One suggestion stands for any number of them.
Suggested(disk) ==
    {disk} \union {PatchedFile(disk, n, FALSE) : n \in {m \in SkillNames : PatchAllowed(disk, m)}}

\* Fewer tools, no provider, or the turn failed: no skill is made.
EndChat(r) ==
    /\ chat[r].at = "turn"
    /\ files' \in Suggested(files)
    /\ chat' = [chat EXCEPT ![r] = NoChat]

\* The model's JSON arrives, or nothing that parses; a skill is made with
\* overwrite=True, whatever has become of the file meanwhile.
SkillExtracted(r, name, found) ==
    /\ chat[r].at = "extract"
    /\ \/ files' \in Suggested(files)
       \/ files' \in Suggested(Created(files, name, found))
    /\ chat' = [chat EXCEPT ![r] = NoChat]

-------------------------------------------------------------------------------
SkillInit ==
    /\ files \in [Stems -> {NoFile} \union [by : {"operator"}, found : 0..1]]
    /\ \A s \in Stems : files[s] # NoFile => s \in OperatorStems
    /\ chat = [r \in Chats |-> NoChat]

SkillNext ==
    \/ \E n \in SkillNames :
        \/ \E found \in 0..2, overwrite \in BOOLEAN : CreateSkill(n, found, overwrite)
        \/ DeleteSkill(n)
        \/ \E all \in BOOLEAN : PatchSkill(n, all)
    \/ \E r \in Chats :
        \/ \E q \in Queries : StartChat(r, q)
        \/ ExtractSkill(r)
        \/ EndChat(r)
        \/ \E n \in SkillNames, found \in 0..2 : SkillExtracted(r, n, found)

SkillSpec == SkillInit /\ [][SkillNext]_skillVars

-------------------------------------------------------------------------------
(* Properties *)

SkillTypeOK ==
    /\ files \in [Stems -> File \union {NoFile}]
    /\ chat \in [Chats -> [at : {"idle", "turn", "extract"},
                           context : SUBSET Stems, missed : SUBSET Stems]]

\* A file the API or an agent made can be fetched, patched and deleted under
\* the name it is loaded with: the three conversions of that name agree.
MadeSkillsAreReached ==
    \A s \in Stems : files[s].by = "api" => Slug(s) = s /\ PatchStem(s) = s

===============================================================================

-------------------------------- MODULE Skills --------------------------------
(***************************************************************************)
(* Skills live twice: as SKILL.md cards under .agents/skills, written by   *)
(* hand, by the stub generator (src/omni_hub/skill_stubs.py) and by the    *)
(* prompt compiler (harness/dspy_compile.py), and as one JSON registry     *)
(* (src/omni_hub/skills.py) that every change reads and writes as a whole, *)
(* without a lock.  skill_sync.py carries the cards into the registry, and *)
(* every compile ends with a sync.  A process that dies writing the        *)
(* registry leaves it empty or cut off.                                    *)
(***************************************************************************)
EXTENDS Naturals

CONSTANTS SkillIds, Clients, MaxCommands     \* bound: commands run so far

VARIABLES cards,      \* cards[s]: the SKILL.md of s
          registry,   \* [text, specs]: what registry/skills.json holds
          job,        \* job[c]: the command of c
          commands,
          listed,     \* skills that a finished command put into the registry
          disabled,   \* skills disabled by a finished command and not registered since
          synced,     \* a sync finished and no card was written since
          spoiled     \* two commands had the registry open at a time, or one died writing it

skillVars == <<cards, registry, job, commands, listed, disabled, synced, spoiled>>

NoCard == [there |-> FALSE, marker |-> FALSE, block |-> FALSE, parses |-> TRUE]
Stub == [there |-> TRUE, marker |-> TRUE, block |-> TRUE, parses |-> TRUE]
Compiled == [there |-> TRUE, marker |-> FALSE, block |-> FALSE, parses |-> TRUE]   \* no omni_hub block
ByHand == [there : {TRUE}, marker : BOOLEAN, block : BOOLEAN, parses : BOOLEAN]

Spec(status, meta) == [status |-> status, meta |-> meta]    \* meta: kind, entrypoint, risk, tags
NoSpecs == [s \in {} |-> {}]
NoJob == [do |-> "nothing"]

SkillsInit ==
    /\ cards = [s \in SkillIds |-> NoCard]
    /\ registry = [text |-> "whole", specs |-> NoSpecs]
    /\ job = [c \in Clients |-> NoJob]
    /\ commands = 0 /\ listed = {} /\ disabled = {} /\ synced = FALSE /\ spoiled = FALSE

Doing(c, what) == job[c].do = what
Go(c, next) == job' = [job EXCEPT ![c] = next]
HasOpen(c) == job[c].do \in {"write", "reload", "sync write"}
CardsUnchanged == UNCHANGED <<cards, synced>>
RegistryUnchanged == UNCHANGED <<registry, listed, disabled>>

Start(c) == Doing(c, "nothing") /\ commands < MaxCommands /\ commands' = commands + 1
Opens(c) == spoiled' = (spoiled \/ \E d \in Clients \ {c} : HasOpen(d))

-----------------------------------------------------------------------------
(* The registry. *)

\* A registry that is not there is empty, one that does not parse raises.
LoadAll == registry.text = "whole"

Put(skill, spec, specs) == [s \in {skill} \cup DOMAIN specs |-> IF s = skill THEN spec ELSE specs[s]]

\* upsert: read everything, put the skill in, write everything.
Upsert(c) ==
    /\ Start(c) /\ Opens(c)
    /\ \E s \in SkillIds, status \in {"draft", "active"} :
          /\ LoadAll
          /\ Go(c, [do |-> "write", skill |-> s, specs |-> Put(s, Spec(status, "registered"), registry.specs)])
    /\ CardsUnchanged /\ RegistryUnchanged

\* disable reads the skill, and then upsert reads everything again.
Disable(c) ==
    /\ Start(c) /\ Opens(c)
    /\ \E s \in SkillIds :
          /\ LoadAll /\ s \in DOMAIN registry.specs
          /\ Go(c, [do |-> "reload", skill |-> s, spec |-> Spec("disabled", registry.specs[s].meta)])
    /\ CardsUnchanged /\ RegistryUnchanged

Reload(c) ==
    /\ Doing(c, "reload")
    /\ IF LoadAll
       THEN Go(c, [do |-> "write", skill |-> job[c].skill, specs |-> Put(job[c].skill, job[c].spec, registry.specs)])
       ELSE Go(c, NoJob)
    /\ UNCHANGED <<commands, spoiled>> /\ CardsUnchanged /\ RegistryUnchanged

SaveAll(c) ==
    /\ Doing(c, "write")
    /\ LET s == job[c].skill IN
       /\ registry' = [text |-> "whole", specs |-> job[c].specs]
       /\ listed' = listed \cup {s}
       /\ disabled' = IF job[c].specs[s].status = "disabled" THEN disabled \cup {s} ELSE disabled \ {s}
    /\ Go(c, NoJob)
    /\ UNCHANGED <<commands, spoiled>> /\ CardsUnchanged

-----------------------------------------------------------------------------
(* The cards. *)

WriteCard(s, card) == cards' = [cards EXCEPT ![s] = card] /\ synced' = FALSE

EditCard == /\ \E s \in SkillIds, card \in ByHand : cards[s] # card /\ WriteCard(s, card)
            /\ commands < MaxCommands /\ commands' = commands + 1
            /\ UNCHANGED <<job, spoiled>> /\ RegistryUnchanged

\* regenerate_all: a card without the marker is left to who wrote it.
MaterialiseOne == /\ \E s \in SkillIds : /\ cards[s] # Stub /\ (cards[s].there => cards[s].marker)
                                         /\ WriteCard(s, Stub)
                  /\ UNCHANGED <<job, commands, spoiled>> /\ RegistryUnchanged

\* compile_skill_md writes over whatever card is there, and syncs.
CompileSkillMd(c) ==
    /\ Start(c)
    /\ \E s \in SkillIds : WriteCard(s, Compiled)
    /\ Go(c, [do |-> "scan"])
    /\ UNCHANGED spoiled /\ RegistryUnchanged

-----------------------------------------------------------------------------
(* sync_skills. *)

SyncSkills(c) == Start(c) /\ Go(c, [do |-> "scan"]) /\ UNCHANGED spoiled /\ CardsUnchanged /\ RegistryUnchanged

\* A field that a card does not have is given a default.
SpecFromMd(card) == Spec("active", IF card.block THEN "carded" ELSE "default")

\* One card that does not parse stops the sync of all.
MdSpecs(c) ==
    /\ Doing(c, "scan")
    /\ LET there == {s \in SkillIds : cards[s].there} IN
       Go(c, IF \A s \in there : cards[s].parses
             THEN [do |-> "read", scanned |-> [s \in there |-> SpecFromMd(cards[s])], cards |-> cards]
             ELSE NoJob)
    /\ UNCHANGED <<commands, spoiled>> /\ CardsUnchanged /\ RegistryUnchanged

\* Mutant: the registry becomes what the cards say.
MergeOfCardsOnly(scanned, specs) == scanned

\* Everything that either side has, and of what both have the card's side.
Merge(scanned, specs) == [s \in DOMAIN scanned \cup DOMAIN specs |-> IF s \in DOMAIN scanned THEN scanned[s] ELSE specs[s]]

\* An empty file is an empty registry here.
RegistrySpecs(c) ==
    /\ Doing(c, "read")
    /\ IF registry.text = "cut" THEN Go(c, NoJob) /\ UNCHANGED spoiled
       ELSE /\ Opens(c)
            /\ Go(c, [do |-> "sync write", cards |-> job[c].cards,
                      specs |-> Merge(job[c].scanned, IF registry.text = "empty" THEN NoSpecs ELSE registry.specs)])
    /\ UNCHANGED commands /\ CardsUnchanged /\ RegistryUnchanged

WriteRegistry(c) ==
    /\ Doing(c, "sync write")
    /\ registry' = [text |-> "whole", specs |-> job[c].specs]
    /\ synced' = (job[c].cards = cards)
    /\ Go(c, NoJob)
    /\ UNCHANGED <<cards, commands, listed, disabled, spoiled>>

SkillClientDies(c) ==
    /\ ~Doing(c, "nothing") /\ Go(c, NoJob)
    /\ \/ UNCHANGED <<registry, spoiled>>
       \/ /\ job[c].do \in {"write", "sync write"}
          /\ \E text \in {"empty", "cut"} : registry' = [text |-> text, specs |-> NoSpecs]
          /\ spoiled' = TRUE
    /\ UNCHANGED <<commands, listed, disabled>> /\ CardsUnchanged

SkillsNext ==
    \/ EditCard \/ MaterialiseOne
    \/ \E c \in Clients : \/ Upsert(c) \/ Disable(c) \/ Reload(c) \/ SaveAll(c) \/ CompileSkillMd(c)
                          \/ SyncSkills(c) \/ MdSpecs(c) \/ RegistrySpecs(c) \/ WriteRegistry(c) \/ SkillClientDies(c)
SkillsSpec == SkillsInit /\ [][SkillsNext]_skillVars

-----------------------------------------------------------------------------
\* What the doctor reports: cards without an entry.
OrphanCards == {s \in SkillIds : cards[s].there} \ DOMAIN registry.specs

\* Unless two commands had the registry open at a time or one died writing it, a
\* skill that was registered stays registered, the skills that have no card
\* included, and once a sync is through the doctor finds no card without an entry.
SkillsStayListed ==
    ~spoiled => /\ listed \subseteq DOMAIN registry.specs
                /\ synced => OrphanCards = {}

\* skill_sync.py:7-9: the registry is "Canonical for kind / entrypoint / risk_level
\* / tags / status": a skill that was disabled there, and by nobody registered
\* again, is disabled.
RegistryOwnsStatus ==
    ~spoiled => \A s \in disabled : registry.specs[s].status = "disabled"
=============================================================================

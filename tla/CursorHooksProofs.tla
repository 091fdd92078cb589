-------------------------- MODULE CursorHooksProofs --------------------------
(***************************************************************************)
(* Theorems about CursorHooks, for any number of hook processes, prompts,  *)
(* edits, events and faults.                                               *)
(***************************************************************************)
EXTENDS CursorHooks, FiniteSetTheorems, SequenceTheorems, TLAPS

USE HooksAssumption DEF store, history

-----------------------------------------------------------------------------
(* Types.                                                                  *)

PCs == {"idle", "lock", "logPrompt", "truncate", "write", "unlock", "log"}

Values == Edits \cup {NoEdit}

EditCache == [hunks : SUBSET [edit : Edits, at : Nat],
              done : SUBSET [gen : Nat, edit : Edits, at : Nat]]

Rows == [kind : {"prompt", "answer", "tool", "edit"}, gen : Nat, text : Nat, edit : Values,
         hunks : Values]

StepNames == {"defer", "flush", "hunks", "cache", "check", "take", "log", "mark"}

(* What a kind of event has left to do: a prompt has one step, an edit is  *)
(* marked after its row.                                                   *)
Left(kind, steps) ==
    /\ steps \in Seq(StepNames) /\ steps # <<>>
    /\ kind = "prompt" => Len(steps) = 1
    /\ \A i \in DOMAIN steps :
          /\ kind = "prompt" => steps[i] \in {"defer", "log"}
          /\ steps[i] = "defer" => kind = "prompt"
          /\ steps[i] \in {"hunks", "cache", "check", "take", "mark"} => kind \in {"tool", "edit"}
          /\ steps[i] = "mark" => kind = "edit" /\ (i > 1 => steps[i - 1] = "log")

Jobs == [kind : {"prompt", "answer", "tool", "edit"}, gen : Nat, edit : Values,
         due : BOOLEAN, steps : Seq(StepNames)]

TypeInv ==
    /\ now \in Nat /\ submitted \in Nat /\ faults \in Nat
    /\ overrun \in BOOLEAN /\ misled \in BOOLEAN
    /\ transcript \in Seq(Nat) /\ Len(transcript) <= submitted
    /\ \A k \in DOMAIN transcript : transcript[k] = k
    /\ prompts \subseteq 1 .. submitted
    /\ edits \in EditCache
    /\ lock \in [Files -> Procs \cup {Free, Stale}]
    /\ pc \in [Procs -> PCs] /\ job \in [Procs -> Jobs \cup {NoJob}]
    /\ mine \in [Procs -> [prompts : SUBSET Nat, edits : EditCache]]
    /\ got \in [Procs -> Values]
    /\ DOMAIN log \subseteq Rows /\ \A r \in DOMAIN log : log[r] \in Nat
    /\ visible \subseteq Nat
    /\ suppressed \subseteq [gen : Nat, edit : Edits]
    /\ rowless \subseteq [gen : Nat, edit : Values]

(* An event is at the first of its steps; all but those of a prompt come   *)
(* after the prompt is in the transcript.                                  *)
Busy(p) ==
    /\ job[p] \in Jobs
    /\ Left(job[p].kind, job[p].steps)
    /\ job[p].gen \in 1 .. submitted
    /\ job[p].kind # "prompt" => job[p].gen <= Len(transcript)
    /\ job[p].kind \in {"tool", "edit"} => job[p].edit \in Edits
    /\ pc[p] = "log" <=> Step(p) = "log"
    /\ pc[p] = "logPrompt" => Step(p) = "flush"
    /\ mine[p].prompts \subseteq 1 .. submitted

JobFits(p) ==
    /\ pc[p] \notin {"logPrompt", "truncate", "write"} => mine[p] = Nothing
    /\ IF pc[p] = "idle" THEN job[p] = NoJob ELSE Busy(p)

HooksInv == TypeInv /\ \A p \in Procs : JobFits(p)

LEMMA StepsLeft ==
    ASSUME NEW kind, NEW steps, Left(kind, steps)
    PROVE  /\ Head(steps) = steps[1] /\ steps[1] \in StepNames
           /\ Tail(steps) \in Seq(StepNames)
           /\ kind = "prompt" => Tail(steps) = <<>>
           /\ Tail(steps) # <<>> =>
                /\ Left(kind, Tail(steps))
                /\ Head(Tail(steps)) = "mark" => kind = "edit" /\ steps[1] = "log"
<1>1. /\ steps \in Seq(StepNames) /\ steps # <<>>
      /\ Len(steps) \in Nat \ {0} /\ 1 \in DOMAIN steps /\ DOMAIN steps = 1 .. Len(steps)
  BY DEF Left
<1>2. /\ Tail(steps) \in Seq(StepNames) /\ Len(Tail(steps)) = Len(steps) - 1
      /\ \A i \in 1 .. Len(Tail(steps)) : Tail(steps)[i] = steps[i + 1]
  BY <1>1, HeadTailProperties
<1>3. kind = "prompt" => Tail(steps) = <<>>
  BY <1>1, <1>2 DEF Left
<1>4. ASSUME Tail(steps) # <<>> PROVE Left(kind, Tail(steps))
  <2>1. DOMAIN Tail(steps) = 1 .. Len(Tail(steps))
    BY <1>2
  <2>2. ASSUME NEW i \in DOMAIN Tail(steps)
        PROVE  /\ i + 1 \in DOMAIN steps /\ Tail(steps)[i] = steps[i + 1]
               /\ i > 1 => i - 1 \in DOMAIN Tail(steps) /\ Tail(steps)[i - 1] = steps[i]
    BY <1>1, <1>2, <2>1
  <2>3. kind # "prompt"
    BY <1>3, <1>4
  <2>4. ASSUME NEW i \in DOMAIN Tail(steps)
        PROVE  /\ Tail(steps)[i] # "defer"
               /\ Tail(steps)[i] \in {"hunks", "cache", "check", "take", "mark"} =>
                     kind \in {"tool", "edit"}
    BY <2>2, <2>3 DEF Left
  <2>5. ASSUME NEW i \in DOMAIN Tail(steps), Tail(steps)[i] = "mark"
        PROVE  kind = "edit" /\ (i > 1 => Tail(steps)[i - 1] = "log")
    <3>1. i + 1 \in DOMAIN steps /\ steps[i + 1] = "mark" /\ i \in Nat /\ (i + 1) - 1 = i
      BY <2>1, <2>2, <2>5
    <3>2. kind = "edit" /\ (i + 1 > 1 => steps[(i + 1) - 1] = "log")
      BY <3>1 DEF Left
    <3>. QED
      BY <2>2, <2>5, <3>1, <3>2
  <2>. QED
    BY <1>2, <1>4, <2>3, <2>4, <2>5 DEF Left
<1>5. ASSUME Tail(steps) # <<>>
      PROVE  Head(Tail(steps)) = steps[2] /\ 2 \in DOMAIN steps
  BY <1>1, <1>2, <1>5
<1>6. Head(steps) = steps[1] /\ steps[1] \in StepNames
  BY <1>1
<1>7. ASSUME Tail(steps) # <<>>, steps[2] = "mark" PROVE kind = "edit" /\ steps[1] = "log"
  BY <1>5, <1>7 DEF Left
<1>. QED
  BY <1>2, <1>3, <1>4, <1>5, <1>6, <1>7

LEMMA FirstStep ==
    ASSUME NEW kind, NEW steps, Left(kind, steps)
    PROVE  /\ kind = "prompt" => steps[1] \in {"defer", "log"}
           /\ steps[1] = "defer" => kind = "prompt"
           /\ steps[1] \in {"hunks", "cache", "check", "take", "mark"} => kind \in {"tool", "edit"}
           /\ steps[1] = "mark" => kind = "edit"
<1>1. 1 \in DOMAIN steps
  BY DEF Left
<1>. QED
  BY <1>1 DEF Left

(* The steps an event begins with.                                         *)
LEMMA PromptLeft ==
    ASSUME NEW step \in {"defer", "log"}
    PROVE  Left("prompt", <<step>>)
  BY DEF Left, StepNames

LEMMA AnswerLeft == Left("answer", <<"flush", "log">>)
  BY DEF Left, StepNames

LEMMA ToolLeft == Left("tool", <<"flush", "hunks">>)
  BY DEF Left, StepNames

LEMMA EditLeft ==
    ASSUME NEW s \in {<<>>, <<"take">>}
    PROVE  /\ Left("edit", <<"flush", "cache", "check">> \o s \o <<"log", "mark">>)
           /\ Head(<<"flush", "cache", "check">> \o s \o <<"log", "mark">>) = "flush"
<1>. DEFINE a == <<"flush", "cache", "check">>
            b == <<"log", "mark">>
<1>1. a \in Seq(StepNames) /\ b \in Seq(StepNames) /\ s \in Seq(StepNames)
  <2>1. a \in Seq(StepNames)
    BY DEF StepNames
  <2>2. b \in Seq(StepNames)
    BY DEF StepNames
  <2>3. <<>> \in Seq(StepNames) /\ <<"take">> \in Seq(StepNames)
    BY DEF StepNames
  <2>. QED
    BY <2>1, <2>2, <2>3
<1>2. Len(a) = 3 /\ Len(b) = 2
  OBVIOUS
<1>3. /\ (a \o s) \o b \in Seq(StepNames)
      /\ Len((a \o s) \o b) = 5 + Len(s)
  BY <1>1, <1>2
<1>4. ASSUME NEW i \in 1 .. (5 + Len(s))
      PROVE  ((a \o s) \o b)[i] = IF i <= 3 THEN a[i]
                                  ELSE IF i <= 3 + Len(s) THEN s[i - 3] ELSE b[i - 3 - Len(s)]
  BY <1>1, <1>2, <1>4
<1>5. CASE s = <<>>
  <2>. DEFINE c == (a \o s) \o b
  <2>1. c \in Seq(StepNames) /\ Len(c) = 5
    BY <1>3, <1>5
  <2>2. c[1] = "flush" /\ c[2] = "cache" /\ c[3] = "check" /\ c[4] = "log" /\ c[5] = "mark"
    BY <1>4, <1>5
  <2>. HIDE DEF c
  <2>3. DOMAIN c = 1 .. 5 /\ c # <<>> /\ Head(c) = c[1]
    BY ONLY <2>1
  <2>4. Left("edit", c)
    BY <2>1, <2>2, <2>3 DEF Left
  <2>. QED
    BY <2>2, <2>3, <2>4 DEF c
<1>6. CASE s = <<"take">>
  <2>. DEFINE c == (a \o s) \o b
  <2>1. c \in Seq(StepNames) /\ Len(c) = 6
    BY <1>3, <1>6
  <2>2. /\ c[1] = "flush" /\ c[2] = "cache" /\ c[3] = "check" /\ c[4] = "take" /\ c[5] = "log"
        /\ c[6] = "mark"
    BY <1>4, <1>6
  <2>. HIDE DEF c
  <2>3. DOMAIN c = 1 .. 6 /\ c # <<>> /\ Head(c) = c[1]
    BY ONLY <2>1
  <2>4. Left("edit", c)
    BY <2>1, <2>2, <2>3 DEF Left
  <2>. QED
    BY <2>2, <2>3, <2>4 DEF c
<1>. QED
  BY <1>5, <1>6

(* Only the process p has moved.                                           *)
OthersStay(p) ==
    \A q \in Procs \ {p} : pc'[q] = pc[q] /\ job'[q] = job[q] /\ mine'[q] = mine[q]

LEMMA StillFits ==
    ASSUME HooksInv, NEW q \in Procs, pc'[q] = pc[q], job'[q] = job[q], mine'[q] = mine[q],
           submitted' \in Nat, Len(transcript) \in Nat,
           Len(transcript') \in Nat, submitted <= submitted', Len(transcript) <= Len(transcript')
    PROVE  JobFits(q)'
<1>1. JobFits(q) /\ pc'[q] = pc[q] /\ job'[q] = job[q] /\ mine'[q] = mine[q]
  BY DEF HooksInv
<1>2. 1 .. submitted \subseteq 1 .. submitted'
  BY DEF HooksInv, TypeInv
<1>3. CASE pc[q] = "idle"
  BY <1>1, <1>3 DEF JobFits
<1>4. CASE pc[q] # "idle"
  <2>1. Busy(q)
    BY <1>1, <1>4 DEF JobFits
  <2>2. job[q].kind # "prompt" => job[q].gen <= Len(transcript')
    BY <2>1 DEF Busy, Jobs
  <2>3. Busy(q)'
    BY <1>1, <1>2, <2>1, <2>2 DEF Busy, Step
  <2>. QED
    BY <1>1, <1>4, <2>3 DEF JobFits
<1>. QED
  BY <1>3, <1>4

LEMMA OthersFit ==
    ASSUME HooksInv, NEW p \in Procs, OthersStay(p), submitted' \in Nat, Len(transcript) \in Nat,
           Len(transcript') \in Nat, submitted <= submitted', Len(transcript) <= Len(transcript')
    PROVE  \A q \in Procs \ {p} : JobFits(q)'
  BY StillFits DEF OthersStay

(* The process p goes on to its next step, or has none left.               *)
Onward(p) ==
    \/ pc'[p] = "idle" /\ job'[p] = NoJob
    \/ /\ pc'[p] \in {"lock", "log"} /\ job'[p] \in Jobs
       /\ job'[p].kind = job[p].kind /\ job'[p].gen = job[p].gen /\ job'[p].edit = job[p].edit
       /\ Tail(job[p].steps) # <<>> /\ job'[p].steps = Tail(job[p].steps)
       /\ pc'[p] = "log" <=> Head(job'[p].steps) = "log"

LEMMA WithSteps ==
    ASSUME NEW j \in Jobs, NEW steps \in Seq(StepNames), NEW k, k = [j EXCEPT !.steps = steps]
    PROVE  /\ k \in Jobs /\ k.steps = steps
           /\ k.kind = j.kind /\ k.gen = j.gen /\ k.edit = j.edit
  BY DEF Jobs

LEMMA DoneOnward ==
    ASSUME HooksInv, NEW p \in Procs, pc[p] # "idle",
           NEW rest \in {<<>>, Tail(job[p].steps)}, Done(p, rest)
    PROVE  /\ pc' \in [Procs -> PCs] /\ job' \in [Procs -> Jobs \cup {NoJob}]
           /\ got' \in [Procs -> Values]
           /\ \A q \in Procs \ {p} : pc'[q] = pc[q] /\ job'[q] = job[q]
           /\ Onward(p)
           /\ rest = <<>> => pc'[p] = "idle"
<1>1. Busy(p) /\ pc \in [Procs -> PCs] /\ job \in [Procs -> Jobs \cup {NoJob}]
      /\ got \in [Procs -> Values]
  BY DEF HooksInv, JobFits, TypeInv
<1>2. CASE rest = <<>>
  <2>1. /\ pc' = [pc EXCEPT ![p] = "idle"] /\ job' = [job EXCEPT ![p] = NoJob]
        /\ got' = [got EXCEPT ![p] = NoEdit]
    BY <1>2 DEF Done
  <2>. QED
    BY <1>1, <2>1 DEF Onward, PCs, Values
<1>3. CASE rest # <<>>
  <2>1. /\ pc' = [pc EXCEPT ![p] = Start(p, rest)] /\ job' = [job EXCEPT ![p].steps = rest]
        /\ got' = got /\ rest = Tail(job[p].steps)
    BY <1>3 DEF Done
  <2>2. Tail(job[p].steps) \in Seq(StepNames)
    BY <1>1, StepsLeft DEF Busy
  <2>3. /\ job[p] \in Jobs
        /\ job'[p] = [job[p] EXCEPT !.steps = rest]
        /\ \A q \in Procs \ {p} : job'[q] = job[q]
    BY <1>1, <2>1 DEF Busy
  <2>4. /\ job'[p] \in Jobs /\ job'[p].steps = rest
        /\ job'[p].kind = job[p].kind /\ job'[p].gen = job[p].gen /\ job'[p].edit = job[p].edit
    <3>1. rest \in Seq(StepNames)
      BY <2>1, <2>2
    <3>. QED
      BY ONLY <2>3, <3>1, WithSteps
  <2>5. /\ pc'[p] \in {"lock", "log"} /\ (pc'[p] = "log" <=> Head(rest) = "log")
        /\ pc' \in [Procs -> PCs] /\ \A q \in Procs \ {p} : pc'[q] = pc[q]
    BY <1>1, <2>1 DEF Start, Unlocked, PCs
  <2>6. job' \in [Procs -> Jobs \cup {NoJob}]
    BY <1>1, <2>1, <2>3, <2>4
  <2>. QED
    BY <1>1, <1>3, <2>1, <2>3, <2>4, <2>5, <2>6 DEF Onward
<1>. QED
  BY <1>2, <1>3

LEMMA OnwardFits ==
    ASSUME HooksInv, NEW p \in Procs, pc[p] # "idle", Onward(p),
           submitted' = submitted, transcript' = transcript, mine'[p] = Nothing
    PROVE  JobFits(p)'
<1>1. Busy(p) /\ submitted \in Nat
  BY DEF HooksInv, JobFits, TypeInv
<1>2. CASE pc'[p] = "idle" /\ job'[p] = NoJob
  BY <1>2 DEF JobFits
<1>3. CASE pc'[p] # "idle"
  <2>1. /\ pc'[p] \in {"lock", "log"} /\ job'[p] \in Jobs
        /\ job'[p].kind = job[p].kind /\ job'[p].gen = job[p].gen /\ job'[p].edit = job[p].edit
        /\ Tail(job[p].steps) # <<>> /\ job'[p].steps = Tail(job[p].steps)
        /\ pc'[p] = "log" <=> Head(job'[p].steps) = "log"
    BY <1>3 DEF Onward
  <2>2. Left(job[p].kind, Tail(job[p].steps))
    BY <1>1, <2>1, StepsLeft DEF Busy
  <2>3. mine'[p].prompts \subseteq 1 .. submitted
    BY <1>1 DEF Busy, Nothing
  <2>. QED
    BY <1>1, <1>3, <2>1, <2>2, <2>3 DEF Busy, JobFits, Step
<1>. QED
  BY <1>2, <1>3 DEF Onward

LEMMA InitHooks == Init => HooksInv
<1>. SUFFICES ASSUME Init PROVE HooksInv
  OBVIOUS
<1>1. <<>> \in Seq(Nat) /\ Len(<<>>) = 0 /\ DOMAIN <<>> = {}
  OBVIOUS
<1>2. NoFile \in EditCache /\ Nothing \in [prompts : SUBSET Nat, edits : EditCache]
  BY DEF NoFile, EditCache, Nothing
<1>3. DOMAIN log = {}
  BY DEF Init, EmptyBag, SetToBag
<1>4. /\ now \in Nat /\ submitted \in Nat /\ faults \in Nat /\ overrun \in BOOLEAN
      /\ prompts \subseteq 1 .. submitted /\ edits \in EditCache
      /\ transcript \in Seq(Nat) /\ Len(transcript) <= submitted
      /\ \A k \in DOMAIN transcript : transcript[k] = k
      /\ DOMAIN log \subseteq Rows /\ (\A r \in DOMAIN log : log[r] \in Nat)
      /\ suppressed \subseteq [gen : Nat, edit : Edits]
      /\ misled \in BOOLEAN /\ visible \subseteq Nat /\ rowless \subseteq [gen : Nat, edit : Values]
  <2>1. /\ now = 1 /\ submitted = 0 /\ faults = 0 /\ overrun = FALSE /\ prompts = {}
        /\ edits = NoFile /\ transcript = <<>> /\ suppressed = {}
        /\ misled = FALSE /\ visible = {} /\ rowless = {}
    BY DEF Init
  <2>2. transcript \in Seq(Nat) /\ Len(transcript) <= submitted
    BY <1>1, <2>1
  <2>3. \A k \in DOMAIN transcript : transcript[k] = k
    BY <1>1, <2>1
  <2>. QED
    BY <1>2, <1>3, <2>1, <2>2, <2>3
<1>5. /\ lock \in [Files -> Procs \cup {Free, Stale}]
      /\ pc \in [Procs -> PCs] /\ job \in [Procs -> Jobs \cup {NoJob}]
      /\ mine \in [Procs -> [prompts : SUBSET Nat, edits : EditCache]]
      /\ got \in [Procs -> Values]
  BY <1>2 DEF Init, PCs, Values
<1>6. TypeInv
  BY <1>4, <1>5 DEF TypeInv
<1>. QED
  BY <1>6 DEF Init, HooksInv, JobFits

(* An event begins.                                                        *)
LEMMA FireFits ==
    ASSUME HooksInv, NEW p \in Procs, NEW kind \in {"prompt", "answer", "tool", "edit"},
           NEW g, NEW e \in Values, NEW steps, Left(kind, steps),
           kind \in {"tool", "edit"} => e \in Edits,
           Fire(p, kind, g, e, steps), submitted' \in Nat, submitted <= submitted',
           transcript' = transcript, Len(transcript) <= submitted', g \in 1 .. submitted',
           kind # "prompt" => g <= Len(transcript)
    PROVE  /\ HooksInv' /\ OthersStay(p)
           /\ pc[p] = "idle" /\ pc'[p] \in {"lock", "log"} /\ job'[p].kind = kind /\ job'[p].gen = g
           /\ job'[p].steps = steps
           /\ pc'[p] = "log" <=> steps[1] = "log"
           /\ UNCHANGED <<now, files, mine, got, store, faults, history>>
<1>. DEFINE j == [kind |-> kind, gen |-> g, edit |-> e, steps |-> steps,
                  due |-> kind = "edit" /\ \E h \in edits.hunks : h.edit = e]
<1>1. /\ pc[p] = "idle" /\ job' = [job EXCEPT ![p] = j]
      /\ pc' = [pc EXCEPT ![p] = Start(p, steps)]
      /\ UNCHANGED <<now, files, mine, got, store, faults, history>>
  BY DEF Fire
<1>2. steps \in Seq(StepNames) /\ g \in Nat /\ Head(steps) = steps[1]
  BY StepsLeft DEF Left
<1>3. /\ j \in Jobs /\ j.kind = kind /\ j.gen = g /\ j.edit = e /\ j.steps = steps
  BY <1>2 DEF Jobs
<1>. HIDE DEF j
<1>4. /\ TypeInv /\ pc \in [Procs -> PCs] /\ job \in [Procs -> Jobs \cup {NoJob}]
  BY DEF HooksInv, TypeInv
<1>5. /\ pc' \in [Procs -> PCs] /\ job' \in [Procs -> Jobs \cup {NoJob}]
      /\ job'[p] = j /\ OthersStay(p)
      /\ pc'[p] \in {"lock", "log"} /\ (pc'[p] = "log" <=> Head(steps) = "log")
  BY <1>1, <1>3, <1>4 DEF Start, Unlocked, PCs, OthersStay
<1>6. 1 .. submitted \subseteq 1 .. submitted' /\ Len(transcript) \in Nat
  BY <1>4 DEF TypeInv
<1>7. TypeInv'
  BY <1>1, <1>4, <1>5, <1>6 DEF TypeInv, files
<1>8. mine'[p].prompts \subseteq 1 .. submitted'
  <2>1. mine[p].prompts \subseteq 1 .. submitted
    BY <1>1 DEF HooksInv, JobFits, Nothing
  <2>. QED
    BY <1>1, <1>6, <2>1
<1>9. JobFits(p)'
  <2>1. mine'[p] = Nothing
    BY <1>1 DEF HooksInv, JobFits
  <2>. QED
    BY <1>2, <1>3, <1>5, <1>8, <2>1 DEF JobFits, Busy, Step
<1>10. \A q \in Procs \ {p} : JobFits(q)'
  BY <1>4, <1>5, <1>6, OthersFit DEF TypeInv
<1>. QED
  BY <1>1, <1>2, <1>3, <1>5, <1>7, <1>9, <1>10 DEF HooksInv

-----------------------------------------------------------------------------
(* What a locked section makes of the file it read.                        *)

LEMMA FreshCache ==
    ASSUME NEW c \in EditCache
    PROVE  Fresh(c) \in EditCache /\ Fresh(c).done \subseteq c.done
  BY DEF Fresh, EditCache

LEMMA CacheHunks ==
    ASSUME NEW c \in EditCache, NEW H \in SUBSET [edit : Edits, at : Nat]
    PROVE  [c EXCEPT !.hunks = H] \in EditCache /\ [c EXCEPT !.hunks = H].done = c.done
  BY DEF EditCache

LEMMA CacheDone ==
    ASSUME NEW c \in EditCache, NEW D \in SUBSET [gen : Nat, edit : Edits, at : Nat]
    PROVE  [c EXCEPT !.done = D] \in EditCache /\ [c EXCEPT !.done = D].done = D
  BY DEF EditCache

LEMMA CacheChanges ==
    ASSUME NEW c \in EditCache, now \in Nat, NEW e \in Edits, NEW g \in Nat
    PROVE  /\ WithHunks(c, e) \in EditCache /\ WithHunks(c, e).done = c.done
           /\ FreshEntry(c, e) \in EditCache /\ FreshEntry(c, e).done = c.done
           /\ WithoutHunks(c, e) \in EditCache /\ WithoutHunks(c, e).done = c.done
           /\ Marked(c, g, e) \in EditCache
           /\ \A d \in Marked(c, g, e).done : d \in c.done \/ (d.gen = g /\ d.edit = e)
<1>1. /\ c.hunks \in SUBSET [edit : Edits, at : Nat]
      /\ c.done \in SUBSET [gen : Nat, edit : Edits, at : Nat]
  BY DEF EditCache
<1>2. WithHunks(c, e) \in EditCache /\ WithHunks(c, e).done = c.done
  <2>. DEFINE H == {h \in c.hunks : h.edit.file # e.file} \cup {[edit |-> e, at |-> now]}
  <2>1. H \in SUBSET [edit : Edits, at : Nat]
    BY <1>1
  <2>2. WithHunks(c, e) = [c EXCEPT !.hunks = H]
    BY DEF WithHunks
  <2>. HIDE DEF H
  <2>. QED
    BY <2>1, <2>2, CacheHunks
<1>3. FreshEntry(c, e) \in EditCache /\ FreshEntry(c, e).done = c.done
  <2>. DEFINE H == {h \in c.hunks : h.edit.file # e.file}
  <2>1. H \in SUBSET [edit : Edits, at : Nat]
    BY <1>1
  <2>2. FreshEntry(c, e) = [c EXCEPT !.hunks = H]
    BY DEF FreshEntry
  <2>. HIDE DEF H
  <2>. QED
    BY <2>1, <2>2, CacheHunks
<1>4. WithoutHunks(c, e) \in EditCache /\ WithoutHunks(c, e).done = c.done
  <2>. DEFINE H == c.hunks \ HunksFor(c, e)
  <2>1. H \in SUBSET [edit : Edits, at : Nat]
    BY <1>1
  <2>2. WithoutHunks(c, e) = [c EXCEPT !.hunks = H]
    BY DEF WithoutHunks
  <2>. HIDE DEF H
  <2>. QED
    BY <2>1, <2>2, CacheHunks
<1>5. /\ Marked(c, g, e) \in EditCache
      /\ \A d \in Marked(c, g, e).done : d \in c.done \/ (d.gen = g /\ d.edit = e)
  <2>. DEFINE D == {d \in c.done : ~(d.gen = g /\ d.edit.file = e.file)}
                       \cup {[gen |-> g, edit |-> e, at |-> now]}
  <2>1. D \in SUBSET [gen : Nat, edit : Edits, at : Nat]
    BY <1>1
  <2>2. Marked(c, g, e) = [c EXCEPT !.done = D]
    BY DEF Marked
  <2>3. \A d \in D : d \in c.done \/ (d.gen = g /\ d.edit = e)
    OBVIOUS
  <2>. HIDE DEF D
  <2>. QED
    BY <2>1, <2>2, <2>3, CacheDone
<1>. QED
  BY <1>2, <1>3, <1>4, <1>5

(* What the content that goes to the edit cache notes as logged.           *)
Notes(p, c) ==
    /\ c \in EditCache
    /\ \A d \in c.done :
          \/ d \in edits.done
          \/ Step(p) = "mark" /\ d.gen = job[p].gen /\ d.edit = job[p].edit

Loaded(p) ==
    \/ /\ Step(p) = "defer" /\ pc'[p] = "truncate"
       /\ mine'[p] = [prompts |-> prompts \cup {job[p].gen}, edits |-> NoFile]
    \/ /\ Step(p) = "flush" /\ pc'[p] = "logPrompt" /\ job[p].gen \in prompts
       /\ mine'[p] = [prompts |-> prompts \ {job[p].gen}, edits |-> NoFile]
    \/ /\ Step(p) \in {"flush", "check", "take"} /\ pc'[p] = "unlock" /\ mine'[p] = Nothing
       /\ Step(p) = "flush" => job[p].gen \notin prompts
    \/ /\ Step(p) \in {"hunks", "cache", "mark", "take"} /\ pc'[p] = "truncate"
       /\ \E c : Notes(p, c) /\ mine'[p] = [prompts |-> {}, edits |-> c]

LEMMA SetsOfPrompts ==
    ASSUME NEW n, NEW S, S \subseteq 1 .. n, NEW g, g \in 1 .. n
    PROVE  S \cup {g} \in SUBSET Nat /\ S \ {g} \in SUBSET Nat
  OBVIOUS

LEMMA LoadCases ==
    ASSUME HooksInv, NEW p \in Procs, Load(p)
    PROVE  /\ pc[p] = "lock" /\ Busy(p) /\ Loaded(p)
           /\ pc' \in [Procs -> PCs]
           /\ mine' \in [Procs -> [prompts : SUBSET Nat, edits : EditCache]]
           /\ got' \in [Procs -> Values]
           /\ \A q \in Procs \ {p} : pc'[q] = pc[q] /\ mine'[q] = mine[q]
           /\ UNCHANGED <<now, submitted, transcript, events, prompts, edits, store, faults, misled,
                        rowless>>
           /\ Lock(p) \/ GiveUp(p)
<1>. DEFINE g == job[p].gen
            e == job[p].edit
<1>1. /\ pc[p] = "lock" /\ mine[p] = Nothing /\ Busy(p)
      /\ Lock(p) \/ GiveUp(p)
      /\ UNCHANGED <<now, submitted, transcript, events, prompts, edits, store, faults, misled,
                        rowless>>
  BY DEF Load, HooksInv, JobFits
<1>2. /\ pc \in [Procs -> PCs] /\ mine \in [Procs -> [prompts : SUBSET Nat, edits : EditCache]]
      /\ got \in [Procs -> Values] /\ edits \in EditCache /\ now \in Nat
      /\ prompts \subseteq 1 .. submitted /\ submitted \in Nat
      /\ g \in 1 .. submitted /\ g \in Nat
      /\ Step(p) = job[p].steps[1] /\ Left(job[p].kind, job[p].steps)
      /\ NoFile \in EditCache
  BY <1>1, StepsLeft DEF HooksInv, TypeInv, Busy, Step, NoFile, EditCache, Jobs
<1>3. Step(p) \in {"hunks", "cache", "mark", "take", "check"} => e \in Edits
  BY <1>1, <1>2, FirstStep DEF Busy
<1>4. ASSUME NEW c, Step(p) \in {"defer", "flush"}, Save(p, c)
      PROVE  /\ pc' = [pc EXCEPT ![p] = "truncate"]
             /\ mine' = [mine EXCEPT ![p] = [prompts |-> c, edits |-> NoFile]]
  BY <1>4 DEF Save, FileOf, Content
<1>5. ASSUME NEW c, Step(p) \in {"hunks", "cache", "mark", "take"}, Save(p, Fresh(c)),
             c \in EditCache,
             \A d \in c.done : d \in edits.done \/ (Step(p) = "mark" /\ d.gen = g /\ d.edit = e)
      PROVE  /\ Loaded(p) /\ pc' \in [Procs -> PCs]
             /\ mine' \in [Procs -> [prompts : SUBSET Nat, edits : EditCache]]
             /\ \A q \in Procs \ {p} : pc'[q] = pc[q] /\ mine'[q] = mine[q]
  <2>1. /\ pc' = [pc EXCEPT ![p] = "truncate"]
        /\ mine' = [mine EXCEPT ![p] = [prompts |-> {}, edits |-> Fresh(c)]]
    BY <1>5 DEF Save, FileOf, Content
  <2>2. Notes(p, Fresh(c))
    BY <1>5, FreshCache DEF Notes
  <2>3. [prompts |-> {}, edits |-> Fresh(c)] \in [prompts : SUBSET Nat, edits : EditCache]
    BY <2>2 DEF Notes
  <2>. QED
    BY <1>2, <1>5, <2>1, <2>2, <2>3 DEF Loaded, PCs
<1>6. ASSUME Keep(p), Step(p) \in {"flush", "check", "take"},
             Step(p) = "flush" => g \notin prompts
      PROVE  /\ Loaded(p) /\ pc' \in [Procs -> PCs]
             /\ mine' \in [Procs -> [prompts : SUBSET Nat, edits : EditCache]]
             /\ \A q \in Procs \ {p} : pc'[q] = pc[q] /\ mine'[q] = mine[q]
  BY <1>1, <1>2, <1>6 DEF Keep, Loaded, PCs
<1>7. CASE Step(p) = "defer" /\ Save(p, prompts \cup {g}) /\ UNCHANGED got
  <2>1. prompts \cup {g} \in SUBSET Nat
    BY ONLY <1>2, SetsOfPrompts
  <2>2. [prompts |-> prompts \cup {g}, edits |-> NoFile]
            \in [prompts : SUBSET Nat, edits : EditCache]
    BY <1>2, <2>1
  <2>. QED
    <3>1. /\ pc' = [pc EXCEPT ![p] = "truncate"]
          /\ mine' = [mine EXCEPT ![p] = [prompts |-> prompts \cup {g}, edits |-> NoFile]]
      BY <1>4, <1>7
    <3>. QED
      BY <1>1, <1>2, <1>7, <2>2, <3>1 DEF Loaded, PCs
<1>8. CASE Step(p) = "flush" /\ g \in prompts /\ UNCHANGED got
           /\ mine' = [mine EXCEPT ![p] = Content("prompts", Flushed(prompts, g))]
           /\ pc' = [pc EXCEPT ![p] = "logPrompt"]
  <2>1. Content("prompts", Flushed(prompts, g)) = [prompts |-> prompts \ {g}, edits |-> NoFile]
    BY DEF Content, Flushed
  <2>2. prompts \ {g} \in SUBSET Nat
    BY ONLY <1>2, SetsOfPrompts
  <2>3. [prompts |-> prompts \ {g}, edits |-> NoFile] \in [prompts : SUBSET Nat, edits : EditCache]
    BY <1>2, <2>2
  <2>. QED
    BY <1>1, <1>2, <1>8, <2>1, <2>3 DEF Loaded, PCs
<1>9. CASE Step(p) = "flush" /\ g \notin prompts /\ Keep(p) /\ UNCHANGED got
  BY <1>1, <1>2, <1>6, <1>9
<1>10. CASE Step(p) = "check" /\ Keep(p) /\ UNCHANGED got
  BY <1>1, <1>2, <1>6, <1>10
<1>11. CASE Step(p) = "hunks" /\ Save(p, Fresh(WithHunks(edits, e))) /\ UNCHANGED got
  <2>1. e \in Edits
    BY <1>3, <1>11
  <2>2. /\ WithHunks(edits, e) \in EditCache
        /\ WithHunks(edits, e).done = edits.done
    BY <1>2, <2>1, CacheChanges
  <2>3. Loaded(p) /\ pc' \in [Procs -> PCs]
        /\ mine' \in [Procs -> [prompts : SUBSET Nat, edits : EditCache]]
        /\ \A q \in Procs \ {p} : pc'[q] = pc[q] /\ mine'[q] = mine[q]
    BY <1>5, <1>11, <2>2
  <2>. QED
    BY <1>1, <1>2, <1>11, <2>3
<1>12. CASE Step(p) = "cache" /\ Save(p, Fresh(FreshEntry(edits, e))) /\ UNCHANGED got
  <2>1. e \in Edits
    BY <1>3, <1>12
  <2>2. /\ FreshEntry(edits, e) \in EditCache
        /\ FreshEntry(edits, e).done = edits.done
    BY <1>2, <2>1, CacheChanges
  <2>3. Loaded(p) /\ pc' \in [Procs -> PCs]
        /\ mine' \in [Procs -> [prompts : SUBSET Nat, edits : EditCache]]
        /\ \A q \in Procs \ {p} : pc'[q] = pc[q] /\ mine'[q] = mine[q]
    BY <1>5, <1>12, <2>2
  <2>. QED
    BY <1>1, <1>2, <1>12, <2>3
<1>13. CASE Step(p) = "mark" /\ Save(p, Fresh(Marked(edits, g, e))) /\ UNCHANGED got
  <2>1. e \in Edits
    BY <1>3, <1>13
  <2>2. /\ Marked(edits, g, e) \in EditCache
        /\ \A d \in Marked(edits, g, e).done : d \in edits.done \/ (d.gen = g /\ d.edit = e)
    BY <1>2, <2>1, CacheChanges
  <2>3. Loaded(p) /\ pc' \in [Procs -> PCs]
        /\ mine' \in [Procs -> [prompts : SUBSET Nat, edits : EditCache]]
        /\ \A q \in Procs \ {p} : pc'[q] = pc[q] /\ mine'[q] = mine[q]
    BY <1>5, <1>13, <2>2
  <2>. QED
    BY <1>1, <1>2, <1>13, <2>3
<1>14. CASE Step(p) = "take" /\ HunksFor(edits, e) = {} /\ Keep(p) /\ UNCHANGED got
  BY <1>1, <1>2, <1>6, <1>14
<1>15. CASE /\ Step(p) = "take" /\ Save(p, Fresh(WithoutHunks(edits, e)))
            /\ \E h \in HunksFor(edits, e) : got' = [got EXCEPT ![p] = h.edit]
  <2>1. got' \in [Procs -> Values]
    BY <1>2, <1>15 DEF HunksFor, EditCache, Values
  <2>2. WithoutHunks(edits, e) \in EditCache /\ WithoutHunks(edits, e).done = edits.done
    BY <1>2, <1>3, <1>15, CacheChanges
  <2>. QED
    BY <1>1, <1>5, <1>15, <2>1, <2>2
<1>. QED
  BY <1>7, <1>8, <1>9, <1>10, <1>11, <1>12, <1>13, <1>14, <1>15 DEF Load

-----------------------------------------------------------------------------
(* Every step keeps the types.                                             *)

(* The event, with what it has left when it finds itself a duplicate.      *)
Judged(p) ==
    \/ job'[p] = job[p] /\ suppressed' = suppressed
    \/ /\ Step(p) = "check" /\ IsDuplicate(edits, job[p].gen, job[p].edit)
       /\ job'[p] \in Jobs /\ job'[p].kind = job[p].kind /\ job'[p].gen = job[p].gen
       /\ job'[p].edit = job[p].edit /\ job'[p].steps = <<"check">>
       /\ suppressed' = suppressed \cup {[gen |-> job[p].gen, edit |-> job[p].edit]}

LEMMA LoadJudges ==
    ASSUME HooksInv, NEW p \in Procs, Load(p)
    PROVE  /\ Judged(p) /\ job' \in [Procs -> Jobs \cup {NoJob}]
           /\ \A q \in Procs \ {p} : job'[q] = job[q]
           /\ suppressed' \subseteq [gen : Nat, edit : Edits]
<1>1. /\ Busy(p) /\ job[p] \in Jobs /\ job \in [Procs -> Jobs \cup {NoJob}]
      /\ suppressed \subseteq [gen : Nat, edit : Edits]
  BY LoadCases DEF HooksInv, TypeInv, Busy
<1>2. Step(p) = job[p].steps[1] /\ Left(job[p].kind, job[p].steps)
  BY <1>1, StepsLeft DEF Busy, Step
<1>3. CASE Step(p) = "check" /\ IsDuplicate(edits, job[p].gen, job[p].edit)
  <2>1. job[p].edit \in Edits /\ job[p].gen \in Nat
    <3>1. job[p].steps[1] = "check"
      BY <1>2, <1>3
    <3>2. job[p].kind \in {"tool", "edit"}
      BY <1>2, <3>1, FirstStep
    <3>. QED
      BY <1>1, <3>2 DEF Busy, Jobs
  <2>2. /\ job' = [job EXCEPT ![p].steps = <<"check">>]
        /\ suppressed' = suppressed \cup {[gen |-> job[p].gen, edit |-> job[p].edit]}
    BY <1>3 DEF Load
  <2>3. <<"check">> \in Seq(StepNames)
    BY DEF StepNames
  <2>4. job'[p] = [job[p] EXCEPT !.steps = <<"check">>]
    BY <1>1, <2>2
  <2>5. /\ job'[p] \in Jobs /\ job'[p].steps = <<"check">>
        /\ job'[p].kind = job[p].kind /\ job'[p].gen = job[p].gen /\ job'[p].edit = job[p].edit
    <3>. DEFINE s == <<"check">>
    <3>1. s \in Seq(StepNames) /\ job'[p] = [job[p] EXCEPT !.steps = s] /\ job[p] \in Jobs
      BY <1>1, <2>3, <2>4
    <3>. HIDE DEF s
    <3>2. /\ job'[p] \in Jobs /\ job'[p].steps = s
          /\ job'[p].kind = job[p].kind /\ job'[p].gen = job[p].gen /\ job'[p].edit = job[p].edit
      BY ONLY <3>1, WithSteps
    <3>. QED
      BY <3>2 DEF s
  <2>6. /\ job' \in [Procs -> Jobs \cup {NoJob}] /\ \A q \in Procs \ {p} : job'[q] = job[q]
    BY <1>1, <2>2, <2>4, <2>5
  <2>. QED
    BY <1>1, <1>3, <2>1, <2>2, <2>5, <2>6 DEF Judged
<1>4. CASE ~(Step(p) = "check" /\ IsDuplicate(edits, job[p].gen, job[p].edit))
  <2>1. job' = job /\ suppressed' = suppressed
    BY <1>4 DEF Load
  <2>. QED
    BY <1>1, <2>1 DEF Judged
<1>. QED
  BY <1>3, <1>4

LEMMA LoadFits ==
    ASSUME HooksInv, NEW p \in Procs, Load(p)
    PROVE  HooksInv' /\ OthersStay(p)
<1>1. /\ pc[p] = "lock" /\ Busy(p) /\ Loaded(p)
      /\ pc' \in [Procs -> PCs]
      /\ mine' \in [Procs -> [prompts : SUBSET Nat, edits : EditCache]]
      /\ got' \in [Procs -> Values]
      /\ \A q \in Procs \ {p} : pc'[q] = pc[q] /\ mine'[q] = mine[q]
      /\ UNCHANGED <<now, submitted, transcript, events, prompts, edits, store, faults, misled,
                        rowless>>
      /\ Lock(p) \/ GiveUp(p)
  BY LoadCases
<1>2. /\ Judged(p) /\ job' \in [Procs -> Jobs \cup {NoJob}]
      /\ \A q \in Procs \ {p} : job'[q] = job[q]
      /\ suppressed' \subseteq [gen : Nat, edit : Edits]
  BY LoadJudges
<1>3. OthersStay(p)
  BY <1>1, <1>2 DEF OthersStay
<1>4. lock' \in [Files -> Procs \cup {Free, Stale}] /\ overrun' \in BOOLEAN
  BY <1>1 DEF Lock, GiveUp, HooksInv, TypeInv
<1>5. TypeInv'
  BY <1>1, <1>2, <1>4 DEF HooksInv, TypeInv
<1>6. /\ prompts \subseteq 1 .. submitted /\ submitted \in Nat /\ Len(transcript) \in Nat
      /\ job[p].gen \in 1 .. submitted
  BY <1>1 DEF HooksInv, TypeInv, Busy
<1>7. \A q \in Procs \ {p} : JobFits(q)'
  BY <1>1, <1>3, <1>6, OthersFit
<1>8. mine'[p].prompts \subseteq 1 .. submitted
  BY <1>1, <1>6 DEF Loaded, Nothing
<1>9. /\ job'[p] \in Jobs /\ job'[p].kind = job[p].kind /\ job'[p].gen = job[p].gen
      /\ job'[p].edit = job[p].edit /\ Head(job'[p].steps) = Step(p)
      /\ Left(job[p].kind, job'[p].steps)
  <2>1. CASE job'[p] = job[p]
    BY <1>1, <2>1 DEF Busy, Step
  <2>2. CASE /\ Step(p) = "check" /\ job'[p] \in Jobs /\ job'[p].kind = job[p].kind
             /\ job'[p].gen = job[p].gen /\ job'[p].edit = job[p].edit
             /\ job'[p].steps = <<"check">>
    <3>1. job[p].kind \in {"tool", "edit"}
      <4>1. Step(p) = job[p].steps[1] /\ Left(job[p].kind, job[p].steps)
        BY <1>1, StepsLeft DEF Busy, Step
      <4>. QED
        BY <2>2, <4>1, FirstStep
    <3>2. Left(job[p].kind, <<"check">>)
      BY <3>1 DEF Left, StepNames
    <3>3. Head(<<"check">>) = "check"
      OBVIOUS
    <3>. QED
      BY <2>2, <3>2, <3>3
  <2>. QED
    BY <1>2, <2>1, <2>2 DEF Judged
<1>10. /\ pc'[p] \notin {"idle", "log"} /\ Step(p) # "log"
       /\ pc'[p] = "logPrompt" => Step(p) = "flush"
       /\ pc'[p] \notin {"logPrompt", "truncate", "write"} => mine'[p] = Nothing
  BY <1>1 DEF Loaded
<1>11. Busy(p)'
  <2>1. Step(p)' = Step(p)
    BY <1>9 DEF Step
  <2>. QED
    BY <1>1, <1>8, <1>9, <1>10, <2>1 DEF Busy
<1>. QED
  BY <1>3, <1>5, <1>7, <1>10, <1>11 DEF HooksInv, JobFits

LEMMA BagOfRows ==
    ASSUME NEW B, NEW x, \A y \in DOMAIN B : B[y] \in Nat, NEW C, C = B (+) SetToBag({x})
    PROVE  /\ DOMAIN C = DOMAIN B \cup {x}
           /\ \A y \in DOMAIN C : C[y] \in Nat
           /\ x \notin DOMAIN B => C[x] = 1
<1>1. SetToBag({x}) = [e \in {x} |-> 1]
  BY DEF SetToBag
<1>2. C = [e \in DOMAIN B \cup {x} |-> (IF e \in DOMAIN B THEN B[e] ELSE 0)
                                        + (IF e \in {x} THEN 1 ELSE 0)]
  BY <1>1 DEF (+)
<1>3. \A y \in DOMAIN B : B[y] \in Nat
  OBVIOUS
<1>4. DOMAIN C = DOMAIN B \cup {x}
  BY ONLY <1>2
<1>5. ASSUME NEW y \in DOMAIN C PROVE C[y] \in Nat
  BY ONLY <1>2, <1>3, <1>4
<1>6. x \notin DOMAIN B => C[x] = 1
  BY ONLY <1>2, <1>3, <1>4
<1>. QED
  BY <1>4, <1>5, <1>6

LEMMA LeastNat ==
    ASSUME NEW T \in SUBSET Nat, T # {}
    PROVE  \E x \in T : \A y \in T : x <= y
<1>1. T \subseteq Nat /\ T # {} /\ IsWellFoundedOn(OpToRel(<, Nat), Nat)
  BY NatLessThanWellFounded
<1>2. PICK x \in T : \A y \in T : ~(<<y, x>> \in OpToRel(<, Nat))
  BY ONLY <1>1, WFMin
<1>3. ASSUME NEW y \in T PROVE x <= y
  <2>1. SUFFICES ASSUME y < x PROVE FALSE
    OBVIOUS
  <2>2. <<y, x>> \in OpToRel(<, Nat)
    BY <2>1 DEF OpToRel
  <2>. QED
    BY <1>2, <2>2
<1>. QED
  BY <1>3

LEMMA SegmentNewest ==
    ASSUME NEW n \in Nat, NEW S, S \subseteq 1 .. n, S # {}
    PROVE  Newest(S) \in S
<1>. DEFINE U == {m \in Nat : \A y \in S : y <= m}
<1>1. S \subseteq Nat /\ n \in U /\ U \in SUBSET Nat
  OBVIOUS
<1>. HIDE DEF U
<1>2. PICK m \in U : \A u \in U : m <= u
  BY <1>1, LeastNat
<1>3. m \in Nat /\ \A y \in S : y <= m
  BY <1>2 DEF U
<1>4. m \in S
  <2>1. SUFFICES ASSUME m \notin S PROVE FALSE
    OBVIOUS
  <2>2. \A y \in S : y < m
    BY <1>1, <1>3, <2>1
  <2>3. PICK z \in S : TRUE
    OBVIOUS
  <2>4. z \in Nat /\ z < m /\ z >= 1
    BY <1>1, <2>2
  <2>5. m - 1 \in Nat /\ m - 1 < m /\ \A y \in S : y <= m - 1
    BY <1>1, <1>3, <2>2, <2>4
  <2>6. m - 1 \in U
    BY <2>5 DEF U
  <2>. QED
    BY <1>2, <1>3, <2>5, <2>6
<1>5. \E x \in S : \A y \in S : y <= x
  BY <1>3, <1>4
<1>. QED
  BY <1>5 DEF Newest

LEMMA TickFits ==
    ASSUME HooksInv, Tick
    PROVE  HooksInv'
<1>1. UNCHANGED <<submitted, transcript, events, files, pc, job, mine, got, store, faults,
                  history>>
      /\ now' = now + 1
  BY DEF Tick
<1>2. TypeInv'
  BY <1>1 DEF HooksInv, TypeInv, files
<1>3. ASSUME NEW q \in Procs PROVE JobFits(q)'
  <2>1. submitted \in Nat /\ Len(transcript) \in Nat
    BY DEF HooksInv, TypeInv
  <2>. QED
    BY <1>1, <2>1, StillFits
<1>. QED
  BY <1>2, <1>3 DEF HooksInv

LEMMA TranscribeFits ==
    ASSUME HooksInv, Transcribe
    PROVE  /\ HooksInv' /\ Len(transcript') = Len(transcript) + 1
           /\ Len(transcript) \in Nat /\ Len(transcript) < submitted
<1>1. /\ UNCHANGED <<now, submitted, events, files, pc, job, mine, got, store, faults,
                     history>>
      /\ transcript' = Append(transcript, Len(transcript) + 1)
      /\ Len(transcript) < submitted
  BY DEF Transcribe
<1>2. /\ transcript \in Seq(Nat) /\ submitted \in Nat /\ Len(transcript) \in Nat
      /\ \A k \in DOMAIN transcript : transcript[k] = k
  BY DEF HooksInv, TypeInv
<1>3. /\ transcript' \in Seq(Nat) /\ Len(transcript') = Len(transcript) + 1
      /\ \A k \in DOMAIN transcript' : transcript'[k] = k
  BY <1>1, <1>2
<1>4. TypeInv'
  BY <1>1, <1>2, <1>3 DEF HooksInv, TypeInv, files
<1>5. ASSUME NEW q \in Procs PROVE JobFits(q)'
  BY <1>1, <1>2, <1>3, StillFits
<1>. QED
  BY <1>1, <1>2, <1>3, <1>4, <1>5 DEF HooksInv

LEMMA SubmitFits ==
    ASSUME HooksInv, NEW p \in Procs, Submit(p)
    PROVE  /\ HooksInv' /\ OthersStay(p) /\ pc[p] = "idle" /\ pc'[p] \in {"lock", "log"}
           /\ submitted' = submitted + 1 /\ transcript' = transcript
           /\ job'[p].kind = "prompt" /\ job'[p].gen = submitted + 1
           /\ UNCHANGED <<now, files, mine, got, store, faults, history>>
<1>1. /\ submitted' = submitted + 1 /\ transcript' = transcript
      /\ \E garbled \in BOOLEAN :
            Fire(p, "prompt", submitted + 1, NoEdit, IF garbled THEN <<"defer">> ELSE <<"log">>)
  BY DEF Submit
<1>2. PICK step \in {"defer", "log"} : Fire(p, "prompt", submitted + 1, NoEdit, <<step>>)
  BY <1>1
<1>3. /\ Len(transcript) \in Nat /\ Len(transcript) <= submitted /\ submitted \in Nat
      /\ submitted' \in Nat /\ submitted <= submitted' /\ submitted + 1 \in 1 .. submitted'
      /\ Len(transcript) <= submitted'
  BY <1>1 DEF HooksInv, TypeInv
<1>4. Left("prompt", <<step>>) /\ NoEdit \in Values
  BY PromptLeft DEF Values
<1>. DEFINE steps == <<step>>
            g == submitted + 1
<1>5. Left("prompt", steps) /\ Fire(p, "prompt", g, NoEdit, steps) /\ g \in 1 .. submitted'
  BY <1>2, <1>3, <1>4
<1>. HIDE DEF steps, g
<1>6. /\ HooksInv' /\ OthersStay(p)
      /\ pc[p] = "idle" /\ pc'[p] \in {"lock", "log"}
      /\ job'[p].kind = "prompt" /\ job'[p].gen = g
      /\ UNCHANGED <<now, files, mine, got, store, faults, history>>
  BY <1>1, <1>3, <1>4, <1>5, FireFits
<1>. QED
  BY <1>1, <1>6 DEF g

LEMMA LaterFits ==
    ASSUME HooksInv, NEW p \in Procs, NEW kind \in {"answer", "tool", "edit"}, NEW e \in Values,
           NEW steps, Left(kind, steps), kind \in {"tool", "edit"} => e \in Edits,
           steps[1] # "log", Later(p, kind, e, steps)
    PROVE  /\ HooksInv' /\ OthersStay(p) /\ pc[p] = "idle" /\ pc'[p] = "lock"
           /\ job'[p].kind = kind /\ job'[p].steps = steps
           /\ UNCHANGED <<submitted, transcript>>
           /\ UNCHANGED <<now, files, mine, got, store, faults, history>>
<1>1. UNCHANGED <<submitted, transcript>>
  BY DEF Later
<1>2. PICK k \in DOMAIN transcript : Fire(p, kind, transcript[k], e, steps)
  BY DEF Later
<1>3. /\ Len(transcript) \in Nat /\ submitted \in Nat
      /\ transcript[k] \in 1 .. submitted /\ transcript[k] <= Len(transcript)
      /\ Len(transcript) <= submitted
  BY DEF HooksInv, TypeInv
<1>. DEFINE g == transcript[k]
<1>4. Fire(p, kind, g, e, steps) /\ g \in 1 .. submitted /\ g <= Len(transcript)
  BY <1>2, <1>3
<1>. HIDE DEF g
<1>5. /\ submitted' \in Nat /\ submitted <= submitted' /\ Len(transcript) <= submitted'
      /\ g \in 1 .. submitted'
  BY <1>1, <1>3, <1>4
<1>6. /\ kind \in {"prompt", "answer", "tool", "edit"} /\ transcript' = transcript
      /\ kind # "prompt"
  BY <1>1
<1>7. /\ HooksInv' /\ OthersStay(p)
      /\ pc[p] = "idle" /\ pc'[p] \in {"lock", "log"} /\ job'[p].kind = kind
      /\ job'[p].steps = steps /\ (pc'[p] = "log" => steps[1] = "log")
      /\ UNCHANGED <<now, files, mine, got, store, faults, history>>
  <2>1. /\ HooksInv /\ Left(kind, steps) /\ (kind \in {"tool", "edit"} => e \in Edits)
        /\ Len(transcript) <= submitted' /\ (kind # "prompt" => g <= Len(transcript))
    BY <1>4, <1>5
  <2>2. /\ kind \in {"prompt", "answer", "tool", "edit"} /\ g \in 1 .. submitted'
        /\ Fire(p, kind, g, e, steps) /\ submitted' \in Nat /\ submitted <= submitted'
    BY <1>4, <1>5, <1>6
  <2>3. /\ HooksInv' /\ OthersStay(p)
        /\ pc[p] = "idle" /\ pc'[p] \in {"lock", "log"} /\ job'[p].kind = kind /\ job'[p].gen = g
        /\ job'[p].steps = steps
        /\ pc'[p] = "log" <=> steps[1] = "log"
        /\ UNCHANGED <<now, files, mine, got, store, faults, history>>
    BY ONLY <1>6, <2>1, <2>2, FireFits
  <2>. QED
    BY ONLY <2>3
<1>. QED
  BY <1>1, <1>7

(* The events of a generation that is in the transcript.                   *)
LEMMA TurnFits ==
    ASSUME HooksInv, NEW p \in Procs, Respond(p) \/ UseEditTool(p) \/ AfterFileEdit(p)
    PROVE  /\ HooksInv' /\ OthersStay(p) /\ pc[p] = "idle" /\ pc'[p] = "lock"
           /\ job'[p].kind # "prompt" /\ job'[p].steps[1] = "flush"
           /\ UNCHANGED <<submitted, transcript>>
           /\ UNCHANGED <<now, files, mine, got, store, faults, history>>
<1>1. CASE Respond(p)
  <2>. DEFINE steps == <<"flush", "log">>
  <2>1. Left("answer", steps) /\ steps[1] = "flush" /\ NoEdit \in Values
        /\ Later(p, "answer", NoEdit, steps)
    BY <1>1, AnswerLeft DEF Respond, Values
  <2>. HIDE DEF steps
  <2>. QED
    BY <2>1, LaterFits
<1>2. CASE UseEditTool(p)
  <2>. DEFINE steps == <<"flush", "hunks">>
  <2>1. PICK e \in Edits : Later(p, "tool", e, steps)
    BY <1>2 DEF UseEditTool
  <2>2. Left("tool", steps) /\ steps[1] = "flush" /\ e \in Values
    BY ToolLeft DEF Values
  <2>. HIDE DEF steps
  <2>. QED
    BY <2>1, <2>2, LaterFits
<1>3. CASE AfterFileEdit(p)
  <2>1. PICK e \in Edits :
          Later(p, "edit", e, <<"flush", "cache", "check">>
                              \o (IF e.new THEN <<>> ELSE <<"take">>) \o <<"log", "mark">>)
    BY <1>3 DEF AfterFileEdit
  <2>2. PICK s \in {<<>>, <<"take">>} :
          Later(p, "edit", e, <<"flush", "cache", "check">> \o s \o <<"log", "mark">>)
    BY <2>1
  <2>. DEFINE steps == <<"flush", "cache", "check">> \o s \o <<"log", "mark">>
  <2>3. Left("edit", steps) /\ Head(steps) = "flush" /\ Later(p, "edit", e, steps)
    BY <2>2, EditLeft
  <2>. HIDE DEF steps
  <2>4. steps[1] = "flush" /\ e \in Values
    BY <2>3, StepsLeft DEF Values
  <2>. QED
    BY <2>3, <2>4, LaterFits
<1>. QED
  BY <1>1, <1>2, <1>3

(* A process goes on in its section.                                       *)
LEMMA MoveFits ==
    ASSUME HooksInv, NEW p \in Procs, pc[p] \notin {"idle", "log"}, job'[p] = job[p],
           pc'[p] \notin {"idle", "log"}, pc'[p] = "logPrompt" => Step(p) = "flush",
           mine'[p].prompts \subseteq 1 .. submitted,
           pc'[p] \notin {"logPrompt", "truncate", "write"} => mine'[p] = Nothing,
           submitted' = submitted, transcript' = transcript
    PROVE  JobFits(p)'
<1>1. Busy(p) /\ Step(p)' = Step(p)
  BY DEF HooksInv, JobFits, Step
<1>2. Busy(p)'
  BY <1>1 DEF Busy
<1>. QED
  BY <1>2 DEF JobFits

LEMMA TranscribedPrompts ==
    ASSUME HooksInv
    PROVE  Transcribed = 1 .. Len(transcript) /\ Len(transcript) \in Nat
<1>1. /\ transcript \in Seq(Nat) /\ Len(transcript) \in Nat
      /\ \A k \in DOMAIN transcript : transcript[k] = k
  BY DEF HooksInv, TypeInv
<1>. QED
  BY <1>1 DEF Transcribed

LEMMA ResolvedPrompt ==
    ASSUME HooksInv, NEW p \in Procs, pc[p] = "logPrompt"
    PROVE  /\ Step(p) = "flush" /\ job[p].kind # "prompt"
           /\ job[p].gen \in 1 .. Len(transcript)
           /\ \A S \in Scans, T \in Lists : Resolved(S, T) \in 1 .. Len(transcript)
           /\ Transcribed \ LoggedTexts # {} =>
                 Resolved(Transcribed, LoggedTexts) \in Transcribed \ LoggedTexts
<1>1. Busy(p)
  BY DEF HooksInv, JobFits
<1>2. Step(p) = "flush" /\ Left(job[p].kind, job[p].steps)
  BY <1>1 DEF Busy
<1>3. job[p].steps[1] = "flush"
  BY <1>2, StepsLeft DEF Step
<1>4. job[p].kind # "prompt"
  BY <1>2, <1>3, FirstStep
<1>5. Transcribed = 1 .. Len(transcript) /\ Len(transcript) \in Nat
  BY TranscribedPrompts
<1>6. job[p].gen \in 1 .. Len(transcript)
  BY <1>1, <1>4, <1>5 DEF Busy, Jobs
<1>7. Newest(Transcribed) \in Transcribed
  <2>1. Transcribed \subseteq 1 .. Len(transcript) /\ Transcribed # {}
    BY <1>5, <1>6
  <2>. QED
    BY <1>5, <2>1, SegmentNewest
<1>8. ASSUME NEW S, S \subseteq Transcribed, NEW T, S \ T # {}
      PROVE  Newest(S \ T) \in S \ T
  <2>. DEFINE R == S \ T
  <2>1. R \subseteq 1 .. Len(transcript) /\ R # {}
    BY <1>5, <1>8
  <2>. HIDE DEF R
  <2>2. Newest(R) \in R
    BY <1>5, <2>1, SegmentNewest
  <2>. QED
    BY <2>2 DEF R
<1>9. ASSUME NEW S \in Scans, NEW T \in Lists PROVE Resolved(S, T) \in 1 .. Len(transcript)
  <2>1. S \subseteq Transcribed
    BY DEF Scans
  <2>2. CASE S \ T # {}
    BY <1>5, <1>8, <2>1, <2>2 DEF Resolved
  <2>3. CASE S \ T = {}
    BY <1>5, <1>7, <2>3 DEF Resolved
  <2>. QED
    BY <2>2, <2>3
<1>10. ASSUME Transcribed \ LoggedTexts # {}
       PROVE  Resolved(Transcribed, LoggedTexts) \in Transcribed \ LoggedTexts
  BY <1>8, <1>10 DEF Resolved
<1>. QED
  BY <1>2, <1>4, <1>6, <1>9, <1>10

(* A row that joins the log.                                               *)
LEMMA RowJoins ==
    ASSUME HooksInv, NEW row \in Rows, Insert(row)
    PROVE  /\ DOMAIN log' = DOMAIN log \cup {row} /\ DOMAIN log' \subseteq Rows
           /\ \A r \in DOMAIN log' : log'[r] \in Nat
           /\ row \notin DOMAIN log => log'[row] = 1
           /\ \A r \in DOMAIN log : r # row => log'[r] = log[r]
<1>1. DOMAIN log \subseteq Rows /\ \A r \in DOMAIN log : log[r] \in Nat
  BY DEF HooksInv, TypeInv
<1>2. log' = log (+) SetToBag({row})
  BY DEF Insert
<1>3. DOMAIN log' = DOMAIN log \cup {row}
  BY ONLY <1>1, <1>2, BagOfRows
<1>4. \A r \in DOMAIN log' : log'[r] \in Nat
  BY ONLY <1>1, <1>2, BagOfRows
<1>5. row \notin DOMAIN log => log'[row] = 1
  BY ONLY <1>1, <1>2, BagOfRows
<1>6. ASSUME NEW r \in DOMAIN log, r # row PROVE log'[r] = log[r]
  <2>1. SetToBag({row}) = [e \in {row} |-> 1]
    BY DEF SetToBag
  <2>2. log' = [e \in DOMAIN log \cup {row} |-> (IF e \in DOMAIN log THEN log[e] ELSE 0)
                                                + (IF e \in {row} THEN 1 ELSE 0)]
    BY <1>2, <2>1 DEF (+)
  <2>3. log[r] \in Nat /\ r \in DOMAIN log /\ r # row
    BY <1>1, <1>6
  <2>4. log'[r] = log[r] + 0
    BY ONLY <2>2, <2>3
  <2>. QED
    BY <2>3, <2>4
<1>. QED
  BY <1>1, <1>3, <1>4, <1>5, <1>6

(* What a call of LogDiscussion does to the rows.                          *)
Taken(row) == Insert(row) /\ (faults' = faults \/ faults' # 0)

LEMMA CallsFit ==
    ASSUME HooksInv, NEW row \in Rows, Create(row) \/ Spool(row) \/ Lose \/ Repeat(row)
    PROVE  /\ DOMAIN log' \subseteq Rows /\ DOMAIN log \subseteq DOMAIN log'
           /\ \A r \in DOMAIN log' : log'[r] \in Nat
           /\ visible' \subseteq Nat /\ faults' \in Nat
           /\ \/ (Create(row) \/ Spool(row)) /\ Taken(row) /\ row \in DOMAIN log'
              \/ Lose /\ log' = log /\ faults' # 0
              \/ Repeat(row) /\ log' = log /\ faults' = faults /\ row.kind # "prompt"
<1>1. /\ DOMAIN log \subseteq Rows /\ (\A r \in DOMAIN log : log[r] \in Nat) /\ faults \in Nat
      /\ visible \subseteq Nat
  BY DEF HooksInv, TypeInv
<1>2. LoggedTexts \subseteq Nat
  BY <1>1 DEF LoggedTexts, Rows
<1>3. \A v \in Replays : v \subseteq Nat
  BY <1>1, <1>2 DEF Replays
<1>4. visible' \subseteq Nat
  BY <1>3 DEF Create, Spool, Lose, Repeat, Rows
<1>5. CASE Create(row) \/ Spool(row)
  <2>1. Insert(row) /\ faults' \in Nat /\ (faults' = faults \/ faults' # 0)
    BY <1>1, <1>5 DEF Create, Spool
  <2>. QED
    BY <1>4, <1>5, <2>1, RowJoins DEF Taken
<1>6. CASE Lose
  <2>1. log' = log /\ faults' \in Nat /\ faults' # 0
    BY <1>1, <1>6 DEF Lose
  <2>. QED
    BY <1>1, <1>4, <1>6, <2>1
<1>7. CASE Repeat(row)
  <2>1. log' = log /\ faults' = faults /\ row.kind # "prompt"
    BY <1>7 DEF Repeat
  <2>. QED
    BY <1>1, <1>4, <1>7, <2>1
<1>. QED
  BY <1>5, <1>6, <1>7

(* A flush goes on to remove the entry, or leaves it.                      *)
Flushes(p, row) ==
    /\ row.kind = "prompt"
    /\ Create(row) \/ Spool(row) \/ Lose
    /\ misled' = (misled \/ row.text # Resolved(Transcribed, LoggedTexts))
    /\ pc' = [pc EXCEPT ![p] = "truncate"] /\ mine' = mine

Waits(p) ==
    /\ Lose \/ UNCHANGED <<store, faults>>
    /\ misled' = misled
    /\ pc' = [pc EXCEPT ![p] = "unlock"] /\ mine' = [mine EXCEPT ![p] = Nothing]

LEMMA LogPromptCases ==
    ASSUME HooksInv, NEW p \in Procs, LogPrompt(p)
    PROVE  /\ pc[p] = "logPrompt" /\ Busy(p)
           /\ UNCHANGED <<now, submitted, transcript, events, files, job, got, overrun, suppressed,
                          rowless>>
           /\ Waits(p) \/ \E row \in Rows : Flushes(p, row)
<1>1. /\ pc[p] = "logPrompt" /\ Busy(p)
      /\ UNCHANGED <<now, submitted, transcript, events, files, job, got, overrun, suppressed,
                     rowless>>
  BY DEF LogPrompt, HooksInv, JobFits
<1>2. CASE Waits(p)
  BY <1>1, <1>2
<1>3. CASE ~Waits(p)
  <2>1. PICK S, T, row :
          /\ S \in Scans /\ T \in Lists
          /\ row = [kind |-> "prompt", gen |-> job[p].gen, text |-> Resolved(S, T),
                    edit |-> NoEdit, hunks |-> NoEdit]
          /\ Create(row) \/ Spool(row) \/ Lose
          /\ misled' = (misled \/ row.text # Resolved(Transcribed, LoggedTexts))
          /\ pc' = [pc EXCEPT ![p] = "truncate"] /\ mine' = mine
    BY <1>3 DEF LogPrompt, Waits
  <2>2. Resolved(S, T) \in Nat /\ job[p].gen \in Nat
    <3>1. Resolved(S, T) \in 1 .. Len(transcript) /\ job[p].gen \in 1 .. Len(transcript)
      BY <1>1, <2>1, ResolvedPrompt
    <3>. QED
      BY <3>1
  <2>3. row \in Rows /\ row.kind = "prompt"
    BY <2>1, <2>2 DEF Rows, Values
  <2>. QED
    BY <1>1, <2>1, <2>3 DEF Flushes
<1>. QED
  BY <1>2, <1>3

LEMMA LogPromptFits ==
    ASSUME HooksInv, NEW p \in Procs, LogPrompt(p)
    PROVE  HooksInv' /\ OthersStay(p) /\ DOMAIN log \subseteq DOMAIN log'
<1>1. /\ pc[p] = "logPrompt" /\ Busy(p)
      /\ UNCHANGED <<now, submitted, transcript, events, files, job, got, overrun, suppressed,
                     rowless>>
      /\ Waits(p) \/ \E row \in Rows : Flushes(p, row)
  BY LogPromptCases
<1>2. /\ pc \in [Procs -> PCs] /\ mine \in [Procs -> [prompts : SUBSET Nat, edits : EditCache]]
      /\ submitted \in Nat /\ Len(transcript) \in Nat
      /\ Nothing \in [prompts : SUBSET Nat, edits : EditCache]
      /\ Nothing.prompts \subseteq 1 .. submitted
      /\ mine[p].prompts \subseteq 1 .. submitted
  BY <1>1 DEF HooksInv, TypeInv, Busy, Nothing, NoFile, EditCache
<1>3. /\ pc' \in [Procs -> PCs] /\ pc'[p] \in {"truncate", "unlock"}
      /\ \A q \in Procs \ {p} : pc'[q] = pc[q] /\ mine'[q] = mine[q]
      /\ mine' \in [Procs -> [prompts : SUBSET Nat, edits : EditCache]]
      /\ mine'[p].prompts \subseteq 1 .. submitted
      /\ pc'[p] = "unlock" => mine'[p] = Nothing
      /\ misled' \in BOOLEAN
  <2>1. misled \in BOOLEAN
    BY DEF HooksInv, TypeInv
  <2>2. CASE Waits(p)
    BY <1>1, <1>2, <2>1, <2>2 DEF Waits, PCs
  <2>3. ASSUME NEW row \in Rows, Flushes(p, row)
        PROVE  /\ pc' = [pc EXCEPT ![p] = "truncate"] /\ mine' = mine /\ misled' \in BOOLEAN
    BY <2>1, <2>3 DEF Flushes
  <2>4. CASE ~Waits(p)
    BY <1>1, <1>2, <2>3, <2>4 DEF PCs
  <2>. QED
    BY <2>2, <2>4
<1>4. /\ DOMAIN log' \subseteq Rows /\ DOMAIN log \subseteq DOMAIN log'
      /\ \A r \in DOMAIN log' : log'[r] \in Nat
      /\ visible' \subseteq Nat /\ faults' \in Nat
  <2>1. CASE UNCHANGED <<store, faults>>
    BY <2>1 DEF HooksInv, TypeInv
  <2>2. CASE ~UNCHANGED <<store, faults>>
    <3>1. PICK row \in Rows : Create(row) \/ Spool(row) \/ Lose
      <4>1. [kind |-> "prompt", gen |-> 0, text |-> 0, edit |-> NoEdit, hunks |-> NoEdit] \in Rows
        BY DEF Rows, Values
      <4>. QED
        BY <1>1, <2>2, <4>1 DEF Waits, Flushes
    <3>. QED
      BY <3>1, CallsFit
  <2>. QED
    BY <2>1, <2>2
<1>5. TypeInv'
  BY <1>1, <1>3, <1>4 DEF HooksInv, TypeInv, files
<1>6. JobFits(p)'
  BY <1>1, <1>3, MoveFits
<1>7. OthersStay(p)
  BY <1>1, <1>3 DEF OthersStay
<1>8. \A q \in Procs \ {p} : JobFits(q)'
  BY <1>1, <1>2, <1>7, OthersFit
<1>. QED
  BY <1>4, <1>5, <1>6, <1>7, <1>8 DEF HooksInv

LEMMA TruncateFits ==
    ASSUME HooksInv, NEW p \in Procs, Truncate(p)
    PROVE  HooksInv' /\ OthersStay(p)
<1>1. /\ pc[p] = "truncate" /\ Busy(p) /\ pc' = [pc EXCEPT ![p] = "write"]
      /\ UNCHANGED <<now, submitted, transcript, events, lock, job, mine, got, store,
                     faults, history>>
  BY DEF Truncate, HooksInv, JobFits
<1>2. prompts' \subseteq 1 .. submitted /\ edits' \in EditCache
  <2>1. /\ prompts' = prompts \/ prompts' = {}
        /\ edits' = edits \/ edits' = NoFile
    BY DEF Truncate
  <2>2. prompts \subseteq 1 .. submitted /\ edits \in EditCache /\ NoFile \in EditCache
    BY DEF HooksInv, TypeInv, NoFile, EditCache
  <2>. QED
    BY <2>1, <2>2
<1>3. pc' \in [Procs -> PCs] /\ pc'[p] = "write" /\ OthersStay(p)
  BY <1>1 DEF HooksInv, TypeInv, PCs, OthersStay
<1>4. TypeInv'
  BY <1>1, <1>2, <1>3 DEF HooksInv, TypeInv
<1>5. JobFits(p)'
  BY <1>1, <1>3, MoveFits DEF Busy
<1>6. \A q \in Procs \ {p} : JobFits(q)'
  <2>1. /\ submitted \in Nat /\ Len(transcript) \in Nat
        /\ submitted' = submitted /\ transcript' = transcript
    BY <1>1 DEF HooksInv, TypeInv
  <2>. QED
    BY <1>3, <2>1, OthersFit
<1>. QED
  BY <1>3, <1>4, <1>5, <1>6 DEF HooksInv

LEMMA WriteFits ==
    ASSUME HooksInv, NEW p \in Procs, Write(p)
    PROVE  HooksInv' /\ OthersStay(p)
<1>1. /\ pc[p] = "write" /\ Busy(p) /\ pc' = [pc EXCEPT ![p] = "unlock"]
      /\ mine' = [mine EXCEPT ![p] = Nothing]
      /\ UNCHANGED <<now, submitted, transcript, events, lock, job, got, store, faults,
                     history>>
  BY DEF Write, HooksInv, JobFits
<1>2. prompts' \subseteq 1 .. submitted /\ edits' \in EditCache
  <2>1. /\ prompts' = prompts \/ prompts' = mine[p].prompts
        /\ edits' = edits \/ edits' = mine[p].edits
    BY DEF Write
  <2>2. /\ prompts \subseteq 1 .. submitted /\ edits \in EditCache
        /\ mine \in [Procs -> [prompts : SUBSET Nat, edits : EditCache]]
        /\ mine[p].prompts \subseteq 1 .. submitted
    BY <1>1 DEF HooksInv, TypeInv, Busy
  <2>3. mine[p].edits \in EditCache
    BY <2>2
  <2>. QED
    BY <2>1, <2>2, <2>3
<1>3. /\ pc' \in [Procs -> PCs] /\ pc'[p] = "unlock" /\ OthersStay(p) /\ mine'[p] = Nothing
      /\ mine' \in [Procs -> [prompts : SUBSET Nat, edits : EditCache]]
  BY <1>1 DEF HooksInv, TypeInv, PCs, OthersStay, Nothing, NoFile, EditCache
<1>4. TypeInv'
  BY <1>1, <1>2, <1>3 DEF HooksInv, TypeInv
<1>5. JobFits(p)'
  BY <1>1, <1>3, MoveFits DEF Nothing
<1>6. \A q \in Procs \ {p} : JobFits(q)'
  <2>1. submitted \in Nat /\ Len(transcript) \in Nat
    BY DEF HooksInv, TypeInv
  <2>. QED
    BY <1>1, <1>3, <2>1, OthersFit
<1>. QED
  BY <1>3, <1>4, <1>5, <1>6 DEF HooksInv

LEMMA UnlockFits ==
    ASSUME HooksInv, NEW p \in Procs, Unlock(p)
    PROVE  HooksInv' /\ OthersStay(p) /\ Onward(p)
<1>1. /\ pc[p] = "unlock" /\ mine[p] = Nothing /\ Done(p, Tail(job[p].steps))
      /\ UNCHANGED <<now, submitted, transcript, events, prompts, edits, mine, store,
                     faults, history>>
  BY DEF Unlock, HooksInv, JobFits
<1>2. /\ pc' \in [Procs -> PCs] /\ job' \in [Procs -> Jobs \cup {NoJob}]
      /\ got' \in [Procs -> Values]
      /\ \A q \in Procs \ {p} : pc'[q] = pc[q] /\ job'[q] = job[q]
      /\ Onward(p)
  BY <1>1, DoneOnward
<1>3. lock' \in [Files -> Procs \cup {Free, Stale}]
  BY DEF Unlock, HooksInv, TypeInv
<1>4. TypeInv'
  BY <1>1, <1>2, <1>3 DEF HooksInv, TypeInv
<1>5. JobFits(p)'
  BY <1>1, <1>2, OnwardFits
<1>6. OthersStay(p)
  BY <1>1, <1>2 DEF OthersStay
<1>7. \A q \in Procs \ {p} : JobFits(q)'
  BY <1>1, <1>6, OthersFit DEF HooksInv, TypeInv
<1>. QED
  BY <1>2, <1>4, <1>5, <1>6, <1>7 DEF HooksInv

(* The row of the event itself, and whether the event goes on.             *)
RowOf(p) ==
    [kind |-> job[p].kind, gen |-> job[p].gen, text |-> job[p].gen, edit |-> job[p].edit,
     hunks |-> got[p]]

Logged(p) ==
    \/ /\ Create(RowOf(p)) \/ Spool(RowOf(p))
       /\ Done(p, Tail(job[p].steps))
       /\ rowless' = rowless
    \/ /\ Lose \/ Repeat(RowOf(p))
       /\ rowless' = rowless \cup {[gen |-> job[p].gen, edit |-> job[p].edit]}
       /\ Done(p, Tail(job[p].steps))
    \/ Lose /\ Done(p, <<>>) /\ rowless' = rowless

LEMMA LogCases ==
    ASSUME HooksInv, NEW p \in Procs, Log(p)
    PROVE  /\ pc[p] = "log" /\ mine[p] = Nothing /\ Busy(p)
           /\ UNCHANGED <<now, submitted, transcript, events, files, mine, overrun, misled,
                          suppressed>>
           /\ Logged(p) /\ RowOf(p) \in Rows
           /\ RowOf(p).kind = job[p].kind /\ RowOf(p).gen = job[p].gen
           /\ RowOf(p).text = job[p].gen /\ RowOf(p).edit = job[p].edit
<1>1. /\ pc[p] = "log" /\ mine[p] = Nothing /\ Busy(p)
      /\ UNCHANGED <<now, submitted, transcript, events, files, mine, overrun, misled,
                     suppressed>>
  BY DEF Log, HooksInv, JobFits
<1>2. RowOf(p) \in Rows
  BY <1>1 DEF RowOf, Rows, Busy, Jobs, HooksInv, TypeInv
<1>3. Logged(p)
  BY DEF Log, Logged, RowOf
<1>. QED
  BY <1>1, <1>2, <1>3 DEF RowOf

LEMMA LogFits ==
    ASSUME HooksInv, NEW p \in Procs, Log(p)
    PROVE  /\ HooksInv' /\ OthersStay(p) /\ Onward(p) /\ DOMAIN log \subseteq DOMAIN log'
           /\ rowless \subseteq rowless'
<1>1. /\ pc[p] = "log" /\ mine[p] = Nothing /\ Busy(p)
      /\ UNCHANGED <<now, submitted, transcript, events, files, mine, overrun, misled,
                     suppressed>>
      /\ Logged(p) /\ RowOf(p) \in Rows
  BY LogCases
<1>2. PICK rest \in {<<>>, Tail(job[p].steps)} : Done(p, rest)
  BY <1>1 DEF Logged
<1>3. /\ pc' \in [Procs -> PCs] /\ job' \in [Procs -> Jobs \cup {NoJob}]
      /\ got' \in [Procs -> Values]
      /\ \A q \in Procs \ {p} : pc'[q] = pc[q] /\ job'[q] = job[q]
      /\ Onward(p)
  <2>1. pc[p] # "idle"
    BY <1>1
  <2>. QED
    BY ONLY HooksInv, <1>2, <2>1, DoneOnward
<1>4. /\ DOMAIN log' \subseteq Rows /\ DOMAIN log \subseteq DOMAIN log'
      /\ \A r \in DOMAIN log' : log'[r] \in Nat
      /\ visible' \subseteq Nat /\ faults' \in Nat
  <2>1. Create(RowOf(p)) \/ Spool(RowOf(p)) \/ Lose \/ Repeat(RowOf(p))
    BY <1>1 DEF Logged
  <2>. QED
    BY <1>1, <2>1, CallsFit
<1>5. rowless \subseteq rowless' /\ rowless' \subseteq [gen : Nat, edit : Values]
  <2>1. [gen |-> job[p].gen, edit |-> job[p].edit] \in [gen : Nat, edit : Values]
    BY <1>1 DEF Busy, Jobs
  <2>. QED
    BY <1>1, <2>1 DEF Logged, HooksInv, TypeInv
<1>6. TypeInv'
  BY <1>1, <1>3, <1>4, <1>5 DEF HooksInv, TypeInv, files
<1>7. JobFits(p)'
  BY <1>1, <1>3, OnwardFits
<1>8. OthersStay(p)
  BY <1>1, <1>3 DEF OthersStay
<1>9. \A q \in Procs \ {p} : JobFits(q)'
  <2>1. /\ Len(transcript) \in Nat /\ submitted \in Nat
        /\ UNCHANGED <<submitted, transcript>>
    BY <1>1 DEF HooksInv, TypeInv
  <2>. QED
    BY <1>8, <2>1, OthersFit
<1>. QED
  BY <1>3, <1>4, <1>5, <1>6, <1>7, <1>8, <1>9 DEF HooksInv

LEMMA DieFits ==
    ASSUME HooksInv, NEW p \in Procs, Die(p)
    PROVE  HooksInv' /\ OthersStay(p) /\ pc'[p] = "idle" /\ mine'[p] = Nothing
<1>1. /\ pc[p] # "idle" /\ Done(p, <<>>) /\ faults' = faults + 1 /\ overrun' = TRUE
      /\ mine' = [mine EXCEPT ![p] = Nothing]
      /\ lock' = [f \in Files |-> IF lock[f] = p THEN Stale ELSE lock[f]]
      /\ UNCHANGED <<now, submitted, transcript, events, prompts, edits, store, misled,
                      suppressed, rowless>>
  BY DEF Die
<1>2. /\ pc' \in [Procs -> PCs] /\ job' \in [Procs -> Jobs \cup {NoJob}]
      /\ got' \in [Procs -> Values]
      /\ \A q \in Procs \ {p} : pc'[q] = pc[q] /\ job'[q] = job[q]
      /\ Onward(p) /\ pc'[p] = "idle"
  BY <1>1, DoneOnward
<1>3. /\ lock' \in [Files -> Procs \cup {Free, Stale}] /\ faults' \in Nat /\ overrun' \in BOOLEAN
      /\ mine' \in [Procs -> [prompts : SUBSET Nat, edits : EditCache]]
      /\ mine'[p] = Nothing /\ \A q \in Procs \ {p} : mine'[q] = mine[q]
  BY <1>1 DEF HooksInv, TypeInv, Nothing, NoFile, EditCache
<1>4. TypeInv'
  BY <1>1, <1>2, <1>3 DEF HooksInv, TypeInv
<1>5. JobFits(p)'
  BY <1>1, <1>2, <1>3, OnwardFits
<1>6. OthersStay(p)
  BY <1>2, <1>3 DEF OthersStay
<1>7. \A q \in Procs \ {p} : JobFits(q)'
  BY <1>1, <1>6, OthersFit DEF HooksInv, TypeInv
<1>. QED
  BY <1>2, <1>3, <1>4, <1>5, <1>6, <1>7 DEF HooksInv

LEMMA StutterFits ==
    ASSUME HooksInv, UNCHANGED vars
    PROVE  HooksInv'
<1>1. UNCHANGED <<now, submitted, transcript, events, prompts, edits, lock, pc, job, mine, got,
                  store, faults, history>>
  BY DEF vars, files
<1>2. TypeInv'
  BY <1>1 DEF HooksInv, TypeInv
<1>3. ASSUME NEW q \in Procs PROVE JobFits(q)'
  BY <1>1 DEF HooksInv, JobFits, Busy, Step
<1>. QED
  BY <1>2, <1>3 DEF HooksInv

(* The types of the hooks' state: every process is idle or within the      *)
(* steps of one event, of a prompt that is submitted; the cache files and  *)
(* what is about to be written to them hold submitted prompts and edits.   *)
THEOREM HooksInvariant == Spec => []HooksInv
<1>1. Init => HooksInv
  BY InitHooks
<1>2. HooksInv /\ [Next]_vars => HooksInv'
  <2>. SUFFICES ASSUME HooksInv, [Next]_vars PROVE HooksInv'
    OBVIOUS
  <2>1. CASE Tick
    BY <2>1, TickFits
  <2>2. CASE Transcribe
    BY <2>2, TranscribeFits
  <2>3. ASSUME NEW p \in Procs, Event(p) PROVE HooksInv'
    BY <2>3, SubmitFits, TurnFits DEF Event
  <2>4. ASSUME NEW p \in Procs, Run(p) PROVE HooksInv'
    BY <2>4, LoadFits, LogPromptFits, TruncateFits, WriteFits, UnlockFits, LogFits DEF Run
  <2>5. ASSUME NEW p \in Procs, Die(p) PROVE HooksInv'
    BY <2>5, DieFits
  <2>6. CASE UNCHANGED vars
    BY <2>6, StutterFits
  <2>. QED
    BY <2>1, <2>2, <2>3, <2>4, <2>5, <2>6 DEF Next
<1>. QED
  BY <1>1, <1>2, PTL DEF Spec

-----------------------------------------------------------------------------
(* Edits.                                                                  *)

LoggedEdit(e) ==
    \/ \E r \in DOMAIN log : r.kind = "edit" /\ r.gen = e.gen /\ r.edit = e.edit
    \/ [gen |-> e.gen, edit |-> e.edit] \in rowless

(* What is noted as logged, in the cache or on its way there, has a row or *)
(* was acknowledged without one; and an event that is about to note it has *)
(* logged it.                                                              *)
SkipInv ==
    /\ \A d \in edits.done : LoggedEdit(d)
    /\ \A s \in suppressed : LoggedEdit(s)
    /\ \A p \in Procs : \A d \in mine[p].edits.done : LoggedEdit(d)
    /\ \A p \in Procs : pc[p] # "idle" /\ Step(p) = "mark" => LoggedEdit(job[p])

-----------------------------------------------------------------------------
(* Prompts, as long as the lock is respected.                              *)

(* What one process may add.                                               *)
LEMMA SkipFrame ==
    ASSUME SkipInv, NEW p \in Procs, OthersStay(p), DOMAIN log \subseteq DOMAIN log',
           rowless \subseteq rowless',
           \A d \in edits'.done :
              d \in edits.done \/ d \in mine[p].edits.done \/ LoggedEdit(d)',
           \A s \in suppressed' : s \in suppressed \/ LoggedEdit(s)',
           \A d \in mine'[p].edits.done : d \in mine[p].edits.done \/ LoggedEdit(d)',
           pc'[p] # "idle" /\ Step(p)' = "mark" => LoggedEdit(job[p])'
    PROVE  SkipInv'
<1>1. ASSUME NEW d, LoggedEdit(d) PROVE LoggedEdit(d)'
  BY <1>1 DEF LoggedEdit
<1>2. \A d \in edits'.done : LoggedEdit(d)'
  BY <1>1 DEF SkipInv
<1>3. \A s \in suppressed' : LoggedEdit(s)'
  BY <1>1 DEF SkipInv
<1>4. ASSUME NEW q \in Procs PROVE \A d \in mine'[q].edits.done : LoggedEdit(d)'
  BY <1>1 DEF SkipInv, OthersStay
<1>5. ASSUME NEW q \in Procs, pc'[q] # "idle", Step(q)' = "mark" PROVE LoggedEdit(job[q])'
  <2>1. CASE q = p
    BY <1>5, <2>1
  <2>2. CASE q # p
    <3>1. pc'[q] = pc[q] /\ job'[q] = job[q]
      BY <2>2 DEF OthersStay
    <3>2. LoggedEdit(job[q])
      BY <1>5, <3>1 DEF SkipInv, Step
    <3>. QED
      BY <3>1, <3>2 DEF LoggedEdit
  <2>. QED
    BY <2>1, <2>2
<1>. QED
  BY <1>2, <1>3, <1>4, <1>5 DEF SkipInv

LEMMA InitSkips == Init => SkipInv
  BY DEF Init, SkipInv, NoFile, Nothing

LEMMA TickSkips ==
    ASSUME SkipInv, Tick \/ Transcribe \/ UNCHANGED vars
    PROVE  SkipInv'
<1>1. UNCHANGED <<edits, suppressed, rowless, store, mine, pc, job>>
  BY DEF Tick, Transcribe, vars, files
<1>. QED
  BY <1>1 DEF SkipInv, LoggedEdit, Step

LEMMA EventSkips ==
    ASSUME HooksInv, SkipInv, NEW p \in Procs, Event(p)
    PROVE  SkipInv'
<1>1. /\ HooksInv' /\ OthersStay(p) /\ pc'[p] \in {"lock", "log"}
      /\ job'[p].kind = "prompt" \/ job'[p].steps[1] = "flush"
      /\ UNCHANGED <<files, mine, store, suppressed, rowless>>
  BY SubmitFits, TurnFits DEF Event
<1>2. Busy(p)'
  BY <1>1 DEF HooksInv, JobFits
<1>3. Step(p)' # "mark"
  <2>. DEFINE j == job'[p]
  <2>1. Left(j.kind, j.steps) /\ Step(p)' = Head(j.steps)
    BY <1>2 DEF Busy, Step
  <2>2. j.kind = "prompt" \/ j.steps[1] = "flush"
    BY <1>1
  <2>. HIDE DEF j
  <2>. QED
    BY <2>1, <2>2, StepsLeft, FirstStep
<1>. QED
  BY <1>1, <1>3, SkipFrame DEF files

LEMMA LoadSkips ==
    ASSUME HooksInv, SkipInv, NEW p \in Procs, Load(p)
    PROVE  SkipInv'
<1>1. /\ pc[p] = "lock" /\ Loaded(p) /\ Judged(p) /\ OthersStay(p)
      /\ UNCHANGED <<edits, store, rowless>>
  BY LoadCases, LoadJudges, LoadFits
<1>2. ASSUME NEW d, LoggedEdit(d) PROVE LoggedEdit(d)'
  BY <1>1, <1>2 DEF LoggedEdit
<1>3. ASSUME NEW s \in suppressed' PROVE s \in suppressed \/ LoggedEdit(s)'
  <2>1. CASE s \notin suppressed
    <3>1. IsDuplicate(edits, job[p].gen, job[p].edit)
          /\ s = [gen |-> job[p].gen, edit |-> job[p].edit]
      BY <1>1, <2>1 DEF Judged
    <3>2. PICK d \in edits.done : d.gen = s.gen /\ d.edit = s.edit
      BY <3>1 DEF IsDuplicate
    <3>. QED
      BY <1>1, <3>2 DEF SkipInv, LoggedEdit
  <2>. QED
    BY <2>1
<1>4. ASSUME NEW d \in mine'[p].edits.done PROVE LoggedEdit(d)'
  <2>1. PICK c : Notes(p, c) /\ mine'[p] = [prompts |-> {}, edits |-> c]
    BY <1>1, <1>4 DEF Loaded, Nothing, NoFile
  <2>2. \/ d \in edits.done
        \/ Step(p) = "mark" /\ d.gen = job[p].gen /\ d.edit = job[p].edit
    BY <1>4, <2>1 DEF Notes
  <2>3. LoggedEdit(d)
    BY <1>1, <2>2 DEF SkipInv, LoggedEdit
  <2>. QED
    BY <1>2, <2>3
<1>5. ASSUME Step(p)' = "mark" PROVE LoggedEdit(job[p])'
  <2>1. Head(<<"check">>) = "check"
    OBVIOUS
  <2>2. job'[p] = job[p]
    BY <1>1, <1>5, <2>1 DEF Judged, Step
  <2>3. LoggedEdit(job[p])
    BY <1>1, <1>5, <2>2 DEF SkipInv, Step
  <2>. QED
    BY <1>1, <2>2, <2>3 DEF LoggedEdit
<1>. QED
  BY <1>1, <1>3, <1>4, <1>5, SkipFrame

LEMMA LogPromptSkips ==
    ASSUME HooksInv, SkipInv, NEW p \in Procs, LogPrompt(p)
    PROVE  SkipInv'
<1>1. /\ OthersStay(p) /\ pc[p] # "idle" /\ UNCHANGED <<files, suppressed, rowless, job>>
      /\ mine'[p] = mine[p] \/ mine'[p] = Nothing
      /\ DOMAIN log \subseteq DOMAIN log'
  BY LogPromptFits, LogPromptCases DEF Waits, Flushes, HooksInv, TypeInv
<1>2. Step(p)' = Step(p)
  BY <1>1 DEF Step
<1>3. Step(p)' = "mark" => LoggedEdit(job[p])'
  BY <1>1, <1>2 DEF SkipInv, LoggedEdit
<1>. QED
  BY <1>1, <1>3, SkipFrame DEF files, Nothing, NoFile

LEMMA SaveSkips ==
    ASSUME HooksInv, SkipInv, NEW p \in Procs, Truncate(p) \/ Write(p)
    PROVE  SkipInv'
<1>1. /\ OthersStay(p) /\ pc[p] # "idle" /\ UNCHANGED <<store, suppressed, rowless, job>>
      /\ mine'[p] = mine[p] \/ mine'[p] = Nothing
      /\ edits' = edits \/ edits' = NoFile \/ edits' = mine[p].edits
  BY TruncateFits, WriteFits DEF Truncate, Write, HooksInv, TypeInv
<1>2. Step(p)' = "mark" => LoggedEdit(job[p])'
  BY <1>1 DEF SkipInv, LoggedEdit, Step
<1>. QED
  BY <1>1, <1>2, SkipFrame DEF Nothing, NoFile

(* After its row comes the mark of an edit.                                *)
LEMMA MarkAfterLog ==
    ASSUME NEW p \in Procs, Busy(p), Onward(p), pc'[p] # "idle", Step(p)' = "mark"
    PROVE  /\ job[p].kind = "edit" /\ Step(p) = "log"
           /\ job'[p].gen = job[p].gen /\ job'[p].edit = job[p].edit
<1>1. /\ job'[p].gen = job[p].gen /\ job'[p].edit = job[p].edit
      /\ Tail(job[p].steps) # <<>> /\ job'[p].steps = Tail(job[p].steps)
  BY DEF Onward
<1>2. Head(Tail(job[p].steps)) = "mark" /\ Left(job[p].kind, job[p].steps)
  BY <1>1 DEF Step, Busy
<1>. QED
  BY <1>1, <1>2, StepsLeft DEF Step

LEMMA UnlockSkips ==
    ASSUME HooksInv, SkipInv, NEW p \in Procs, Unlock(p)
    PROVE  SkipInv'
<1>1. /\ OthersStay(p) /\ Onward(p) /\ pc[p] = "unlock" /\ Busy(p)
      /\ UNCHANGED <<edits, store, suppressed, rowless, mine>>
  BY UnlockFits DEF Unlock, HooksInv, JobFits
<1>2. ~(pc'[p] # "idle" /\ Step(p)' = "mark")
  BY <1>1, MarkAfterLog DEF Busy
<1>. QED
  BY <1>1, <1>2, SkipFrame

LEMMA LogSkips ==
    ASSUME HooksInv, SkipInv, NEW p \in Procs, Log(p)
    PROVE  SkipInv'
<1>1. /\ OthersStay(p) /\ Onward(p) /\ pc[p] = "log" /\ Busy(p)
      /\ UNCHANGED <<edits, suppressed, mine>>
      /\ DOMAIN log \subseteq DOMAIN log' /\ rowless \subseteq rowless'
      /\ Logged(p) /\ RowOf(p) \in Rows
      /\ RowOf(p).kind = job[p].kind /\ RowOf(p).gen = job[p].gen
      /\ RowOf(p).edit = job[p].edit
  BY LogFits, LogCases DEF files
<1>2. ASSUME pc'[p] # "idle", Step(p)' = "mark" PROVE LoggedEdit(job[p])'
  <2>1. /\ job[p].kind = "edit"
        /\ job'[p].gen = job[p].gen /\ job'[p].edit = job[p].edit
    BY <1>1, <1>2, MarkAfterLog
  <2>2. CASE Create(RowOf(p)) \/ Spool(RowOf(p))
    <3>1. Insert(RowOf(p))
      BY <2>2 DEF Create, Spool
    <3>2. RowOf(p) \in DOMAIN log'
      BY <1>1, <3>1, RowJoins
    <3>. QED
      BY <1>1, <2>1, <3>2 DEF LoggedEdit
  <2>3. CASE rowless' = rowless \cup {[gen |-> job[p].gen, edit |-> job[p].edit]}
    BY <2>1, <2>3 DEF LoggedEdit
  <2>4. CASE Done(p, <<>>)
    BY <1>1, <1>2, <2>4 DEF Done, HooksInv, TypeInv
  <2>. QED
    BY <1>1, <2>2, <2>3, <2>4 DEF Logged
<1>. QED
  BY <1>1, <1>2, SkipFrame

LEMMA DieSkips ==
    ASSUME HooksInv, SkipInv, NEW p \in Procs, Die(p)
    PROVE  SkipInv'
<1>1. /\ OthersStay(p) /\ pc'[p] = "idle" /\ mine'[p] = Nothing
      /\ UNCHANGED <<edits, store, suppressed, rowless>>
  BY DieFits DEF Die
<1>. QED
  BY <1>1, SkipFrame DEF Nothing, NoFile

(* An edit that is skipped as a duplicate has its row, in the table or in  *)
(* the spool, or LogDiscussion reported success for it without a row,      *)
(* whatever died, failed, or ran without the lock.                         *)
THEOREM SkippedAreLogged == Spec => []OnlyLoggedEditsSkipped
<1>1. Init => SkipInv
  BY InitSkips
<1>2. HooksInv /\ SkipInv /\ [Next]_vars => SkipInv'
  <2>. SUFFICES ASSUME HooksInv, SkipInv, [Next]_vars PROVE SkipInv'
    OBVIOUS
  <2>1. CASE Tick \/ Transcribe \/ UNCHANGED vars
    BY <2>1, TickSkips
  <2>2. ASSUME NEW p \in Procs, Event(p) PROVE SkipInv'
    BY <2>2, EventSkips
  <2>3. ASSUME NEW p \in Procs, Run(p) PROVE SkipInv'
    BY <2>3, LoadSkips, LogPromptSkips, SaveSkips, UnlockSkips, LogSkips DEF Run
  <2>4. ASSUME NEW p \in Procs, Die(p) PROVE SkipInv'
    BY <2>4, DieSkips
  <2>. QED
    BY <2>1, <2>2, <2>3, <2>4 DEF Next
<1>3. HooksInv /\ SkipInv => OnlyLoggedEditsSkipped
  <2>. SUFFICES ASSUME HooksInv, SkipInv, NEW s \in suppressed
                PROVE  \/ \E r \in DOMAIN log : r.kind = "edit" /\ r.gen = s.gen /\ r.edit = s.edit
                       \/ s \in rowless
    BY DEF OnlyLoggedEditsSkipped
  <2>1. s = [gen |-> s.gen, edit |-> s.edit]
    BY DEF HooksInv, TypeInv
  <2>. QED
    BY <2>1 DEF SkipInv, LoggedEdit
<1>. QED
  BY <1>1, <1>2, <1>3, HooksInvariant, PTL DEF Spec

-----------------------------------------------------------------------------
(* Prompts, as long as the lock is respected.                              *)

Inside == {"logPrompt", "truncate", "write", "unlock"}

Exclusive == \A p \in Procs : pc[p] \in Inside => lock[FileOf(p)] = p

(* The generations that wait: the cache, or what is being written to it.   *)
Writes(p) == pc[p] \in {"truncate", "write"} /\ FileOf(p) = "prompts"

Waiting(W) ==
    /\ \A p \in Procs : Writes(p) => W = mine[p].prompts
    /\ (\A p \in Procs : ~Writes(p)) => W = prompts

Unlogged == {t \in 1 .. submitted : PromptRows(t) = {}}

(* The prompts whose own hook still runs.                                  *)
Submitting(p) == pc[p] # "idle" /\ job[p].kind = "prompt"

Hooked == {job[p].gen : p \in {q \in Procs : Submitting(q)}}

Upto(S, m) == {t \in S : t <= m}

(* Of the m prompts in the transcript no more wait (W) than are unlogged   *)
(* (U), and as many when no row failed; a later one that waits is itself   *)
(* unlogged, and a later one that is unlogged waits or has its hook (H).   *)
Balance(W, U, m, failed, H) ==
    /\ Cardinality(Upto(W, m)) <= Cardinality(Upto(U, m))
    /\ failed = 0 => Cardinality(Upto(W, m)) = Cardinality(Upto(U, m))
    /\ \A t \in W : t > m => t \in U
    /\ failed = 0 => \A t \in U : t > m => t \in W \cup H

(* Where a prompt's own hook is with it, and a flush with its entry.       *)
PromptAt(p, W) ==
    Submitting(p) =>
        /\ job[p].gen > Len(transcript) /\ job[p].gen \in Unlogged
        /\ pc[p] = "log" => job[p].gen \notin W
        /\ pc[p] \in {"truncate", "write", "unlock"} => job[p].gen \in W

FlushAt(p) ==
    pc[p] = "logPrompt" =>
        job[p].gen \in prompts /\ mine[p].prompts = prompts \ {job[p].gen}

OwnPrompts ==
    \A p, q \in Procs : Submitting(p) /\ Submitting(q) /\ job[p].gen = job[q].gen => p = q

RowsOnce == \A t \in 1 .. submitted : \A r, s \in PromptRows(t) : r = s /\ log[r] = 1

TextsSubmitted == \A r \in DOMAIN log : r.kind = "prompt" => r.text \in 1 .. submitted

Counted(W) ==
    /\ W \subseteq 1 .. submitted /\ Waiting(W)
    /\ Balance(W, Unlogged, Len(transcript), faults, Hooked)
    /\ \A p \in Procs : PromptAt(p, W) /\ FlushAt(p)

PromptInv ==
    /\ Exclusive /\ OwnPrompts /\ RowsOnce /\ TextsSubmitted
    /\ \E W : Counted(W)

CountInv == (~overrun /\ ~misled) => PromptInv

(* The balance of the waiting and the unlogged prompts.                    *)
LEMMA UptoFinite ==
    ASSUME NEW n \in Nat, NEW S, S \subseteq 1 .. n, NEW m \in Nat
    PROVE  IsFiniteSet(Upto(S, m)) /\ Cardinality(Upto(S, m)) \in Nat
<1>1. Upto(S, m) \in SUBSET (1 .. n)
  BY DEF Upto
<1>2. IsFiniteSet(1 .. n)
  BY FS_Interval
<1>. QED
  BY <1>1, <1>2, FS_Subset, FS_CardinalityType

LEMMA UptoNext ==
    ASSUME NEW n \in Nat, NEW S, S \subseteq 1 .. n, NEW m \in Nat
    PROVE  Cardinality(Upto(S, m + 1)) = Cardinality(Upto(S, m)) + IF m + 1 \in S THEN 1 ELSE 0
<1>. DEFINE A == Upto(S, m)
            B == Upto(S, m + 1)
<1>1. IsFiniteSet(A) /\ Cardinality(A) \in Nat
  BY UptoFinite
<1>2. \A t \in S : t \in Nat /\ (t <= m + 1 <=> t <= m \/ t = m + 1)
  OBVIOUS
<1>3. /\ m + 1 \in S => B = A \cup {m + 1}
      /\ m + 1 \notin S => B = A
      /\ m + 1 \notin A
  <2>1. \A t : t \in A <=> t \in S /\ t <= m
    BY DEF Upto
  <2>2. \A t : t \in B <=> t \in S /\ t <= m + 1
    BY DEF Upto
  <2>3. m + 1 \notin A
    BY <2>1
  <2>. HIDE DEF A, B
  <2>4. ASSUME m + 1 \in S PROVE B = A \cup {m + 1}
    <3>1. \A t : t \in B <=> t \in A \cup {m + 1}
      BY <1>2, <2>1, <2>2, <2>4
    <3>. QED
      BY <3>1
  <2>5. ASSUME m + 1 \notin S PROVE B = A
    <3>1. \A t : t \in B <=> t \in A
      BY <1>2, <2>1, <2>2, <2>5
    <3>. QED
      BY <3>1
  <2>. QED
    BY <2>3, <2>4, <2>5
<1>. HIDE DEF A, B
<1>4. CASE m + 1 \in S
  <2>. DEFINE x == m + 1
  <2>1. x \notin A /\ B = A \cup {x}
    BY <1>3, <1>4
  <2>. HIDE DEF x
  <2>2. Cardinality(B) = Cardinality(A) + 1
    BY <1>1, <2>1, FS_AddElement
  <2>. QED
    BY <1>4, <2>2 DEF A, B
<1>5. CASE m + 1 \notin S
  <2>1. Cardinality(B) = Cardinality(A) + 0
    BY <1>1, <1>3, <1>5
  <2>. QED
    BY <1>5, <2>1 DEF A, B
<1>. QED
  BY <1>4, <1>5

LEMMA UptoWithout ==
    ASSUME NEW n \in Nat, NEW S, S \subseteq 1 .. n, NEW m \in Nat, NEW x \in S, x <= m
    PROVE  Cardinality(Upto(S \ {x}, m)) = Cardinality(Upto(S, m)) - 1
<1>. DEFINE A == Upto(S, m)
<1>1. IsFiniteSet(A) /\ x \in A
  BY UptoFinite DEF Upto
<1>2. Upto(S \ {x}, m) = A \ {x}
  BY DEF Upto
<1>. HIDE DEF A
<1>3. Cardinality(A \ {x}) = Cardinality(A) - 1
  BY <1>1, FS_RemoveElement
<1>. QED
  BY <1>2, <1>3 DEF A

LEMMA BalanceTranscribe ==
    ASSUME NEW n \in Nat, NEW W, W \subseteq 1 .. n, NEW U, U \subseteq 1 .. n,
           NEW m \in Nat, NEW f \in Nat, NEW H, Balance(W, U, m, f, H), m + 1 \notin H
    PROVE  Balance(W, U, m + 1, f, H)
<1>1. Cardinality(Upto(W, m)) \in Nat /\ Cardinality(Upto(U, m)) \in Nat
  BY UptoFinite
<1>2. /\ Cardinality(Upto(W, m + 1)) = Cardinality(Upto(W, m)) + IF m + 1 \in W THEN 1 ELSE 0
      /\ Cardinality(Upto(U, m + 1)) = Cardinality(Upto(U, m)) + IF m + 1 \in U THEN 1 ELSE 0
  BY UptoNext
<1>3. /\ m + 1 \in W => m + 1 \in U
      /\ f = 0 /\ m + 1 \in U => m + 1 \in W
      /\ Cardinality(Upto(W, m)) <= Cardinality(Upto(U, m))
      /\ f = 0 => Cardinality(Upto(W, m)) = Cardinality(Upto(U, m))
  BY DEF Balance
<1>4. /\ Cardinality(Upto(W, m + 1)) <= Cardinality(Upto(U, m + 1))
      /\ f = 0 => Cardinality(Upto(W, m + 1)) = Cardinality(Upto(U, m + 1))
  BY ONLY <1>1, <1>2, <1>3
<1>5. /\ \A t \in W : t > m + 1 => t \in U
      /\ f = 0 => \A t \in U : t > m + 1 => t \in W \cup H
  BY DEF Balance
<1>. QED
  BY <1>4, <1>5 DEF Balance

LEMMA BalanceSubmit ==
    ASSUME NEW n \in Nat, NEW W, W \subseteq 1 .. n, NEW U, U \subseteq 1 .. n,
           NEW m \in Nat, m <= n, NEW f \in Nat, NEW H, Balance(W, U, m, f, H),
           NEW H2, H \cup {n + 1} \subseteq H2
    PROVE  Balance(W, U \cup {n + 1}, m, f, H2)
<1>1. Upto(U \cup {n + 1}, m) = Upto(U, m)
  BY DEF Upto
<1>. QED
  BY <1>1 DEF Balance

LEMMA BalanceDefer ==
    ASSUME NEW n \in Nat, NEW W, W \subseteq 1 .. n, NEW U, U \subseteq 1 .. n,
           NEW m \in Nat, NEW f \in Nat, NEW H, Balance(W, U, m, f, H),
           NEW g \in U, g > m, NEW H2, H \subseteq H2
    PROVE  Balance(W \cup {g}, U, m, f, H2)
<1>1. Upto(W \cup {g}, m) = Upto(W, m)
  BY DEF Upto
<1>. QED
  BY <1>1 DEF Balance

LEMMA BalanceFlush ==
    ASSUME NEW n \in Nat, NEW W, W \subseteq 1 .. n, NEW U, U \subseteq 1 .. n,
           NEW m \in Nat, NEW f \in Nat, NEW H, Balance(W, U, m, f, H),
           NEW g \in W, g <= m, NEW x \in U, x <= m, NEW H2, H \subseteq H2
    PROVE  Balance(W \ {g}, U \ {x}, m, f, H2)
<1>1. Cardinality(Upto(W, m)) \in Nat /\ Cardinality(Upto(U, m)) \in Nat
  BY UptoFinite
<1>2. Cardinality(Upto(W \ {g}, m)) = Cardinality(Upto(W, m)) - 1
  BY UptoWithout
<1>3. Cardinality(Upto(U \ {x}, m)) = Cardinality(Upto(U, m)) - 1
  BY UptoWithout
<1>4. /\ Cardinality(Upto(W \ {g}, m)) <= Cardinality(Upto(U \ {x}, m))
      /\ f = 0 => Cardinality(Upto(W \ {g}, m)) = Cardinality(Upto(U \ {x}, m))
  BY <1>1, <1>2, <1>3 DEF Balance
<1>5. \A t \in W \ {g} : t > m => t \in U \ {x}
  BY DEF Balance
<1>6. f = 0 => \A t \in U \ {x} : t > m => t \in (W \ {g}) \cup H2
  BY DEF Balance
<1>. QED
  BY <1>4, <1>5, <1>6 DEF Balance

(* A prompt's hook ends: its prompt waits, is logged, or failed.           *)
LEMMA BalanceLeave ==
    ASSUME NEW W, NEW U, NEW m, NEW f, NEW H, Balance(W, U, m, f, H),
           NEW g, g \in W, NEW H2, H \ {g} \subseteq H2
    PROVE  Balance(W, U, m, f, H2)
  BY DEF Balance

LEMMA BalanceLog ==
    ASSUME NEW n \in Nat, NEW W, W \subseteq 1 .. n, NEW U, U \subseteq 1 .. n,
           NEW m \in Nat, NEW f \in Nat, NEW H, Balance(W, U, m, f, H),
           NEW g \in U, g > m, g \notin W, NEW H2, H \ {g} \subseteq H2
    PROVE  Balance(W, U \ {g}, m, f, H2)
<1>1. Upto(U \ {g}, m) = Upto(U, m)
  BY DEF Upto
<1>. QED
  BY <1>1 DEF Balance

(* A flush removes the entry and leaves no row.                            *)
LEMMA BalanceDrop ==
    ASSUME NEW n \in Nat, NEW W, W \subseteq 1 .. n, NEW U, U \subseteq 1 .. n,
           NEW m \in Nat, NEW f, NEW H, Balance(W, U, m, f, H),
           NEW g \in W, g <= m, NEW f2, f2 # 0, NEW H2
    PROVE  Balance(W \ {g}, U, m, f2, H2)
<1>1. Cardinality(Upto(W, m)) \in Nat /\ Cardinality(Upto(U, m)) \in Nat
  BY UptoFinite
<1>2. Cardinality(Upto(W \ {g}, m)) = Cardinality(Upto(W, m)) - 1
  BY UptoWithout
<1>3. Cardinality(Upto(W \ {g}, m)) <= Cardinality(Upto(U, m))
  BY <1>1, <1>2 DEF Balance
<1>. QED
  BY <1>3 DEF Balance

LEMMA BalanceFault ==
    ASSUME NEW W, NEW U, NEW m, NEW f, NEW H, Balance(W, U, m, f, H), NEW f2, f2 # 0, NEW H2
    PROVE  Balance(W, U, m, f2, H2)
  BY DEF Balance

(* The lock keeps the sections of a file apart.                            *)
LEMMA Alone ==
    ASSUME HooksInv, Exclusive, NEW p \in Procs, pc[p] \in Inside, FileOf(p) = "prompts"
    PROVE  \A q \in Procs \ {p} : ~Writes(q) /\ pc[q] # "logPrompt"
<1>. SUFFICES ASSUME NEW q \in Procs \ {p}, Writes(q) \/ pc[q] = "logPrompt" PROVE FALSE
  OBVIOUS
<1>1. pc[q] = "logPrompt" => Step(q) = "flush"
  BY DEF HooksInv, JobFits, Busy
<1>2. pc[q] \in Inside /\ FileOf(q) = "prompts"
  BY <1>1 DEF Writes, Inside, FileOf
<1>. QED
  BY <1>2 DEF Exclusive

LEMMA NobodyInside ==
    ASSUME HooksInv, Exclusive, lock["prompts"] = Free
    PROVE  \A q \in Procs : ~Writes(q) /\ pc[q] # "logPrompt"
<1>. SUFFICES ASSUME NEW q \in Procs, Writes(q) \/ pc[q] = "logPrompt" PROVE FALSE
  OBVIOUS
<1>1. pc[q] = "logPrompt" => Step(q) = "flush"
  BY DEF HooksInv, JobFits, Busy
<1>2. pc[q] \in Inside /\ FileOf(q) = "prompts"
  BY <1>1 DEF Writes, Inside, FileOf
<1>. QED
  BY <1>2 DEF Exclusive

(* The process p has its lock while it is inside, and nobody else's.       *)
LEMMA ExclusiveStep ==
    ASSUME Exclusive, NEW p \in Procs, OthersStay(p),
           pc'[p] \in Inside => FileOf(p)' = FileOf(p) /\ lock'[FileOf(p)] = p,
           \A f \in Files : lock[f] \in Procs \ {p} => lock'[f] = lock[f]
    PROVE  Exclusive'
<1>. SUFFICES ASSUME NEW q \in Procs, pc'[q] \in Inside PROVE lock'[FileOf(q)'] = q
  BY DEF Exclusive
<1>1. CASE q = p
  BY <1>1
<1>2. CASE q # p
  <2>1. pc'[q] = pc[q] /\ FileOf(q)' = FileOf(q) /\ FileOf(q) \in Files
    BY <1>2 DEF OthersStay, FileOf, Step, Files
  <2>2. lock[FileOf(q)] = q
    BY <2>1 DEF Exclusive
  <2>. QED
    BY <1>2, <2>1, <2>2
<1>. QED
  BY <1>1, <1>2

(* Which prompts have their hook changes with the process that moves.      *)
LEMMA HookedStep ==
    ASSUME OwnPrompts, NEW p \in Procs, OthersStay(p),
           Submitting(p)' => Submitting(p) /\ job'[p].gen = job[p].gen
    PROVE  /\ OwnPrompts'
           /\ Submitting(p)' \/ ~Submitting(p) => Hooked' = Hooked
           /\ ~Submitting(p)' => Hooked \ {job[p].gen} \subseteq Hooked'
<1>1. ASSUME NEW q \in Procs, Submitting(q)'
      PROVE  Submitting(q) /\ job'[q].gen = job[q].gen
  BY <1>1 DEF OthersStay, Submitting
<1>2. ASSUME NEW q \in Procs, q # p
      PROVE  (Submitting(q)' <=> Submitting(q)) /\ job'[q] = job[q]
  BY <1>2 DEF OthersStay, Submitting
<1>3. OwnPrompts'
  BY <1>1 DEF OwnPrompts
<1>4. Hooked' \subseteq Hooked
  BY <1>1 DEF Hooked
<1>5. Hooked \ {job[p].gen} \subseteq Hooked'
  BY <1>2 DEF Hooked
<1>6. ASSUME Submitting(p)' \/ ~Submitting(p) PROVE Hooked \subseteq Hooked'
  BY <1>1, <1>2, <1>6 DEF Hooked
<1>. QED
  BY <1>3, <1>4, <1>5, <1>6

LEMMA OthersAt ==
    ASSUME NEW p \in Procs, OthersStay(p), NEW W, NEW W2,
           \A q \in Procs : PromptAt(q, W) /\ FlushAt(q),
           \A q \in Procs \ {p} : Submitting(q) =>
              /\ job[q].gen > Len(transcript') /\ job[q].gen \in Unlogged'
              /\ job[q].gen \in W <=> job[q].gen \in W2,
           \A q \in Procs \ {p} : pc[q] = "logPrompt" => prompts' = prompts
    PROVE  \A q \in Procs \ {p} : PromptAt(q, W2)' /\ FlushAt(q)'
<1>. SUFFICES ASSUME NEW q \in Procs \ {p} PROVE PromptAt(q, W2)' /\ FlushAt(q)'
  OBVIOUS
<1>1. pc'[q] = pc[q] /\ job'[q] = job[q] /\ mine'[q] = mine[q]
  BY DEF OthersStay
<1>2. FlushAt(q)'
  BY <1>1 DEF FlushAt
<1>3. PromptAt(q, W2)'
  <2>1. ASSUME Submitting(q)'
        PROVE  /\ Submitting(q) /\ job[q].gen > Len(transcript') /\ job[q].gen \in Unlogged'
               /\ job[q].gen \in W <=> job[q].gen \in W2
    BY <1>1, <2>1 DEF Submitting
  <2>2. PromptAt(q, W)
    OBVIOUS
  <2>. QED
    BY <1>1, <2>1, <2>2 DEF PromptAt
<1>. QED
  BY <1>2, <1>3

(* The rows of prompts stay as they are.                                   *)
LEMMA RowsStay ==
    ASSUME RowsOnce, TextsSubmitted, submitted' = submitted,
           \A r : r \in DOMAIN log' /\ r.kind = "prompt" <=> r \in DOMAIN log /\ r.kind = "prompt",
           \A r \in DOMAIN log : r.kind = "prompt" => log'[r] = log[r]
    PROVE  RowsOnce' /\ TextsSubmitted' /\ Unlogged' = Unlogged
<1>1. \A t : PromptRows(t)' = PromptRows(t)
  BY DEF PromptRows
<1>2. \A t : \A r \in PromptRows(t) : log'[r] = log[r]
  BY DEF PromptRows
<1>3. RowsOnce'
  BY <1>1, <1>2 DEF RowsOnce
<1>4. TextsSubmitted'
  BY DEF TextsSubmitted
<1>5. Unlogged' = Unlogged
  BY <1>1 DEF Unlogged
<1>. QED
  BY <1>3, <1>4, <1>5

LEMMA LogStays ==
    ASSUME RowsOnce, TextsSubmitted, submitted' = submitted, log' = log
    PROVE  RowsOnce' /\ TextsSubmitted' /\ Unlogged' = Unlogged
  BY DEF RowsOnce, TextsSubmitted, Unlogged, PromptRows

(* A prompt's row joins, of a prompt that had none.                        *)
LEMMA PromptRowJoins ==
    ASSUME HooksInv, RowsOnce, TextsSubmitted, submitted' = submitted,
           NEW row \in Rows, row.kind = "prompt", row.text \in Unlogged, Insert(row)
    PROVE  RowsOnce' /\ TextsSubmitted' /\ Unlogged' = Unlogged \ {row.text}
<1>. DEFINE x == row.text
<1>1. x \in 1 .. submitted /\ PromptRows(x) = {}
  BY DEF Unlogged
<1>2. row \notin DOMAIN log
  BY <1>1 DEF PromptRows
<1>3. /\ DOMAIN log' = DOMAIN log \cup {row} /\ log'[row] = 1
      /\ \A r \in DOMAIN log : log'[r] = log[r]
  BY <1>2, RowJoins
<1>4. PromptRows(x)' = {row}
  BY <1>1, <1>3 DEF PromptRows
<1>5. \A t : t # x => PromptRows(t)' = PromptRows(t)
  BY <1>3 DEF PromptRows
<1>6. \A t : \A r \in PromptRows(t) : log'[r] = log[r]
  BY <1>3 DEF PromptRows
<1>7. RowsOnce'
  BY <1>3, <1>4, <1>5, <1>6 DEF RowsOnce
<1>8. TextsSubmitted'
  BY <1>1, <1>3 DEF TextsSubmitted
<1>9. Unlogged' = Unlogged \ {x}
  <2>1. PromptRows(x)' # {}
    BY <1>4
  <2>. HIDE DEF x
  <2>. QED
    BY <1>5, <2>1 DEF Unlogged
<1>. QED
  BY <1>7, <1>8, <1>9

(* A step after which the prompts of W2 wait.                              *)
LEMMA CountTo ==
    ASSUME NEW p \in Procs, OthersStay(p), NEW W, Counted(W), NEW W2,
           Exclusive', OwnPrompts', RowsOnce', TextsSubmitted',
           W2 \subseteq 1 .. submitted', Waiting(W2)',
           Balance(W2, Unlogged', Len(transcript'), faults', Hooked'),
           PromptAt(p, W2)', FlushAt(p)',
           \A q \in Procs \ {p} : Submitting(q) =>
              /\ job[q].gen > Len(transcript') /\ job[q].gen \in Unlogged'
              /\ job[q].gen \in W <=> job[q].gen \in W2,
           \A q \in Procs \ {p} : pc[q] = "logPrompt" => prompts' = prompts
    PROVE  PromptInv'
<1>1. \A q \in Procs : PromptAt(q, W) /\ FlushAt(q)
  BY DEF Counted
<1>2. \A q \in Procs \ {p} : PromptAt(q, W2)' /\ FlushAt(q)'
  BY <1>1, OthersAt
<1>3. Counted(W2)'
  BY <1>2 DEF Counted
<1>. QED
  BY <1>3 DEF PromptInv

(* A step that leaves the waiting prompts as they are.                     *)
LEMMA CountStays ==
    ASSUME HooksInv, HooksInv', PromptInv, NEW p \in Procs, OthersStay(p),
           Exclusive', RowsOnce', TextsSubmitted', Unlogged' = Unlogged,
           submitted' = submitted, transcript' = transcript, prompts' = prompts,
           Submitting(p)' => Submitting(p) /\ job'[p].gen = job[p].gen,
           Writes(p)' <=> Writes(p), Writes(p) => mine'[p].prompts = mine[p].prompts,
           FlushAt(p)', faults' = faults \/ faults' # 0,
           \A W : Counted(W) => PromptAt(p, W)',
           \A W : Counted(W) => \/ Submitting(p)' \/ ~Submitting(p)
                                \/ job[p].gen \in W \/ faults' # 0
    PROVE  PromptInv'
<1>1. PICK W : Counted(W)
  BY DEF PromptInv
<1>2. /\ OwnPrompts'
      /\ Submitting(p)' \/ ~Submitting(p) => Hooked' = Hooked
      /\ ~Submitting(p)' => Hooked \ {job[p].gen} \subseteq Hooked'
  BY HookedStep DEF PromptInv
<1>3. Waiting(W)'
  <2>1. \A q \in Procs : /\ Writes(q)' <=> Writes(q)
                         /\ Writes(q) => mine'[q].prompts = mine[q].prompts
    BY DEF OthersStay, Writes, FileOf, Step
  <2>. QED
    BY <1>1, <2>1 DEF Counted, Waiting
<1>4. Balance(W, Unlogged', Len(transcript'), faults', Hooked')
  <2>1. Balance(W, Unlogged, Len(transcript), faults, Hooked)
    BY <1>1 DEF Counted
  <2>2. CASE faults' # 0
    BY <2>1, <2>2, BalanceFault
  <2>3. CASE faults' = faults /\ Hooked' = Hooked
    BY <2>1, <2>3
  <2>4. CASE faults' = faults /\ job[p].gen \in W /\ Hooked \ {job[p].gen} \subseteq Hooked'
    BY <2>1, <2>4, BalanceLeave
  <2>. QED
    BY <1>1, <1>2, <2>2, <2>3, <2>4
<1>5. W \subseteq 1 .. submitted' /\ PromptAt(p, W)'
  BY <1>1 DEF Counted
<1>6. ASSUME NEW q \in Procs \ {p}, Submitting(q)
      PROVE  job[q].gen > Len(transcript') /\ job[q].gen \in Unlogged'
  BY <1>1, <1>6 DEF Counted, PromptAt
<1>. QED
  BY <1>1, <1>2, <1>3, <1>4, <1>5, <1>6, CountTo

LEMMA InitCounts == Init => CountInv
<1>. SUFFICES ASSUME Init PROVE PromptInv
  BY DEF CountInv
<1>1. /\ submitted = 0 /\ transcript = <<>> /\ prompts = {} /\ DOMAIN log = {}
      /\ \A p \in Procs : pc[p] = "idle"
  BY DEF Init, EmptyBag, SetToBag
<1>2. 1 .. submitted = {} /\ Len(transcript) = 0
  BY <1>1
<1>3. Exclusive /\ OwnPrompts /\ RowsOnce /\ TextsSubmitted
  BY <1>1, <1>2 DEF Exclusive, Inside, OwnPrompts, Submitting, RowsOnce, TextsSubmitted
<1>4. Unlogged = {} /\ Hooked = {}
  BY <1>1, <1>2 DEF Unlogged, Hooked, Submitting
<1>5. Balance({}, Unlogged, Len(transcript), faults, Hooked)
  <2>1. Upto({}, Len(transcript)) = {} /\ Cardinality({}) = 0
    BY FS_EmptySet DEF Upto
  <2>2. Cardinality(Upto(Unlogged, Len(transcript))) = 0
    BY <1>4, <2>1
  <2>3. Cardinality(Upto({}, Len(transcript))) = 0
    BY <2>1
  <2>. QED
    BY <1>4, <2>2, <2>3 DEF Balance
<1>6. Waiting({}) /\ \A p \in Procs : PromptAt(p, {}) /\ FlushAt(p)
  BY <1>1 DEF Waiting, Writes, PromptAt, FlushAt, Submitting
<1>7. Counted({})
  BY <1>5, <1>6 DEF Counted
<1>. QED
  BY <1>3, <1>7 DEF PromptInv

LEMMA TickCounts ==
    ASSUME PromptInv, Tick \/ UNCHANGED vars
    PROVE  PromptInv'
<1>1. UNCHANGED <<submitted, transcript, prompts, lock, pc, job, mine, store, faults>>
  BY DEF Tick, vars, files
<1>2. /\ Unlogged' = Unlogged /\ Hooked' = Hooked
      /\ \A p \in Procs : Writes(p)' = Writes(p) /\ FileOf(p)' = FileOf(p)
  BY <1>1 DEF Unlogged, Hooked, Submitting, Writes, FileOf, Step, PromptRows
<1>3. Exclusive' /\ OwnPrompts' /\ RowsOnce' /\ TextsSubmitted'
  BY <1>1, <1>2 DEF PromptInv, Exclusive, OwnPrompts, RowsOnce, TextsSubmitted, Submitting,
           PromptRows
<1>4. PICK W : Counted(W)
  BY DEF PromptInv
<1>5. Counted(W)'
  <2>1. Waiting(W)'
    BY <1>1, <1>2, <1>4 DEF Counted, Waiting
  <2>2. Balance(W, Unlogged', Len(transcript'), faults', Hooked')
    BY <1>1, <1>2, <1>4 DEF Counted
  <2>3. ASSUME NEW p \in Procs PROVE PromptAt(p, W)' /\ FlushAt(p)'
    BY <1>1, <1>2, <1>4 DEF Counted, PromptAt, FlushAt, Submitting
  <2>. QED
    BY <1>1, <1>4, <2>1, <2>2, <2>3 DEF Counted
<1>. QED
  BY <1>3, <1>5 DEF PromptInv

LEMMA TranscribeCounts ==
    ASSUME HooksInv, PromptInv, Transcribe
    PROVE  PromptInv'
<1>1. UNCHANGED <<submitted, prompts, lock, pc, job, mine, store, faults>>
  BY DEF Transcribe, files
<1>2. /\ Len(transcript') = Len(transcript) + 1 /\ Len(transcript) \in Nat
      /\ \A p \in Procs : job[p].kind = "prompt" => job[p].gen # Len(transcript) + 1
  BY TranscribeFits DEF Transcribe
<1>3. /\ Unlogged' = Unlogged /\ Hooked' = Hooked
      /\ \A p \in Procs : Writes(p)' = Writes(p) /\ FileOf(p)' = FileOf(p)
  BY <1>1 DEF Unlogged, Hooked, Submitting, Writes, FileOf, Step, PromptRows
<1>4. Exclusive' /\ OwnPrompts' /\ RowsOnce' /\ TextsSubmitted'
  BY <1>1, <1>3 DEF PromptInv, Exclusive, OwnPrompts, RowsOnce, TextsSubmitted, Submitting,
           PromptRows
<1>5. PICK W : Counted(W)
  BY DEF PromptInv
<1>6. Counted(W)'
  <2>1. Waiting(W)'
    BY <1>1, <1>3, <1>5 DEF Counted, Waiting
  <2>2. Balance(W, Unlogged', Len(transcript'), faults', Hooked')
    <3>1. Len(transcript) + 1 \notin Hooked
      BY <1>2 DEF Hooked, Submitting
    <3>2. Balance(W, Unlogged, Len(transcript), faults, Hooked) /\ W \subseteq 1 .. submitted
      BY <1>5 DEF Counted
    <3>3. Unlogged \subseteq 1 .. submitted /\ submitted \in Nat /\ faults \in Nat
      BY DEF Unlogged, HooksInv, TypeInv
    <3>4. Balance(W, Unlogged, Len(transcript) + 1, faults, Hooked)
      BY <1>2, <3>1, <3>2, <3>3, BalanceTranscribe
    <3>. QED
      BY <1>1, <1>2, <1>3, <3>4
  <2>3. ASSUME NEW p \in Procs PROVE PromptAt(p, W)' /\ FlushAt(p)'
    <3>1. ASSUME Submitting(p) PROVE job[p].gen > Len(transcript')
      <4>1. job[p].gen > Len(transcript) /\ job[p].gen # Len(transcript) + 1 /\ job[p].gen \in Nat
        BY <1>2, <1>5, <3>1 DEF Counted, PromptAt, Submitting, HooksInv, JobFits, Busy, Jobs
      <4>. QED
        BY <1>2, <4>1
    <3>. QED
      BY <1>1, <1>3, <1>5, <3>1 DEF Counted, PromptAt, FlushAt, Submitting
  <2>. QED
    BY <1>1, <1>5, <2>1, <2>2, <2>3 DEF Counted
<1>. QED
  BY <1>4, <1>6 DEF PromptInv

LEMMA PromptSteps ==
    ASSUME NEW p \in Procs, Busy(p)
    PROVE  /\ job[p].kind = "prompt" => Step(p) \in {"defer", "log"} /\ Tail(job[p].steps) = <<>>
           /\ Step(p) = "defer" => job[p].kind = "prompt"
<1>. DEFINE j == job[p]
<1>1. Left(j.kind, j.steps) /\ Step(p) = Head(j.steps)
  BY DEF Busy, Step
<1>. HIDE DEF j
<1>2. /\ j.kind = "prompt" => Head(j.steps) \in {"defer", "log"} /\ Tail(j.steps) = <<>>
      /\ Head(j.steps) = "defer" => j.kind = "prompt"
  <2>1. /\ Head(j.steps) = j.steps[1]
        /\ j.kind = "prompt" => Tail(j.steps) = <<>>
    BY <1>1, StepsLeft
  <2>2. /\ j.kind = "prompt" => j.steps[1] \in {"defer", "log"}
        /\ j.steps[1] = "defer" => j.kind = "prompt"
    BY <1>1, FirstStep
  <2>. QED
    BY ONLY <2>1, <2>2
<1>. QED
  BY <1>1, <1>2 DEF j

LEMMA SubmitCounts ==
    ASSUME HooksInv, PromptInv, NEW p \in Procs, Submit(p)
    PROVE  PromptInv'
<1>1. /\ HooksInv' /\ OthersStay(p) /\ pc[p] = "idle" /\ pc'[p] \in {"lock", "log"}
      /\ submitted' = submitted + 1 /\ transcript' = transcript
      /\ job'[p].kind = "prompt" /\ job'[p].gen = submitted + 1
      /\ UNCHANGED <<prompts, edits, lock, mine, store, faults>>
  BY SubmitFits DEF files
<1>2. /\ submitted \in Nat /\ Len(transcript) \in Nat /\ Len(transcript) <= submitted
      /\ faults \in Nat
  BY DEF HooksInv, TypeInv
<1>3. PICK W : Counted(W)
  BY DEF PromptInv
<1>4. Exclusive'
  BY <1>1, ExclusiveStep DEF PromptInv, Inside
<1>5. ASSUME NEW q \in Procs \ {p} PROVE Submitting(q) => job[q].gen \in 1 .. submitted
  BY DEF Submitting, HooksInv, JobFits, Busy
<1>6. ASSUME NEW q \in Procs \ {p} PROVE (Submitting(q)' <=> Submitting(q)) /\ job'[q] = job[q]
  BY <1>1 DEF OthersStay, Submitting
<1>7. OwnPrompts'
  <2>. SUFFICES ASSUME NEW q \in Procs, NEW r \in Procs, Submitting(q)', Submitting(r)',
                       job'[q].gen = job'[r].gen
                PROVE  q = r
    BY DEF OwnPrompts
  <2>1. CASE q # p /\ r # p
    BY <1>6, <2>1 DEF PromptInv, OwnPrompts
  <2>2. CASE q = p \/ r = p
    BY <1>1, <1>2, <1>5, <1>6, <2>2
  <2>. QED
    BY <2>1, <2>2
<1>8. \A t : PromptRows(t)' = PromptRows(t)
  BY <1>1 DEF PromptRows
<1>9. PromptRows(submitted + 1) = {}
  BY <1>2 DEF PromptInv, TextsSubmitted, PromptRows
<1>10. \A t : t \in 1 .. submitted' <=> t \in 1 .. submitted \/ t = submitted + 1
  BY <1>1, <1>2
<1>11. RowsOnce' /\ TextsSubmitted'
  BY <1>1, <1>8, <1>9, <1>10 DEF PromptInv, RowsOnce, TextsSubmitted
<1>12. Unlogged' = Unlogged \cup {submitted + 1}
  BY <1>8, <1>9, <1>10 DEF Unlogged
<1>13. Hooked \cup {submitted + 1} \subseteq Hooked'
  <2>1. Submitting(p)' /\ ~Submitting(p)
    BY <1>1 DEF Submitting
  <2>2. submitted + 1 \in Hooked'
    BY <1>1, <2>1 DEF Hooked
  <2>3. Hooked \subseteq Hooked'
    BY <1>6, <2>1 DEF Hooked
  <2>. QED
    BY <2>2, <2>3
<1>14. W \subseteq 1 .. submitted /\ W \subseteq 1 .. submitted'
  BY <1>3, <1>10 DEF Counted
<1>15. Balance(W, Unlogged', Len(transcript'), faults', Hooked')
  <2>1. Balance(W, Unlogged, Len(transcript), faults, Hooked) /\ Unlogged \subseteq 1 .. submitted
    BY <1>3 DEF Counted, Unlogged
  <2>2. Balance(W, Unlogged \cup {submitted + 1}, Len(transcript), faults, Hooked')
    BY <1>2, <1>13, <1>14, <2>1, BalanceSubmit
  <2>. QED
    BY <1>1, <1>12, <2>2
<1>16. Waiting(W)'
  <2>1. \A q \in Procs : Writes(q)' <=> Writes(q)
    BY <1>1 DEF OthersStay, Writes, FileOf, Step
  <2>. QED
    BY <1>1, <1>3, <2>1 DEF Counted, Waiting
<1>17. PromptAt(p, W)' /\ FlushAt(p)'
  <2>1. submitted + 1 > Len(transcript) /\ submitted + 1 \notin W
    BY <1>2, <1>14
  <2>. QED
    BY <1>1, <1>12, <2>1 DEF PromptAt, FlushAt
<1>18. ASSUME NEW q \in Procs \ {p}, Submitting(q)
       PROVE  job[q].gen > Len(transcript') /\ job[q].gen \in Unlogged'
  BY <1>1, <1>3, <1>12, <1>18 DEF Counted, PromptAt
<1>. QED
  BY <1>1, <1>3, <1>4, <1>7, <1>11, <1>14, <1>15, <1>16, <1>17, <1>18, CountTo

LEMMA TurnCounts ==
    ASSUME HooksInv, PromptInv, NEW p \in Procs,
           Respond(p) \/ UseEditTool(p) \/ AfterFileEdit(p)
    PROVE  PromptInv'
<1>1. /\ HooksInv' /\ OthersStay(p) /\ pc[p] = "idle" /\ pc'[p] = "lock"
      /\ job'[p].kind # "prompt"
      /\ UNCHANGED <<submitted, transcript, prompts, edits, lock, mine, store, faults>>
  BY TurnFits DEF files
<1>2. Exclusive'
  BY <1>1, ExclusiveStep DEF PromptInv, Inside
<1>3. RowsOnce' /\ TextsSubmitted' /\ Unlogged' = Unlogged
  BY <1>1, LogStays DEF PromptInv
<1>4. ~Submitting(p)' /\ ~Submitting(p) /\ ~Writes(p)' /\ ~Writes(p) /\ FlushAt(p)'
      /\ \A W : PromptAt(p, W)'
  BY <1>1 DEF Submitting, Writes, FlushAt, PromptAt
<1>. QED
  BY <1>1, <1>2, <1>3, <1>4, CountStays

(* A section begins, with the lock.                                        *)
LEMMA LoadStep ==
    ASSUME HooksInv, NEW p \in Procs, Load(p), Lock(p)
    PROVE  /\ Step(p)' = Step(p) /\ FileOf(p)' = FileOf(p)
           /\ job'[p].kind = job[p].kind /\ job'[p].gen = job[p].gen
           /\ Exclusive => Exclusive'
           /\ FileOf(p) = "prompts" => lock["prompts"] = Free
<1>1. Judged(p) /\ OthersStay(p)
  BY LoadJudges, LoadFits
<1>2. Head(<<"check">>) = "check"
  OBVIOUS
<1>3. /\ Step(p)' = Step(p) /\ FileOf(p)' = FileOf(p)
      /\ job'[p].kind = job[p].kind /\ job'[p].gen = job[p].gen
  BY <1>1, <1>2 DEF Judged, Step, FileOf
<1>4. /\ lock[FileOf(p)] = Free /\ lock' = [lock EXCEPT ![FileOf(p)] = p]
      /\ lock \in [Files -> Procs \cup {Free, Stale}] /\ FileOf(p) \in Files
  BY DEF Lock, HooksInv, TypeInv, FileOf, Files
<1>5. lock'[FileOf(p)] = p /\ \A f \in Files : lock[f] \in Procs \ {p} => lock'[f] = lock[f]
  BY <1>4
<1>6. Exclusive => Exclusive'
  BY <1>1, <1>3, <1>5, ExclusiveStep
<1>. QED
  BY <1>3, <1>4, <1>6

LEMMA LoadCounts ==
    ASSUME HooksInv, PromptInv, NEW p \in Procs, Load(p), Lock(p)
    PROVE  PromptInv'
<1>1. /\ pc[p] = "lock" /\ Busy(p) /\ Loaded(p) /\ OthersStay(p) /\ HooksInv'
      /\ UNCHANGED <<submitted, transcript, prompts, store, faults>>
  BY LoadCases, LoadFits
<1>2. /\ Step(p)' = Step(p) /\ FileOf(p)' = FileOf(p)
      /\ job'[p].kind = job[p].kind /\ job'[p].gen = job[p].gen
      /\ Exclusive' /\ (FileOf(p) = "prompts" => lock["prompts"] = Free)
  BY LoadStep DEF PromptInv
<1>3. RowsOnce' /\ TextsSubmitted' /\ Unlogged' = Unlogged
  BY <1>1, LogStays DEF PromptInv
<1>4. CASE Step(p) # "defer"
  <2>1. job[p].kind # "prompt" /\ Step(p) # "log"
    BY <1>1, <1>4, PromptSteps DEF Loaded
  <2>2. ~Submitting(p)' /\ ~Submitting(p) /\ \A W : PromptAt(p, W)'
    BY <1>2, <2>1 DEF Submitting, PromptAt
  <2>3. ~Writes(p)' /\ ~Writes(p)
    BY <1>1, <1>2, <1>4 DEF Writes, Loaded, FileOf
  <2>4. FlushAt(p)'
    BY <1>1, <1>2 DEF FlushAt, Loaded
  <2>. QED
    BY <1>1, <1>2, <1>3, <2>2, <2>3, <2>4, CountStays
<1>5. CASE Step(p) = "defer"
  <2>1. PICK W : Counted(W)
    BY DEF PromptInv
  <2>2. PICK g : g = job[p].gen
    OBVIOUS
  <2>3. /\ job[p].kind = "prompt" /\ Submitting(p) /\ pc'[p] = "truncate"
        /\ mine'[p].prompts = prompts \cup {g}
        /\ FileOf(p) = "prompts" /\ g \in 1 .. submitted
    BY <1>1, <1>5, <2>2, PromptSteps DEF Submitting, Loaded, FileOf, Busy
  <2>4. g > Len(transcript) /\ g \in Unlogged
    BY <2>1, <2>2, <2>3 DEF Counted, PromptAt
  <2>5. \A q \in Procs : ~Writes(q) /\ pc[q] # "logPrompt"
    BY <1>2, <2>3, NobodyInside DEF PromptInv
  <2>6. W = prompts /\ W \subseteq 1 .. submitted
    BY <2>1, <2>5 DEF Counted, Waiting
  <2>7. PICK W2 : W2 = W \cup {g}
    OBVIOUS
  <2>8. Submitting(p)' /\ job'[p].gen = g
    BY <1>2, <2>2, <2>3 DEF Submitting
  <2>9. OwnPrompts' /\ Hooked' = Hooked
    BY <1>1, <2>2, <2>3, <2>8, HookedStep DEF PromptInv
  <2>10. Waiting(W2)'
    <3>1. Writes(p)' /\ mine'[p].prompts = W2
      BY <1>2, <2>3, <2>6, <2>7 DEF Writes
    <3>2. \A q \in Procs \ {p} : ~Writes(q)'
      BY <1>1, <2>5 DEF OthersStay, Writes, FileOf, Step
    <3>. QED
      BY <3>1, <3>2 DEF Waiting
  <2>11. Balance(W2, Unlogged', Len(transcript'), faults', Hooked')
    <3>1. /\ Balance(W, Unlogged, Len(transcript), faults, Hooked)
          /\ Unlogged \subseteq 1 .. submitted /\ submitted \in Nat /\ Len(transcript) \in Nat
          /\ faults \in Nat
      BY <2>1 DEF Counted, Unlogged, HooksInv, TypeInv
    <3>2. Balance(W \cup {g}, Unlogged, Len(transcript), faults, Hooked)
      BY <2>4, <2>6, <3>1, BalanceDefer
    <3>. QED
      BY <1>1, <1>3, <2>7, <2>9, <3>2
  <2>12. PromptAt(p, W2)' /\ FlushAt(p)'
    BY <1>1, <1>3, <2>3, <2>4, <2>7, <2>8 DEF PromptAt, FlushAt
  <2>13. ASSUME NEW q \in Procs \ {p}, Submitting(q)
         PROVE  /\ job[q].gen > Len(transcript') /\ job[q].gen \in Unlogged'
                /\ job[q].gen \in W <=> job[q].gen \in W2
    <3>1. job[q].gen # g
      BY <2>2, <2>3, <2>13 DEF PromptInv, OwnPrompts
    <3>. QED
      BY <1>1, <1>3, <2>1, <2>7, <2>13, <3>1 DEF Counted, PromptAt
  <2>14. W2 \subseteq 1 .. submitted'
    BY <1>1, <2>3, <2>6, <2>7
  <2>. QED
    BY <1>1, <1>2, <1>3, <2>1, <2>5, <2>9, <2>10, <2>11, <2>12, <2>13, <2>14, CountTo
<1>. QED
  BY <1>4, <1>5

(* A step within a section.                                                *)
LEMMA SectionStep ==
    ASSUME Exclusive, NEW p \in Procs, OthersStay(p), pc[p] \in Inside, job'[p] = job[p],
           lock' = lock
    PROVE  /\ Exclusive' /\ Step(p)' = Step(p) /\ FileOf(p)' = FileOf(p)
           /\ pc'[p] # "idle" => (Submitting(p)' <=> Submitting(p))
<1>1. Step(p)' = Step(p) /\ FileOf(p)' = FileOf(p)
  BY DEF Step, FileOf
<1>2. lock[FileOf(p)] = p
  BY DEF Exclusive
<1>3. Exclusive'
  BY <1>1, <1>2, ExclusiveStep
<1>4. pc[p] # "idle"
  BY DEF Inside
<1>. QED
  BY <1>1, <1>3, <1>4 DEF Submitting

LEMMA LogPromptCounts ==
    ASSUME HooksInv, PromptInv, NEW p \in Procs, LogPrompt(p), ~misled'
    PROVE  PromptInv'
<1>1. /\ pc[p] = "logPrompt" /\ OthersStay(p) /\ HooksInv'
      /\ UNCHANGED <<submitted, transcript, prompts, lock, job>>
  BY LogPromptFits, LogPromptCases DEF files
<1>2. /\ Step(p) = "flush" /\ FileOf(p) = "prompts" /\ pc[p] \in Inside
      /\ job[p].kind # "prompt" /\ job[p].gen \in 1 .. Len(transcript)
  BY <1>1, ResolvedPrompt DEF FileOf, Inside
<1>3. Exclusive' /\ FileOf(p)' = FileOf(p) /\ ~Submitting(p) /\ ~Submitting(p)'
  BY <1>1, <1>2, SectionStep DEF PromptInv, Submitting
<1>4. CASE Waits(p)
  <2>1. RowsOnce' /\ TextsSubmitted' /\ Unlogged' = Unlogged
    BY <1>1, <1>4, LogStays DEF PromptInv, Waits, Lose
  <2>2. ~Writes(p)' /\ ~Writes(p) /\ FlushAt(p)' /\ \A W : PromptAt(p, W)'
    BY <1>1, <1>3, <1>4 DEF Writes, FlushAt, PromptAt, Waits, HooksInv, TypeInv
  <2>3. faults' = faults \/ faults' # 0
    BY <1>4 DEF HooksInv, TypeInv, Waits, Lose
  <2>. QED
    BY <1>1, <1>3, <2>1, <2>2, <2>3, CountStays
<1>5. ASSUME NEW row \in Rows, Flushes(p, row) PROVE PromptInv'
  <2>1. PICK W : Counted(W)
    BY DEF PromptInv
  <2>2. PICK g : g = job[p].gen
    OBVIOUS
  <2>3. PICK x : x = Resolved(Transcribed, LoggedTexts)
    OBVIOUS
  <2>4. \A q \in Procs \ {p} : ~Writes(q) /\ pc[q] # "logPrompt"
    BY <1>2, Alone DEF PromptInv
  <2>5. ~Writes(p)
    BY <1>1 DEF Writes
  <2>6. W = prompts /\ W \subseteq 1 .. submitted
    BY <2>1, <2>4, <2>5 DEF Counted, Waiting
  <2>7. g \in W /\ mine[p].prompts = W \ {g} /\ g <= Len(transcript) /\ g \in 1 .. submitted
    BY <1>1, <1>2, <2>1, <2>2, <2>6 DEF Counted, FlushAt
  <2>8. /\ Balance(W, Unlogged, Len(transcript), faults, Hooked)
        /\ Unlogged \subseteq 1 .. submitted /\ submitted \in Nat /\ Len(transcript) \in Nat
        /\ faults \in Nat /\ Len(transcript) <= submitted
    BY <2>1 DEF Counted, Unlogged, HooksInv, TypeInv
  <2>9. Upto(Unlogged, Len(transcript)) # {}
    <3>. DEFINE A == Upto(W, Len(transcript))
                B == Upto(Unlogged, Len(transcript))
    <3>1. IsFiniteSet(A) /\ IsFiniteSet(B) /\ Cardinality(A) \in Nat /\ Cardinality(B) \in Nat
      BY <2>6, <2>8, UptoFinite
    <3>2. A # {} /\ Cardinality(A) <= Cardinality(B)
      BY <2>7, <2>8 DEF Balance, Upto
    <3>. HIDE DEF A, B
    <3>3. Cardinality(A) # 0
      BY <3>1, <3>2, FS_EmptySet
    <3>4. Cardinality(B) # 0
      BY <3>1, <3>2, <3>3
    <3>5. B # {}
      BY <3>4, FS_EmptySet
    <3>. QED
      BY <3>5 DEF B
  <2>10. Upto(Unlogged, Len(transcript)) = Transcribed \ LoggedTexts
    <3>1. ASSUME NEW t \in 1 .. Len(transcript)
          PROVE  t \in Unlogged <=> t \notin LoggedTexts
      BY <2>8 DEF Unlogged, PromptRows, LoggedTexts
    <3>2. Transcribed = 1 .. Len(transcript)
      BY TranscribedPrompts
    <3>3. \A t : t \in Upto(Unlogged, Len(transcript)) <=> t \in Unlogged /\ t \in 1 .. Len(transcript)
      <4>1. \A t \in Unlogged : t \in Nat /\ t >= 1
        BY <2>8
      <4>2. \A t : t \in Upto(Unlogged, Len(transcript)) <=> t \in Unlogged /\ t <= Len(transcript)
        BY DEF Upto
      <4>3. Len(transcript) \in Nat
        BY <2>8
      <4>4. \A t \in Unlogged : t <= Len(transcript) <=> t \in 1 .. Len(transcript)
        BY ONLY <4>1, <4>3
      <4>. QED
        BY ONLY <4>2, <4>4
    <3>. QED
      BY <3>1, <3>2, <3>3
  <2>11. x \in Unlogged /\ x <= Len(transcript) /\ x \in Nat
    <3>1. Transcribed \ LoggedTexts # {} => x \in Transcribed \ LoggedTexts
      BY <1>1, <2>3, ResolvedPrompt
    <3>2. x \in Upto(Unlogged, Len(transcript))
      BY <2>9, <2>10, <3>1
    <3>. QED
      BY <2>8, <3>2 DEF Upto
  <2>12. \/ Taken(row) /\ RowsOnce' /\ TextsSubmitted' /\ Unlogged' = Unlogged \ {x}
         \/ faults' # 0 /\ RowsOnce' /\ TextsSubmitted' /\ Unlogged' = Unlogged
    <3>1. row.kind = "prompt" /\ row.text = x /\ (Create(row) \/ Spool(row) \/ Lose)
      BY <1>5, <2>3 DEF Flushes
    <3>2. CASE Taken(row)
      BY <1>1, <2>11, <3>1, <3>2, PromptRowJoins DEF PromptInv, Taken
    <3>3. CASE log' = log /\ faults' # 0
      BY <1>1, <3>3, LogStays DEF PromptInv
    <3>. QED
      BY <1>5, <3>1, <3>2, <3>3, CallsFit
  <2>13. PICK W2 : W2 = W \ {g}
    OBVIOUS
  <2>14. OwnPrompts' /\ Hooked' = Hooked
    BY <1>1, <1>3, HookedStep DEF PromptInv
  <2>15. Waiting(W2)'
    <3>1. Writes(p)' /\ mine'[p].prompts = W2
      BY <1>2, <1>3, <1>5, <2>7, <2>13 DEF Writes, Flushes, HooksInv, TypeInv
    <3>2. \A q \in Procs \ {p} : ~Writes(q)'
      BY <1>1, <2>4 DEF OthersStay, Writes, FileOf, Step
    <3>. QED
      BY <3>1, <3>2 DEF Waiting
  <2>16. Balance(W2, Unlogged', Len(transcript'), faults', Hooked')
    <3>1. Balance(W \ {g}, Unlogged \ {x}, Len(transcript), faults, Hooked)
      BY <2>6, <2>7, <2>8, <2>11, BalanceFlush
    <3>2. CASE Taken(row) /\ Unlogged' = Unlogged \ {x}
      BY <1>1, <2>13, <2>14, <3>1, <3>2, BalanceFault DEF Taken
    <3>3. CASE faults' # 0 /\ Unlogged' = Unlogged
      <4>1. Balance(W \ {g}, Unlogged, Len(transcript), faults', Hooked)
        BY <2>6, <2>7, <2>8, <3>3, BalanceDrop
      <4>. QED
        BY <1>1, <2>13, <2>14, <3>3, <4>1
    <3>. QED
      BY <2>12, <3>2, <3>3
  <2>17. PromptAt(p, W2)' /\ FlushAt(p)'
    BY <1>1, <1>3, <1>5 DEF PromptAt, FlushAt, Flushes, HooksInv, TypeInv
  <2>18. ASSUME NEW q \in Procs \ {p}, Submitting(q)
         PROVE  /\ job[q].gen > Len(transcript') /\ job[q].gen \in Unlogged'
                /\ job[q].gen \in W <=> job[q].gen \in W2
    <3>1. job[q].gen > Len(transcript) /\ job[q].gen \in Unlogged /\ job[q].gen \in Nat
      BY <2>1, <2>8, <2>18 DEF Counted, PromptAt, Unlogged
    <3>2. job[q].gen # x /\ job[q].gen # g
      BY <2>7, <2>8, <2>11, <3>1
    <3>. QED
      BY <1>1, <2>12, <2>13, <3>1, <3>2
  <2>19. W2 \subseteq 1 .. submitted'
    BY <1>1, <2>6, <2>13
  <2>. QED
    BY <1>1, <1>3, <2>1, <2>4, <2>12, <2>14, <2>15, <2>16, <2>17, <2>18, <2>19, CountTo
<1>. QED
  BY <1>4, <1>5, LogPromptCases

LEMMA SaveCounts ==
    ASSUME HooksInv, PromptInv, NEW p \in Procs, Truncate(p) \/ Write(p)
    PROVE  PromptInv'
<1>1. /\ OthersStay(p) /\ HooksInv' /\ pc[p] \in Inside
      /\ UNCHANGED <<submitted, transcript, lock, job, store, faults>>
  BY TruncateFits, WriteFits DEF Truncate, Write, Inside
<1>2. /\ \/ pc[p] = "truncate" /\ pc'[p] = "write" /\ mine'[p] = mine[p]
         \/ pc[p] = "write" /\ pc'[p] = "unlock"
      /\ FileOf(p) # "prompts" => prompts' = prompts
      /\ FileOf(p) = "prompts" /\ pc'[p] = "unlock" => prompts' = mine[p].prompts
  BY DEF Truncate, Write, HooksInv, TypeInv
<1>3. /\ Exclusive' /\ FileOf(p)' = FileOf(p) /\ (Submitting(p)' <=> Submitting(p))
  BY <1>1, <1>2, SectionStep DEF PromptInv
<1>4. RowsOnce' /\ TextsSubmitted' /\ Unlogged' = Unlogged
  BY <1>1, LogStays DEF PromptInv
<1>5. /\ FlushAt(p)'
      /\ \A W : Counted(W) => PromptAt(p, W)'
  BY <1>1, <1>2, <1>3, <1>4 DEF FlushAt, PromptAt, Counted
<1>6. CASE FileOf(p) # "prompts"
  <2>1. ~Writes(p)' /\ ~Writes(p)
    BY <1>3, <1>6 DEF Writes
  <2>. QED
    BY <1>1, <1>2, <1>3, <1>4, <1>5, <1>6, <2>1, CountStays
<1>7. CASE FileOf(p) = "prompts"
  <2>1. PICK W : Counted(W)
    BY DEF PromptInv
  <2>2. \A q \in Procs \ {p} : ~Writes(q) /\ pc[q] # "logPrompt"
    BY <1>1, <1>7, Alone DEF PromptInv
  <2>3. Writes(p) /\ W = mine[p].prompts
    BY <1>2, <1>7, <2>1 DEF Counted, Waiting, Writes
  <2>4. OwnPrompts' /\ Hooked' = Hooked
    BY <1>1, <1>3, HookedStep DEF PromptInv
  <2>5. Waiting(W)'
    <3>1. \A q \in Procs \ {p} : ~Writes(q)'
      BY <1>1, <2>2 DEF OthersStay, Writes, FileOf, Step
    <3>2. CASE pc'[p] = "write"
      BY <1>2, <1>3, <1>7, <2>3, <3>1, <3>2 DEF Waiting, Writes
    <3>3. CASE pc'[p] = "unlock"
      BY <1>2, <1>3, <1>7, <2>3, <3>1, <3>3 DEF Waiting, Writes
    <3>. QED
      BY <1>2, <3>2, <3>3
  <2>6. Balance(W, Unlogged', Len(transcript'), faults', Hooked') /\ W \subseteq 1 .. submitted'
    BY <1>1, <1>4, <2>1, <2>4 DEF Counted
  <2>7. ASSUME NEW q \in Procs \ {p}, Submitting(q)
        PROVE  job[q].gen > Len(transcript') /\ job[q].gen \in Unlogged'
    BY <1>1, <1>4, <2>1, <2>7 DEF Counted, PromptAt
  <2>. QED
    BY <1>1, <1>3, <1>4, <1>5, <2>1, <2>2, <2>4, <2>5, <2>6, <2>7, CountTo
<1>. QED
  BY <1>6, <1>7

(* A process that goes on to its next step, or ends.                       *)
LEMMA OnwardSubmits ==
    ASSUME NEW p \in Procs, pc[p] # "idle", Busy(p), Onward(p)
    PROVE  /\ ~Submitting(p)'
           /\ pc'[p] \notin Inside
           /\ ~Writes(p)' /\ FlushAt(p)' /\ \A W : PromptAt(p, W)'
<1>1. ASSUME job[p].kind = "prompt" PROVE Tail(job[p].steps) = <<>>
  BY <1>1, PromptSteps
<1>2. ~Submitting(p)'
  BY <1>1 DEF Onward, Submitting
<1>3. pc'[p] \in {"idle", "lock", "log"}
  BY DEF Onward
<1>. QED
  BY <1>2, <1>3 DEF Inside, Writes, FlushAt, PromptAt

LEMMA UnlockCounts ==
    ASSUME HooksInv, PromptInv, NEW p \in Procs, Unlock(p)
    PROVE  PromptInv'
<1>1. /\ OthersStay(p) /\ HooksInv' /\ pc[p] = "unlock" /\ Busy(p)
      /\ ~Submitting(p)' /\ pc'[p] \notin Inside
      /\ ~Writes(p)' /\ FlushAt(p)' /\ (\A W : PromptAt(p, W)')
      /\ UNCHANGED <<submitted, transcript, prompts, store, faults>>
  BY UnlockFits, OnwardSubmits DEF Unlock, HooksInv, JobFits
<1>2. \A f \in Files : lock[f] \in Procs \ {p} => lock'[f] = lock[f]
  BY DEF Unlock, HooksInv, TypeInv
<1>3. Exclusive'
  BY <1>1, <1>2, ExclusiveStep DEF PromptInv
<1>4. RowsOnce' /\ TextsSubmitted' /\ Unlogged' = Unlogged
  BY <1>1, LogStays DEF PromptInv
<1>5. ~Writes(p)
  BY <1>1 DEF Writes
<1>6. \A W : Counted(W) => ~Submitting(p) \/ job[p].gen \in W
  BY <1>1 DEF Counted, PromptAt
<1>. QED
  BY <1>1, <1>3, <1>4, <1>5, <1>6, CountStays

LEMMA LogCounts ==
    ASSUME HooksInv, PromptInv, NEW p \in Procs, Log(p)
    PROVE  PromptInv'
<1>1. /\ OthersStay(p) /\ HooksInv' /\ pc[p] = "log" /\ Busy(p)
      /\ ~Submitting(p)' /\ pc'[p] \notin Inside
      /\ ~Writes(p)' /\ FlushAt(p)' /\ (\A W : PromptAt(p, W)')
      /\ UNCHANGED <<submitted, transcript, prompts, lock>>
      /\ Logged(p) /\ RowOf(p) \in Rows
      /\ RowOf(p).kind = job[p].kind /\ RowOf(p).text = job[p].gen
  BY LogFits, LogCases, OnwardSubmits DEF files
<1>2. ~Writes(p) /\ Exclusive'
  BY <1>1, ExclusiveStep DEF PromptInv, Writes
<1>3. CASE log' = log /\ (faults' # 0 \/ (faults' = faults /\ job[p].kind # "prompt"))
  <2>1. RowsOnce' /\ TextsSubmitted' /\ Unlogged' = Unlogged
    BY <1>1, <1>3, LogStays DEF PromptInv
  <2>2. ~Submitting(p) \/ faults' # 0
    BY <1>3 DEF Submitting
  <2>. QED
    BY <1>1, <1>2, <1>3, <2>1, <2>2, CountStays
<1>4. CASE Taken(RowOf(p))
  <2>1. PICK row : row = RowOf(p)
    OBVIOUS
  <2>2. /\ row \in Rows /\ row.kind = job[p].kind /\ row.text = job[p].gen /\ Insert(row)
        /\ faults' = faults \/ faults' # 0
    BY <1>1, <1>4, <2>1 DEF Taken
  <2>3. CASE job[p].kind # "prompt"
    <3>1. ~Submitting(p)
      BY <2>3 DEF Submitting
    <3>2. DOMAIN log' = DOMAIN log \cup {row} /\ \A r \in DOMAIN log : r # row => log'[r] = log[r]
      BY <2>2, RowJoins
    <3>3. RowsOnce' /\ TextsSubmitted' /\ Unlogged' = Unlogged
      BY <1>1, <2>2, <2>3, <3>2, RowsStay DEF PromptInv
    <3>. QED
      BY <1>1, <1>2, <2>2, <3>1, <3>3, CountStays
  <2>4. CASE job[p].kind = "prompt"
    <3>1. PICK W : Counted(W)
      BY DEF PromptInv
    <3>2. PICK g : g = job[p].gen
      OBVIOUS
    <3>3. Submitting(p) /\ g > Len(transcript) /\ g \in Unlogged /\ g \notin W
      BY <1>1, <2>4, <3>1, <3>2 DEF Submitting, Counted, PromptAt
    <3>4. RowsOnce' /\ TextsSubmitted' /\ Unlogged' = Unlogged \ {g}
      BY <1>1, <2>2, <2>4, <3>2, <3>3, PromptRowJoins DEF PromptInv
    <3>5. OwnPrompts' /\ Hooked \ {g} \subseteq Hooked'
      BY <1>1, <3>2, HookedStep DEF PromptInv
    <3>6. Balance(W, Unlogged', Len(transcript'), faults', Hooked') /\ W \subseteq 1 .. submitted'
      <4>1. /\ Balance(W, Unlogged, Len(transcript), faults, Hooked) /\ W \subseteq 1 .. submitted
            /\ Unlogged \subseteq 1 .. submitted /\ submitted \in Nat /\ Len(transcript) \in Nat
            /\ faults \in Nat
        BY <3>1 DEF Counted, Unlogged, HooksInv, TypeInv
      <4>2. Balance(W, Unlogged \ {g}, Len(transcript), faults, Hooked')
        BY <3>3, <3>5, <4>1, BalanceLog
      <4>. QED
        BY <1>1, <2>2, <3>4, <4>1, <4>2, BalanceFault
    <3>7. Waiting(W)'
      <4>1. \A q \in Procs : Writes(q)' <=> Writes(q)
        BY <1>1, <1>2 DEF OthersStay, Writes, FileOf, Step
      <4>2. \A q \in Procs \ {p} : mine'[q] = mine[q]
        BY <1>1 DEF OthersStay
      <4>. QED
        BY <1>1, <1>2, <3>1, <4>1, <4>2 DEF Counted, Waiting
    <3>8. ASSUME NEW q \in Procs \ {p}, Submitting(q)
          PROVE  job[q].gen > Len(transcript') /\ job[q].gen \in Unlogged'
      <4>1. job[q].gen # g
        BY <3>2, <3>3, <3>8 DEF PromptInv, OwnPrompts
      <4>. QED
        BY <1>1, <3>1, <3>4, <3>8, <4>1 DEF Counted, PromptAt
    <3>. QED
      BY <1>1, <1>2, <3>1, <3>4, <3>5, <3>6, <3>7, <3>8, CountTo
  <2>. QED
    BY <2>3, <2>4
<1>5. Create(RowOf(p)) \/ Spool(RowOf(p)) \/ Lose \/ Repeat(RowOf(p))
  BY <1>1 DEF Logged
<1>. QED
  BY <1>1, <1>3, <1>4, <1>5, CallsFit

(* As long as no process died, the lock was respected and no flush was     *)
(* misled: no two processes are within a section of one file, a prompt has *)
(* one row at most, in the table or in the spool, and no more prompts wait *)
(* than are unlogged, exactly as many when no row failed, those waiting    *)
(* counted that a flush is writing back.                                   *)
THEOREM CountInvariant == Spec => []CountInv
<1>1. Init => CountInv
  BY InitCounts
<1>2. HooksInv /\ CountInv /\ [Next]_vars => CountInv'
  <2>. SUFFICES ASSUME HooksInv, CountInv, [Next]_vars, ~overrun', ~misled' PROVE PromptInv'
    BY DEF CountInv
  <2>1. \A p \in Procs : ~Die(p)
    BY DEF Die
  <2>2. \A p \in Procs : Load(p) => Lock(p)
    BY DEF Load, GiveUp
  <2>3. PromptInv
    <3>1. overrun' = overrun /\ (misled => misled')
      <4>1. CASE Tick \/ Transcribe \/ UNCHANGED vars
        BY <4>1 DEF Tick, Transcribe, vars
      <4>2. ASSUME NEW p \in Procs, Event(p) PROVE overrun' = overrun /\ misled' = misled
        BY <4>2, SubmitFits, TurnFits DEF Event
      <4>3. ASSUME NEW p \in Procs, LogPrompt(p) PROVE overrun' = overrun /\ (misled => misled')
        BY <4>3, LogPromptCases DEF Waits, Flushes
      <4>4. ASSUME NEW p \in Procs, Run(p), ~LogPrompt(p)
            PROVE  overrun' = overrun /\ misled' = misled
        BY <2>2, <4>4 DEF Run, Load, Lock, Truncate, Write, Unlock, Log
      <4>. QED
        BY <2>1, <4>1, <4>2, <4>3, <4>4 DEF Next
    <3>. QED
      BY <3>1 DEF CountInv
  <2>4. CASE Tick \/ UNCHANGED vars
    BY <2>3, <2>4, TickCounts
  <2>5. CASE Transcribe
    BY <2>3, <2>5, TranscribeCounts
  <2>6. ASSUME NEW p \in Procs, Event(p) PROVE PromptInv'
    BY <2>3, <2>6, SubmitCounts, TurnCounts DEF Event
  <2>7. ASSUME NEW p \in Procs, Run(p) PROVE PromptInv'
    BY <2>2, <2>3, <2>7, LoadCounts, LogPromptCounts, SaveCounts, UnlockCounts, LogCounts DEF Run
  <2>. QED
    BY <2>1, <2>4, <2>5, <2>6, <2>7 DEF Next
<1>. QED
  BY <1>1, <1>2, HooksInvariant, PTL DEF Spec

(* As long as no process died, the lock was respected and no flush was     *)
(* misled, a prompt gets one row, although its hook and the flushes of     *)
(* later events may write it and any row may be spooled, dropped or fail:  *)
(* a flush logs a text only for an entry that waits, no more prompts wait  *)
(* than are unlogged, so there is one to find, and a row that is dropped   *)
(* with its entry only makes the entries fewer.                            *)
THEOREM LoggedOnce == Spec => []PromptLoggedOnce
<1>1. CountInv => PromptLoggedOnce
  BY DEF CountInv, PromptInv, RowsOnce, PromptLoggedOnce
<1>. QED
  BY <1>1, CountInvariant, PTL

(* While no process died, failed or gave up on a lock, and no flush was    *)
(* misled: between the events as many prompts have no row as wait for one  *)
(* in the cache.                                                           *)
THEOREM Backfilled == Spec => []PromptsBackfilled
<1>1. HooksInv /\ CountInv => PromptsBackfilled
  <2>. DEFINE bare == {t \in 1 .. submitted : PromptRows(t) = {}}
  <2>. HIDE DEF bare
  <2>. SUFFICES ASSUME HooksInv, PromptInv, Quiet, faults = 0
                PROVE  Cardinality(bare) = Cardinality(prompts)
    <3>1. PromptsBackfilled <=>
            ((Quiet /\ faults = 0 /\ ~overrun /\ ~misled) =>
                Cardinality(bare) = Cardinality(prompts))
      BY DEF PromptsBackfilled, bare
    <3>. QED
      BY <3>1 DEF CountInv
  <2>1. PICK W : Counted(W)
    BY DEF PromptInv
  <2>2. Hooked = {} /\ \A p \in Procs : ~Writes(p)
    BY DEF Quiet, Hooked, Submitting, Writes
  <2>3. W = prompts
    BY <2>1, <2>2 DEF Counted, Waiting
  <2>4. PICK m : m = Len(transcript)
    OBVIOUS
  <2>5. PICK U : U = Unlogged
    OBVIOUS
  <2>6. /\ W \subseteq 1 .. submitted /\ U \subseteq 1 .. submitted /\ submitted \in Nat /\ m \in Nat
        /\ Balance(W, U, m, 0, {})
    BY <2>1, <2>2, <2>4, <2>5 DEF Counted, Unlogged, HooksInv, TypeInv
  <2>7. /\ Cardinality(Upto(W, m)) = Cardinality(Upto(U, m))
        /\ \A t \in W : t > m => t \in U
        /\ \A t \in U : t > m => t \in W
    BY <2>6 DEF Balance
  <2>8. W \ Upto(W, m) = U \ Upto(U, m)
    <3>1. \A t : t \in Upto(W, m) <=> t \in W /\ t <= m
      BY DEF Upto
    <3>2. \A t : t \in Upto(U, m) <=> t \in U /\ t <= m
      BY DEF Upto
    <3>3. \A t \in W \cup U : t \in Nat /\ (t > m <=> ~(t <= m))
      BY <2>6
    <3>4. \A t : t \in W \ Upto(W, m) <=> t \in U \ Upto(U, m)
      BY <2>7, <3>1, <3>2, <3>3
    <3>. QED
      BY <3>4
  <2>9. ASSUME NEW S, S \subseteq 1 .. submitted
        PROVE  /\ IsFiniteSet(S \ Upto(S, m)) /\ IsFiniteSet(Upto(S, m))
               /\ Cardinality(S) = Cardinality(Upto(S, m)) + Cardinality(S \ Upto(S, m))
    <3>. DEFINE A == Upto(S, m)
                B == S \ Upto(S, m)
    <3>1. S = A \cup B /\ A \cap B = {} /\ B \in SUBSET (1 .. submitted)
      BY <2>9 DEF Upto
    <3>2. IsFiniteSet(A) /\ Cardinality(A) \in Nat
      BY <2>6, <2>9, UptoFinite
    <3>3. IsFiniteSet(1 .. submitted)
      BY <2>6, FS_Interval
    <3>. HIDE DEF A, B
    <3>4. IsFiniteSet(B)
      BY <3>1, <3>3, FS_Subset
    <3>5. Cardinality(B) \in Nat
      BY <3>4, FS_CardinalityType
    <3>6. Cardinality(A \cup B) = Cardinality(A) + Cardinality(B) - Cardinality(A \cap B)
      BY <3>2, <3>4, FS_Union
    <3>7. Cardinality(A \cap B) = 0
      BY <3>1, FS_EmptySet
    <3>8. Cardinality(S) = Cardinality(A) + Cardinality(B)
      BY <3>1, <3>2, <3>5, <3>6, <3>7
    <3>. QED
      BY <3>2, <3>4, <3>8 DEF A, B
  <2>10. Cardinality(U) = Cardinality(W)
    BY <2>6, <2>7, <2>8, <2>9
  <2>. QED
    BY <2>3, <2>5, <2>10 DEF Unlogged, bare
<1>. QED
  BY <1>1, HooksInvariant, CountInvariant, PTL
==============================================================================

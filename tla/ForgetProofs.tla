---------------------------- MODULE ForgetProofs ----------------------------
(***************************************************************************)
(* Proofs about Forget, for every set of captures and every bound: what    *)
(* was forgotten never comes back, nothing goes on quoting it, one restore *)
(* loses no capture, and the journal offers no archive that is gone.       *)
(*                                                                         *)
(* The argument is about database files.  A file is sound by itself        *)
(* (Sound): what its tombstones name is blank, what its journal offers to  *)
(* undo is gisted, and by one run only.  It is consistent with the world   *)
(* around it (Fits): the registry holds the hash of each of its            *)
(* tombstones, and what it quotes of them raced with the forget.  This is  *)
(* so of the live file, of the one set aside, of every snapshot and of a   *)
(* staged copy.  Only the live file and a staged copy know all that was    *)
(* forgotten; the registry, which no restore replaces, carries that        *)
(* knowledge from one to the other.                                        *)
(***************************************************************************)
EXTENDS Forget, TLAPS, SequenceTheorems

-----------------------------------------------------------------------------
(* Files.                                                                  *)

TombstonesBlank(s) == \A c \in DOMAIN s.rows : c \in s.gone <=> s.rows[c] = Blank

OpsNamed(s) == \A r \in DOMAIN s.runs : s.runs[r].applied \subseteq s.runs[r].subjects \cap DOMAIN s.rows

OffersGisted(s) ==
    \A r \in DOMAIN s.runs : \A c \in s.runs[r].applied :
        s.runs[r].image => s.rows[c].gist = "quote"

OfferedOnce(s) ==
    \A k, r \in DOMAIN s.runs :
        k # r /\ s.runs[k].image /\ s.runs[r].image => s.runs[k].applied \cap s.runs[r].applied = {}

Sound(s) ==
    /\ s \in File
    /\ s.gone \subseteq DOMAIN s.rows /\ s.quoted \subseteq DOMAIN s.rows
    /\ TombstonesBlank(s) /\ OpsNamed(s) /\ OffersGisted(s) /\ OfferedOnce(s)

Fits(s, cs, ms, excused) ==
    /\ DOMAIN s.rows \subseteq cs
    /\ \A c \in s.gone : HashOf[c] \in ms
    /\ s.quoted \cap s.gone \subseteq excused

\* The captures cs are no words in s.
Silent(s, cs) == cs \cap DOMAIN s.rows \subseteq s.gone

\* The four contents of a prompt differ.
LEMMA PromptsDiffer ==
    /\ Warm # Blank /\ Warm.gist = "none" /\ Blank.gist = "forgotten" /\ Warm.words /\ ~Blank.words
    /\ \A b \in BOOLEAN : /\ Gisted(b) \in Prompts /\ Gisted(b) # Blank
                          /\ Gisted(b).gist = "quote" /\ ~Gisted(b).words
    /\ Warm \in Prompts /\ Blank \in Prompts
  BY DEF Warm, Blank, Gisted, Prompts

\* A prompt that still has its words is untouched.
LEMMA OnlyWarmReads ==
    ASSUME NEW p \in Prompts, p.words PROVE p = Warm
  BY DEF Warm, Blank, Gisted, Prompts

\* A table is a function from captures to contents.
LEMMA TableIs ==
    ASSUME NEW t
    PROVE  t \in Tables <=> /\ t = [c \in DOMAIN t |-> t[c]]
                            /\ DOMAIN t \subseteq Captures
                            /\ \A c \in DOMAIN t : t[c] \in Prompts
  <1>1. ASSUME t \in Tables
        PROVE  /\ t = [c \in DOMAIN t |-> t[c]]
               /\ DOMAIN t \subseteq Captures
               /\ \A c \in DOMAIN t : t[c] \in Prompts
    <2>1. PICK D \in SUBSET Captures : t \in [D -> Prompts]
      BY <1>1 DEF Tables
    <2> QED BY <2>1
  <1>2. ASSUME t = [c \in DOMAIN t |-> t[c]], DOMAIN t \subseteq Captures,
               \A c \in DOMAIN t : t[c] \in Prompts
        PROVE  t \in Tables
    <2>1. t \in [DOMAIN t -> Prompts] BY <1>2
    <2> QED BY <1>2, <2>1 DEF Tables
  <1> QED BY <1>1, <1>2

\* A new file is sound.
LEMMA EmptySound == Sound(Empty)
  <1>1. [c \in {} |-> Warm] \in Tables BY TableIs
  <1>2. << >> \in Seq(Runs) OBVIOUS
  <1>3. Empty \in File BY <1>1, <1>2 DEF Empty, File
  <1> QED BY <1>3 DEF Empty, Sound, TombstonesBlank, OpsNamed, OffersGisted, OfferedOnce

\* What a forget leaves of a sound file is sound.
LEMMA PurgedIs ==
    ASSUME NEW s \in File, NEW cs
    PROVE  LET new == (cs \cap DOMAIN s.rows) \ s.gone
               p == Purged(s, cs)
           IN  /\ p \in File
               /\ DOMAIN p.rows = DOMAIN s.rows
               /\ \A c \in DOMAIN s.rows : p.rows[c] = IF c \in new THEN Blank ELSE s.rows[c]
               /\ p.gone = s.gone \cup new
               /\ p.quoted = s.quoted \ new
               /\ p.damage = s.damage
               /\ DOMAIN p.runs = DOMAIN s.runs
               /\ \A r \in DOMAIN s.runs :
                    /\ p.runs[r].subjects = s.runs[r].subjects
                    /\ p.runs[r].applied = s.runs[r].applied
                    /\ p.runs[r].image => s.runs[r].image /\ s.runs[r].subjects \cap new = {}
  <1> DEFINE new == (cs \cap DOMAIN s.rows) \ s.gone
             p == Purged(s, cs)
             table == [c \in DOMAIN s.rows |-> IF c \in new THEN Blank ELSE s.rows[c]]
             runs == Unjournaled(s.runs, new)
  <1>1. s.rows \in Tables /\ s.runs \in Seq(Runs) /\ s.gone \subseteq Captures
        /\ s.quoted \subseteq Captures /\ s.outbox \subseteq Captures
    BY DEF File
  <1>2. DOMAIN s.rows \subseteq Captures BY <1>1, TableIs
  <1>3. table \in Tables /\ DOMAIN table = DOMAIN s.rows
    <2>1. \A c \in DOMAIN s.rows : (IF c \in new THEN Blank ELSE s.rows[c]) \in Prompts
      BY <1>1, TableIs, PromptsDiffer
    <2> QED BY <1>2, <2>1, TableIs
  <1>4. /\ runs \in Seq(Runs) /\ DOMAIN runs = DOMAIN s.runs
        /\ \A r \in DOMAIN s.runs :
             /\ runs[r].subjects = s.runs[r].subjects
             /\ runs[r].applied = s.runs[r].applied
             /\ runs[r].image => s.runs[r].image /\ s.runs[r].subjects \cap new = {}
    <2>1. \A r \in DOMAIN s.runs : s.runs[r] \in Runs BY <1>1, ElementOfSeq
    <2>2. ASSUME NEW r \in DOMAIN s.runs
          PROVE  /\ runs[r] \in Runs
                 /\ runs[r].subjects = s.runs[r].subjects
                 /\ runs[r].applied = s.runs[r].applied
                 /\ runs[r].image => s.runs[r].image /\ s.runs[r].subjects \cap new = {}
      BY <2>1 DEF Unjournaled, Runs
    <2>3. DOMAIN runs = 1..Len(s.runs) /\ Len(s.runs) \in Nat BY <1>1 DEF Unjournaled
    <2>4. runs \in [1..Len(s.runs) -> Runs] BY <1>1, <2>2, <2>3 DEF Unjournaled
    <2>5. DOMAIN s.runs = 1..Len(s.runs) BY <1>1
    <2> HIDE DEF runs
    <2>6. runs \in Seq(Runs)
      <3>1. \E n \in Nat : runs \in [1..n -> Runs] BY <2>3, <2>4
      <3> QED BY <3>1, SeqDef
    <2> QED BY <2>2, <2>3, <2>5, <2>6
  <1>5. p = [s EXCEPT !.rows = table, !.gone = s.gone \cup new, !.quoted = s.quoted \ new,
                      !.runs = runs, !.outbox = s.outbox \cup new]
    BY DEF Purged
  <1>6. new \subseteq Captures BY <1>2
  <1> HIDE DEF runs, table
  <1>7. p \in File BY <1>1, <1>3, <1>4, <1>5, <1>6, ZenonT(60) DEF File
  <1>8. /\ p.rows = table /\ p.gone = s.gone \cup new /\ p.quoted = s.quoted \ new
        /\ p.runs = runs /\ p.damage = s.damage
    BY <1>5 DEF File
  <1>9. \A c \in DOMAIN s.rows : table[c] = IF c \in new THEN Blank ELSE s.rows[c]
    BY DEF table
  <1> HIDE DEF p
  <1>10. /\ DOMAIN p.rows = DOMAIN s.rows
         /\ \A c \in DOMAIN s.rows : p.rows[c] = IF c \in new THEN Blank ELSE s.rows[c]
    BY <1>3, <1>8, <1>9
  <1>11. /\ DOMAIN p.runs = DOMAIN s.runs
         /\ \A r \in DOMAIN s.runs :
              /\ p.runs[r].subjects = s.runs[r].subjects
              /\ p.runs[r].applied = s.runs[r].applied
              /\ p.runs[r].image => s.runs[r].image /\ s.runs[r].subjects \cap new = {}
    BY <1>4, <1>8
  <1> QED BY <1>7, <1>8, <1>10, <1>11 DEF p

\* The transaction of a forget leaves a sound file sound.
LEMMA PurgedSound ==
    ASSUME NEW s, Sound(s), NEW cs
    PROVE  Sound(Purged(s, cs))
  <1> DEFINE new == (cs \cap DOMAIN s.rows) \ s.gone
             p == Purged(s, cs)
  <1>1. s \in File BY DEF Sound
  <1>2. /\ p \in File
        /\ DOMAIN p.rows = DOMAIN s.rows
        /\ \A c \in DOMAIN s.rows : p.rows[c] = IF c \in new THEN Blank ELSE s.rows[c]
        /\ p.gone = s.gone \cup new
        /\ p.quoted = s.quoted \ new
        /\ DOMAIN p.runs = DOMAIN s.runs
        /\ \A r \in DOMAIN s.runs :
             /\ p.runs[r].subjects = s.runs[r].subjects
             /\ p.runs[r].applied = s.runs[r].applied
             /\ p.runs[r].image => s.runs[r].image /\ s.runs[r].subjects \cap new = {}
    BY <1>1, PurgedIs
  <1> HIDE DEF p
  <1>3. TombstonesBlank(p) BY <1>2 DEF TombstonesBlank, Sound
  <1>4. OpsNamed(p) BY <1>2 DEF OpsNamed, Sound
  <1>5. OffersGisted(p) BY <1>2 DEF OffersGisted, OpsNamed, Sound
  <1>6. OfferedOnce(p) BY <1>2 DEF OfferedOnce, Sound
  <1>7. p.gone \subseteq DOMAIN p.rows /\ p.quoted \subseteq DOMAIN p.rows BY <1>2 DEF Sound
  <1> QED BY <1>2, <1>3, <1>4, <1>5, <1>6, <1>7 DEF Sound, p

-----------------------------------------------------------------------------
(* What the other transactions leave of a sound file.                      *)

\* A journal is a sequence of runs.
LEMMA RunsAre ==
    ASSUME NEW q \in Seq(Runs)
    PROVE  /\ DOMAIN q = 1..Len(q) /\ Len(q) \in Nat
           /\ \A r \in DOMAIN q : q[r] \in Runs
  BY ElementOfSeq

\* Writing one run of a journal.
LEMMA RunWritten ==
    ASSUME NEW q \in Seq(Runs), NEW n, NEW x, n \in DOMAIN q => x \in Runs
    PROVE  LET w == [q EXCEPT ![n] = x]
           IN  /\ w \in Seq(Runs) /\ DOMAIN w = DOMAIN q
               /\ \A r \in DOMAIN q : w[r] = IF r = n THEN x ELSE q[r]
  <1> DEFINE w == [q EXCEPT ![n] = x]
  <1>1. DOMAIN w = 1..Len(q) /\ Len(q) \in Nat BY RunsAre
  <1>2. \A r \in DOMAIN q : w[r] = IF r = n THEN x ELSE q[r] OBVIOUS
  <1>3. \A r \in 1..Len(q) : w[r] \in Runs BY <1>2, RunsAre
  <1>4. w \in [1..Len(q) -> Runs] BY <1>1, <1>3
  <1>5. w \in Seq(Runs)
    <2>1. \E n_1 \in Nat : w \in [1..n_1 -> Runs] BY <1>1, <1>4
    <2> HIDE DEF w
    <2> QED BY <2>1, SeqDef
  <1> QED BY <1>2, <1>5

\* A file whose journal is replaced.
LEMMA JournalReplaced ==
    ASSUME NEW s, Sound(s), NEW q \in Seq(Runs)
    PROVE  LET t == [s EXCEPT !.runs = q]
           IN  /\ t \in File
               /\ t.rows = s.rows /\ t.gone = s.gone /\ t.quoted = s.quoted
               /\ t.damage = s.damage /\ t.runs = q
               /\ OpsNamed(t) /\ OffersGisted(t) /\ OfferedOnce(t) => Sound(t)
  BY DEF Sound, File, TombstonesBlank

\* A file whose table is replaced.
LEMMA TableReplaced ==
    ASSUME NEW s, Sound(s), NEW u \in Tables, DOMAIN s.rows \subseteq DOMAIN u,
           \A c \in DOMAIN u : c \in s.gone <=> u[c] = Blank
    PROVE  LET t == [s EXCEPT !.rows = u]
           IN  /\ t \in File
               /\ t.rows = u /\ t.gone = s.gone /\ t.quoted = s.quoted
               /\ t.damage = s.damage /\ t.runs = s.runs
               /\ OpsNamed(t)
               /\ OffersGisted(t) => Sound(t)
  BY DEF Sound, File, TombstonesBlank, OpsNamed, OfferedOnce

\* A captured prompt: nothing that was in the file changes.
LEMMA RecordSound ==
    ASSUME NEW s, Sound(s), NEW c \in Captures, c \notin DOMAIN s.rows,
           NEW u, u = [d \in DOMAIN s.rows \cup {c} |-> IF d = c THEN Warm ELSE s.rows[d]]
    PROVE  LET t == [s EXCEPT !.rows = u]
           IN  /\ Sound(t) /\ DOMAIN t.rows = DOMAIN s.rows \cup {c}
               /\ t.gone = s.gone /\ t.quoted = s.quoted /\ t.damage = s.damage
               /\ \A d \in DOMAIN s.rows : t.rows[d] = s.rows[d]
  <1> DEFINE t == [s EXCEPT !.rows = u]
  <1>1. s.rows \in Tables BY DEF Sound, File
  <1>2. DOMAIN u = DOMAIN s.rows \cup {c} OBVIOUS
  <1>3. \A d \in DOMAIN s.rows : u[d] = s.rows[d] OBVIOUS
  <1>4. u[c] = Warm OBVIOUS
  <1>5. u \in Tables BY <1>1, TableIs, PromptsDiffer
  <1>6. c \notin s.gone BY DEF Sound
  <1>7. \A d \in DOMAIN u : d \in s.gone <=> u[d] = Blank
    BY <1>2, <1>3, <1>4, <1>6, PromptsDiffer DEF Sound, TombstonesBlank
  <1>8. /\ t.rows = u /\ t.gone = s.gone /\ t.quoted = s.quoted
        /\ t.damage = s.damage /\ t.runs = s.runs
        /\ OffersGisted(t) => Sound(t)
    BY <1>2, <1>5, <1>7, TableReplaced
  <1>9. OffersGisted(t)
    <2> HIDE DEF t
    <2> QED BY <1>3, <1>8 DEF OffersGisted, OpsNamed, Sound
  <1> QED BY <1>2, <1>3, <1>8, <1>9 DEF t

\* An operation that still can be undone is about a gisted prompt.
LEMMA CompactSound ==
    ASSUME NEW s, Sound(s), NEW c \in DOMAIN s.rows, s.rows[c].words, NEW b \in BOOLEAN
    PROVE  LET t == [s EXCEPT !.rows[c] = Gisted(b)]
           IN  /\ Sound(t) /\ DOMAIN t.rows = DOMAIN s.rows
               /\ t.gone = s.gone /\ t.quoted = s.quoted /\ t.damage = s.damage
               /\ t.rows[c].gist = "quote"
               /\ \A r \in DOMAIN t.runs : t.runs[r].image => c \notin t.runs[r].applied
  <1> DEFINE u == [s.rows EXCEPT ![c] = Gisted(b)]
             t == [s EXCEPT !.rows = u]
  <1>1. s.rows \in Tables BY DEF Sound, File
  <1>2. s.rows[c] = Warm BY <1>1, TableIs, OnlyWarmReads
  <1>3. DOMAIN u = DOMAIN s.rows OBVIOUS
  <1>4. \A d \in DOMAIN s.rows : u[d] = IF d = c THEN Gisted(b) ELSE s.rows[d] OBVIOUS
  <1>5. u \in Tables BY <1>1, <1>3, <1>4, TableIs, PromptsDiffer
  <1> HIDE DEF u
  <1>6. \A d \in DOMAIN u : d \in s.gone <=> u[d] = Blank
    BY <1>2, <1>3, <1>4, PromptsDiffer DEF Sound, TombstonesBlank
  <1>7. /\ t.rows = u /\ t.gone = s.gone /\ t.quoted = s.quoted
        /\ t.damage = s.damage /\ t.runs = s.runs
        /\ OffersGisted(t) => Sound(t)
    BY <1>3, <1>5, <1>6, TableReplaced
  <1>8. \A r \in DOMAIN s.runs : s.runs[r].image => c \notin s.runs[r].applied
    BY <1>2, PromptsDiffer DEF Sound, OffersGisted
  <1>9. OffersGisted(t)
    <2> HIDE DEF t
    <2> QED BY <1>4, <1>7, <1>8 DEF OffersGisted, OpsNamed, Sound
  <1>10. u[c].gist = "quote" BY <1>4, PromptsDiffer
  <1> QED BY <1>3, <1>7, <1>8, <1>9, <1>10 DEF u

\* A run that is opened offers nothing to undo.
LEMMA RunOpenedSound ==
    ASSUME NEW s, Sound(s)
    PROVE  LET t == [s EXCEPT !.runs = Append(@, NoOps)]
           IN  /\ Sound(t) /\ t.rows = s.rows /\ t.gone = s.gone /\ t.quoted = s.quoted
               /\ t.damage = s.damage
  <1> DEFINE q == Append(s.runs, NoOps)
             t == [s EXCEPT !.runs = q]
  <1>1. s.runs \in Seq(Runs) BY DEF Sound, File
  <1>2. NoOps \in Runs BY DEF NoOps, Runs
  <1>3. /\ q \in Seq(Runs) /\ DOMAIN q = 1..Len(s.runs) + 1
        /\ \A r \in 1..Len(s.runs) : q[r] = s.runs[r]
        /\ q[Len(s.runs) + 1] = NoOps
    BY <1>1, <1>2, AppendProperties
  <1>4. DOMAIN s.runs = 1..Len(s.runs) /\ Len(s.runs) \in Nat BY <1>1
  <1> HIDE DEF q
  <1>5. /\ t.rows = s.rows /\ t.gone = s.gone /\ t.quoted = s.quoted
        /\ t.damage = s.damage /\ t.runs = q
        /\ OpsNamed(t) /\ OffersGisted(t) /\ OfferedOnce(t) => Sound(t)
    BY <1>3, JournalReplaced
  <1> HIDE DEF t
  <1>6. NoOps.applied = {} BY DEF NoOps
  <1>7. \A r \in DOMAIN q : (r \in DOMAIN s.runs /\ q[r] = s.runs[r]) \/ q[r].applied = {}
    BY <1>3, <1>4, <1>6
  <1>8. OpsNamed(t) BY <1>5, <1>7 DEF OpsNamed, Sound
  <1>9. OffersGisted(t) BY <1>5, <1>7 DEF OffersGisted, Sound
  <1>10. OfferedOnce(t) BY <1>5, <1>7 DEF OfferedOnce, Sound
  <1> QED BY <1>5, <1>8, <1>9, <1>10 DEF t, q

\* A journaled compaction is about prompts that no other run offers.
LEMMA JournalSound ==
    ASSUME NEW s, Sound(s), NEW n, NEW op \in SUBSET Captures,
           op \subseteq DOMAIN s.rows, \A c \in op : s.rows[c].gist = "quote",
           \A r \in DOMAIN s.runs : s.runs[r].image => s.runs[r].applied \cap op = {},
           NEW q, q = [s.runs EXCEPT ![n] = Journaled(@, op)]
    PROVE  LET t == [s EXCEPT !.runs = q]
           IN  /\ Sound(t) /\ t.rows = s.rows /\ t.gone = s.gone /\ t.quoted = s.quoted
               /\ t.damage = s.damage
  <1> DEFINE x == Journaled(s.runs[n], op)
             t == [s EXCEPT !.runs = q]
  <1>1. s.runs \in Seq(Runs) BY DEF Sound, File
  <1>2. ASSUME n \in DOMAIN s.runs
        PROVE  /\ x \in Runs /\ x.image = s.runs[n].image
               /\ x.subjects = s.runs[n].subjects \cup (IF x.image THEN op ELSE {})
               /\ x.applied = s.runs[n].applied \cup (IF x.image THEN op ELSE {})
    <2>1. s.runs[n] \in Runs BY <1>1, <1>2, RunsAre
    <2> QED BY <2>1 DEF Runs, Journaled
  <1> HIDE DEF x
  <1>3. /\ q \in Seq(Runs) /\ DOMAIN q = DOMAIN s.runs
        /\ \A r \in DOMAIN q : q[r] = IF r = n THEN x ELSE s.runs[r]
    <2>1. q = [s.runs EXCEPT ![n] = x] BY DEF x
    <2> QED BY <1>1, <1>2, <2>1, RunWritten
  <1>4. /\ t.rows = s.rows /\ t.gone = s.gone /\ t.quoted = s.quoted
        /\ t.damage = s.damage /\ t.runs = q
        /\ OpsNamed(t) /\ OffersGisted(t) /\ OfferedOnce(t) => Sound(t)
    BY <1>3, JournalReplaced
  <1> HIDE DEF t
  <1>5. ASSUME NEW r \in DOMAIN q
        PROVE  /\ q[r].image = s.runs[r].image
               /\ q[r].subjects = s.runs[r].subjects \cup (IF r = n /\ q[r].image THEN op ELSE {})
               /\ q[r].applied = s.runs[r].applied \cup (IF r = n /\ q[r].image THEN op ELSE {})
    BY <1>2, <1>3
  <1>6. OpsNamed(t) BY <1>3, <1>4, <1>5 DEF OpsNamed, Sound
  <1>7. OffersGisted(t) BY <1>3, <1>4, <1>5 DEF OffersGisted, Sound
  <1>8. OfferedOnce(t)
    <2> SUFFICES ASSUME NEW k \in DOMAIN q, NEW r \in DOMAIN q, k # r, q[k].image, q[r].image
                 PROVE  q[k].applied \cap q[r].applied = {}
      BY <1>4 DEF OfferedOnce
    <2>1. s.runs[k].applied \cap s.runs[r].applied = {}
      BY <1>3, <1>5 DEF Sound, OfferedOnce
    <2>2. s.runs[k].applied \cap op = {} /\ s.runs[r].applied \cap op = {} BY <1>3, <1>5
    <2> QED BY <1>5, <2>1, <2>2
  <1>9. Sound(t) /\ t.rows = s.rows /\ t.gone = s.gone /\ t.quoted = s.quoted /\ t.damage = s.damage
    BY <1>4, <1>6, <1>7, <1>8
  <1> QED BY <1>9 DEF t

\* A run that is finished offers what it offered.
LEMMA OutcomeSound ==
    ASSUME NEW s, Sound(s), NEW n
    PROVE  LET t == [s EXCEPT !.runs[n] = [@ EXCEPT !.outcome = "done"]]
           IN  /\ Sound(t) /\ t.rows = s.rows /\ t.gone = s.gone /\ t.quoted = s.quoted
               /\ t.damage = s.damage
  <1> DEFINE x == [s.runs[n] EXCEPT !.outcome = "done"]
             q == [s.runs EXCEPT ![n] = x]
             t == [s EXCEPT !.runs = q]
  <1>1. s.runs \in Seq(Runs) BY DEF Sound, File
  <1>2. ASSUME n \in DOMAIN s.runs
        PROVE  /\ x \in Runs /\ x.image = s.runs[n].image
               /\ x.subjects = s.runs[n].subjects /\ x.applied = s.runs[n].applied
    <2>1. s.runs[n] \in Runs BY <1>1, <1>2, RunsAre
    <2> QED BY <2>1 DEF Runs
  <1> HIDE DEF x
  <1>3. /\ q \in Seq(Runs) /\ DOMAIN q = DOMAIN s.runs
        /\ \A r \in DOMAIN q : q[r] = IF r = n THEN x ELSE s.runs[r]
    BY <1>1, <1>2, RunWritten
  <1> HIDE DEF q
  <1>4. /\ t.rows = s.rows /\ t.gone = s.gone /\ t.quoted = s.quoted
        /\ t.damage = s.damage /\ t.runs = q
        /\ OpsNamed(t) /\ OffersGisted(t) /\ OfferedOnce(t) => Sound(t)
    BY <1>3, JournalReplaced
  <1> HIDE DEF t
  <1>5. ASSUME NEW r \in DOMAIN q
        PROVE  /\ q[r].image = s.runs[r].image /\ q[r].subjects = s.runs[r].subjects
               /\ q[r].applied = s.runs[r].applied
    BY <1>2, <1>3
  <1>6. OpsNamed(t) BY <1>3, <1>4, <1>5 DEF OpsNamed, Sound
  <1>7. OffersGisted(t) BY <1>3, <1>4, <1>5 DEF OffersGisted, Sound
  <1>8. OfferedOnce(t) BY <1>3, <1>4, <1>5 DEF OfferedOnce, Sound
  <1>9. Sound(t) /\ t.rows = s.rows /\ t.gone = s.gone /\ t.quoted = s.quoted /\ t.damage = s.damage
    BY <1>4, <1>6, <1>7, <1>8
  <1>10. t = [s EXCEPT !.runs[n] = [@ EXCEPT !.outcome = "done"]]
    BY DEF t, q, x
  <1> QED BY <1>9, <1>10

\* Undoing a compaction run warms up what no other run offers.
LEMMA RevertSound ==
    ASSUME NEW s, Sound(s), NEW r \in DOMAIN s.runs, s.runs[r].image,
           \A c \in s.runs[r].applied : c \notin s.gone
    PROVE  LET t == [s EXCEPT !.rows = [c \in DOMAIN @ |-> IF c \in s.runs[r].applied THEN Warm ELSE @[c]],
                              !.runs[r] = [@ EXCEPT !.applied = {}, !.outcome = "reverted"]]
           IN  /\ Sound(t) /\ DOMAIN t.rows = DOMAIN s.rows
               /\ t.gone = s.gone /\ t.quoted = s.quoted /\ t.damage = s.damage
  <1> DEFINE x == [s.runs[r] EXCEPT !.applied = {}, !.outcome = "reverted"]
             q == [s.runs EXCEPT ![r] = x]
             v == [s EXCEPT !.runs = q]
             u == [c \in DOMAIN s.rows |-> IF c \in s.runs[r].applied THEN Warm ELSE s.rows[c]]
             t == [v EXCEPT !.rows = u]
  <1>1. s.runs \in Seq(Runs) /\ s.rows \in Tables BY DEF Sound, File
  <1>2. x \in Runs /\ x.image /\ x.subjects = s.runs[r].subjects /\ x.applied = {}
    <2>1. s.runs[r] \in Runs BY <1>1, RunsAre
    <2> QED BY <2>1 DEF Runs
  <1> HIDE DEF x
  <1>3. /\ q \in Seq(Runs) /\ DOMAIN q = DOMAIN s.runs
        /\ \A k \in DOMAIN q : q[k] = IF k = r THEN x ELSE s.runs[k]
    BY <1>1, <1>2, RunWritten
  <1> HIDE DEF q
  <1>4. /\ v.rows = s.rows /\ v.gone = s.gone /\ v.quoted = s.quoted
        /\ v.damage = s.damage /\ v.runs = q
        /\ OpsNamed(v) /\ OffersGisted(v) /\ OfferedOnce(v) => Sound(v)
    BY <1>3, JournalReplaced
  <1> HIDE DEF v
  <1>5. Sound(v)
    <2>1. OpsNamed(v) BY <1>2, <1>3, <1>4 DEF OpsNamed, Sound
    <2>2. OffersGisted(v) BY <1>2, <1>3, <1>4 DEF OffersGisted, Sound
    <2>3. OfferedOnce(v) BY <1>2, <1>3, <1>4 DEF OfferedOnce, Sound
    <2> QED BY <1>4, <2>1, <2>2, <2>3
  <1>6. DOMAIN u = DOMAIN s.rows
        /\ \A c \in DOMAIN s.rows : u[c] = IF c \in s.runs[r].applied THEN Warm ELSE s.rows[c]
    OBVIOUS
  <1>7. u \in Tables BY <1>1, <1>6, TableIs, PromptsDiffer
  <1> HIDE DEF u
  <1>8. \A c \in DOMAIN u : c \in v.gone <=> u[c] = Blank
    BY <1>4, <1>6, PromptsDiffer DEF Sound, TombstonesBlank
  <1>9. /\ t.rows = u /\ t.gone = v.gone /\ t.quoted = v.quoted
        /\ t.damage = v.damage /\ t.runs = v.runs
        /\ OffersGisted(t) => Sound(t)
    BY <1>4, <1>5, <1>6, <1>7, <1>8, TableReplaced
  <1>10. OffersGisted(t)
    <2> HIDE DEF t
    <2> SUFFICES ASSUME NEW k \in DOMAIN q, q[k].image, NEW c \in q[k].applied
                 PROVE  u[c].gist = "quote"
      BY <1>4, <1>9 DEF OffersGisted
    <2>1. k # r /\ q[k] = s.runs[k] BY <1>2, <1>3
    <2>2. c \notin s.runs[r].applied BY <1>3, <2>1 DEF Sound, OfferedOnce
    <2>3. c \in DOMAIN s.rows /\ s.rows[c].gist = "quote"
      BY <1>3, <2>1 DEF Sound, OpsNamed, OffersGisted
    <2> QED BY <1>6, <2>2, <2>3
  <1>11. Sound(t) /\ DOMAIN t.rows = DOMAIN s.rows
         /\ t.gone = s.gone /\ t.quoted = s.quoted /\ t.damage = s.damage
    BY <1>4, <1>6, <1>9, <1>10
  <1>12. t = [s EXCEPT !.rows = u, !.runs = q]
    BY DEF v, t, Sound, File
  <1> QED BY <1>11, <1>12 DEF u, q, x

\* Derived text that quotes a capture of the file.
LEMMA QuoteSound ==
    ASSUME NEW s, Sound(s), NEW c \in DOMAIN s.rows
    PROVE  LET t == [s EXCEPT !.quoted = @ \cup {c}]
           IN  /\ Sound(t) /\ t.rows = s.rows /\ t.gone = s.gone /\ t.quoted = s.quoted \cup {c}
               /\ t.damage = s.damage
  <1>1. c \in Captures BY TableIs DEF Sound, File
  <1> QED BY <1>1 DEF Sound, File, TombstonesBlank, OpsNamed, OffersGisted, OfferedOnce

\* An entry leaves the outbox.
LEMMA RedactSound ==
    ASSUME NEW s, Sound(s), NEW c
    PROVE  LET t == [s EXCEPT !.outbox = @ \ {c}]
           IN  /\ Sound(t) /\ t.rows = s.rows /\ t.gone = s.gone /\ t.quoted = s.quoted
               /\ t.damage = s.damage
  BY DEF Sound, File, TombstonesBlank, OpsNamed, OffersGisted, OfferedOnce

\* Damage does not touch the contents as the model knows them.
LEMMA DamageSound ==
    ASSUME NEW s, Sound(s), NEW d \in {"none", "chain", "file"}
    PROVE  LET t == [s EXCEPT !.damage = d]
           IN  Sound(t) /\ t.rows = s.rows /\ t.gone = s.gone /\ t.quoted = s.quoted
  BY DEF Sound, File, TombstonesBlank, OpsNamed, OffersGisted, OfferedOnce

-----------------------------------------------------------------------------
(* The inductive invariant.                                                *)

Fine(s, cs, ms, excused) == s # Missing => Sound(s) /\ Fits(s, cs, ms, excused)

FilesFine ==
    /\ Fine(live, known, marks, raced) /\ Fine(bad, known, marks, raced)
    /\ Fine(restore.from, known, marks, raced)
    /\ \A i \in DOMAIN snaps : Fine(snaps[i], known, marks, raced)

\* The registry knows what was forgotten, and so does the live file.
Remembers ==
    /\ \A c \in forgotten : HashOf[c] \in marks
    /\ live # Missing => Silent(live, forgotten)

\* A restore carries that knowledge over.
RestoreKnows ==
    /\ restore.pc # "idle" => restore.from # Missing
    /\ restore.pc = "read" => \A c \in forgotten : HashOf[c] \in restore.hashes
    /\ restore.hashes \subseteq marks
    /\ restore.pc \in {"staged", "aside"} => Silent(restore.from, forgotten)
    /\ restore.pc = "aside" => live = Missing /\ count.asides # 0

\* What a compaction has still to journal is gisted, and no other run's.
KeeperFine ==
    keeper.pc = "journal" =>
        /\ keeper.op \subseteq DOMAIN live.rows
        /\ \A c \in keeper.op : live.rows[c].gist = "quote"
        /\ \A r \in DOMAIN live.runs : live.runs[r].image => live.runs[r].applied \cap keeper.op = {}

\* What the organizer may still write was not forgotten, races excepted.
OrganizerFine ==
    /\ organizer.pc # "idle" => organizer.read \subseteq DOMAIN live.rows
    /\ organizer.pc = "read" \/ (organizer.pc = "open" /\ ~organizer.marked)
          => organizer.read \cap live.gone \subseteq raced

NobodyHome == ~up => keeper = NoKeeper /\ organizer = NoOrganizer /\ ~backup

Present(c, s) == s # Missing /\ c \in DOMAIN s.rows
NoneLost ==
    /\ count.asides = 0 => \A c \in known : Present(c, live)
    /\ count.asides = 0 => live # Missing
    /\ count.asides = 1 => \A c \in known : Present(c, live) \/ Present(c, bad)

SnapshotFresh == backup => snaps # << >> /\ (Verifies(live) => Verifies(snaps[1]))

Inv == /\ TypeOK /\ FilesFine /\ Remembers /\ RestoreKnows
       /\ KeeperFine /\ OrganizerFine /\ NobodyHome /\ NoneLost /\ SnapshotFresh

\* What fits a world fits one that knows more.
LEMMA FineGrows ==
    ASSUME NEW s, NEW cs, NEW ms, NEW ex, Fine(s, cs, ms, ex), NEW cs2, NEW ms2, NEW ex2,
           cs \subseteq cs2, ms \subseteq ms2, ex \subseteq ex2
    PROVE  Fine(s, cs2, ms2, ex2)
  BY DEF Fine, Fits

\* A first start, with an empty file and no registry.
LEMMA InvInit == Init => Inv
  <1> SUFFICES ASSUME Init PROVE Inv OBVIOUS
  <1> USE DEF Init
  <1>1. Sound(Empty) /\ Empty \in File /\ Empty # Missing BY EmptySound, ForgetAssumptions DEF Sound
  <1>2. TypeOK
    <2>1. snaps \in Seq(File) OBVIOUS
    <2>2. /\ keeper \in [pc : {"idle", "gisting", "journal"}, read : SUBSET Captures, op : SUBSET Captures]
          /\ organizer \in [pc : {"idle", "read", "open"}, read : SUBSET Captures, marked : BOOLEAN]
      BY DEF NoKeeper, NoOrganizer
    <2>3. restore \in [pc : {"idle", "read", "staged", "aside"}, from : File \cup {Missing},
                       hashes : SUBSET Hashes]
          /\ restore.pc = "idle"
      BY DEF NoRestore
    <2>4. count \in [asides : Nat, crashes : Nat, reads : Nat, damages : Nat] OBVIOUS
    <2> QED BY <1>1, <2>1, <2>2, <2>3, <2>4 DEF TypeOK
  <1>3. DOMAIN Empty.rows = {} /\ Empty.gone = {} /\ Empty.quoted = {} BY DEF Empty
  <1>4. FilesFine
    <2>1. Fine(Empty, {}, {}, {}) BY <1>1, <1>3 DEF Fine, Fits
    <2>2. Fine(Missing, {}, {}, {}) BY DEF Fine
    <2> QED BY <2>1, <2>2 DEF FilesFine, NoRestore
  <1>5. Remembers BY <1>3 DEF Remembers, Silent
  <1>6. RestoreKnows BY DEF RestoreKnows, NoRestore
  <1>7. KeeperFine /\ OrganizerFine /\ NobodyHome
    BY DEF KeeperFine, OrganizerFine, NobodyHome, NoKeeper, NoOrganizer
  <1>8. NoneLost /\ SnapshotFresh BY <1>1 DEF NoneLost, SnapshotFresh
  <1> QED BY <1>2, <1>4, <1>5, <1>6, <1>7, <1>8 DEF Inv

-----------------------------------------------------------------------------
(* A transaction that records and forgets nothing.                         *)

\* What is to be shown of such a transaction.
LEMMA TransactionKeeps ==
    ASSUME Inv, up,
           Sound(live'), DOMAIN live'.rows = DOMAIN live.rows, live'.gone = live.gone,
           live'.quoted \cap live.gone \subseteq raced, live'.damage = live.damage,
           UNCHANGED <<files, registry, up, backup, restore, known, forgotten, raced, bound>>,
           keeper' \in [pc : {"idle", "gisting", "journal"}, read : SUBSET Captures, op : SUBSET Captures],
           organizer' \in [pc : {"idle", "read", "open"}, read : SUBSET Captures, marked : BOOLEAN],
           count' \in [asides : Nat, crashes : Nat, reads : Nat, damages : Nat],
           count'.asides = count.asides,
           KeeperFine', OrganizerFine'
    PROVE  Inv'
  <1> USE DEF Inv, files, registry
  <1>1. live # Missing /\ restore.pc = "idle" BY DEF TypeOK
  <1>2. live' \in File /\ live' # Missing BY ForgetAssumptions DEF Sound
  <1>3. TypeOK' BY <1>2 DEF TypeOK
  <1>4. FilesFine'
    <2>1. Fine(live', known, marks, raced) BY <1>1 DEF FilesFine, Fine, Fits
    <2> QED BY <2>1 DEF FilesFine
  <1>5. Remembers' BY <1>1 DEF Remembers, Silent
  <1>6. RestoreKnows' BY <1>1 DEF RestoreKnows
  <1>7. NobodyHome' BY DEF NobodyHome
  <1>8. NoneLost' BY <1>1, <1>2 DEF NoneLost, Present
  <1>9. SnapshotFresh' BY <1>1, <1>2 DEF SnapshotFresh, Verifies
  <1> QED BY <1>3, <1>4, <1>5, <1>6, <1>7, <1>8, <1>9

\* The live file of a process that works.
LEMMA WorksOn ==
    ASSUME Inv, up
    PROVE  /\ live # Missing /\ restore.pc = "idle" /\ Sound(live)
           /\ DOMAIN live.rows \subseteq known /\ known \subseteq Captures
           /\ live.quoted \cap live.gone \subseteq raced
           /\ \A c \in live.gone : HashOf[c] \in marks
  BY DEF Inv, TypeOK, FilesFine, Fine, Fits

\* KeeperRead opens a run and changes no row.
LEMMA KeeperReadKeeps == Inv /\ KeeperRead => Inv'
  <1> SUFFICES ASSUME Inv, KeeperRead PROVE Inv' OBVIOUS
  <1> USE DEF KeeperRead, Working
  <1>1. Sound(live) /\ live.quoted \cap live.gone \subseteq raced BY WorksOn
  <1>2. Sound(live') /\ live'.rows = live.rows /\ live'.gone = live.gone
        /\ live'.quoted = live.quoted /\ live'.damage = live.damage
    BY <1>1, RunOpenedSound
  <1>3. /\ keeper' \in [pc : {"idle", "gisting", "journal"}, read : SUBSET Captures, op : SUBSET Captures]
        /\ keeper'.pc # "journal"
    <2>1. Readable \subseteq Captures BY <1>1, TableIs DEF Readable, Sound, File
    <2> QED BY <2>1
  <1>4. KeeperFine' BY <1>3 DEF KeeperFine
  <1>5. OrganizerFine' BY <1>2 DEF Inv, OrganizerFine, history
  <1>6. /\ organizer' \in [pc : {"idle", "read", "open"}, read : SUBSET Captures, marked : BOOLEAN]
        /\ count' \in [asides : Nat, crashes : Nat, reads : Nat, damages : Nat]
        /\ count'.asides = count.asides
    BY DEF Inv, TypeOK, history
  <1> QED BY <1>1, <1>2, <1>3, <1>4, <1>5, <1>6, TransactionKeeps DEF history

\* Compact gists a warm row, which no run offers yet.
LEMMA CompactKeeps == ASSUME NEW c \in Captures PROVE Inv /\ Compact(c) => Inv'
  <1> SUFFICES ASSUME Inv, Compact(c) PROVE Inv' OBVIOUS
  <1> USE DEF Compact, Working
  <1>1. Sound(live) /\ live.quoted \cap live.gone \subseteq raced BY WorksOn
  <1>2. /\ keeper \in [pc : {"idle", "gisting", "journal"}, read : SUBSET Captures, op : SUBSET Captures]
        /\ organizer' \in [pc : {"idle", "read", "open"}, read : SUBSET Captures, marked : BOOLEAN]
        /\ count' \in [asides : Nat, crashes : Nat, reads : Nat, damages : Nat]
        /\ count'.asides = count.asides
    BY DEF Inv, TypeOK, history
  <1>3. CASE live' = live /\ keeper' = [keeper EXCEPT !.read = @ \ {c}]
    <2>1. /\ keeper' \in [pc : {"idle", "gisting", "journal"}, read : SUBSET Captures, op : SUBSET Captures]
          /\ keeper'.pc # "journal"
      BY <1>2, <1>3
    <2>2. KeeperFine' BY <2>1 DEF KeeperFine
    <2>3. OrganizerFine' BY <1>3 DEF Inv, OrganizerFine, history
    <2> QED BY <1>1, <1>2, <1>3, <2>1, <2>2, <2>3, TransactionKeeps DEF history
  <1>4. ASSUME c \in Readable \ live.gone, NEW archived \in BOOLEAN,
               live' = [live EXCEPT !.rows[c] = Gisted(archived)],
               keeper' = [pc |-> "journal", read |-> keeper.read \ {c}, op |-> {c}]
        PROVE  Inv'
    <2>1. c \in DOMAIN live.rows /\ live.rows[c].words BY <1>4 DEF Readable
    <2>2. /\ Sound(live') /\ DOMAIN live'.rows = DOMAIN live.rows
          /\ live'.gone = live.gone /\ live'.quoted = live.quoted /\ live'.damage = live.damage
          /\ live'.rows[c].gist = "quote"
          /\ \A r \in DOMAIN live'.runs : live'.runs[r].image => c \notin live'.runs[r].applied
      BY <1>1, <1>4, <2>1, CompactSound
    <2>3. keeper' \in [pc : {"idle", "gisting", "journal"}, read : SUBSET Captures, op : SUBSET Captures]
      BY <1>2, <1>4
    <2>4. KeeperFine' BY <1>4, <2>1, <2>2 DEF KeeperFine
    <2>5. OrganizerFine' BY <2>2 DEF Inv, OrganizerFine, history
    <2> QED BY <1>1, <1>2, <2>2, <2>3, <2>4, <2>5, TransactionKeeps DEF history
  <1> QED BY <1>3, <1>4

\* JournalCompaction offers the gist it made, and the lock kept others off.
LEMMA JournalCompactionKeeps == Inv /\ JournalCompaction => Inv'
  <1> SUFFICES ASSUME Inv, JournalCompaction PROVE Inv' OBVIOUS
  <1> USE DEF JournalCompaction
  <1>1. Sound(live) /\ live.quoted \cap live.gone \subseteq raced BY WorksOn
  <1>2. /\ keeper \in [pc : {"idle", "gisting", "journal"}, read : SUBSET Captures, op : SUBSET Captures]
        /\ organizer' \in [pc : {"idle", "read", "open"}, read : SUBSET Captures, marked : BOOLEAN]
        /\ count' \in [asides : Nat, crashes : Nat, reads : Nat, damages : Nat]
        /\ count'.asides = count.asides
    BY DEF Inv, TypeOK, history
  <1>3. /\ keeper.op \subseteq DOMAIN live.rows
        /\ \A c \in keeper.op : live.rows[c].gist = "quote"
        /\ \A r \in DOMAIN live.runs : live.runs[r].image => live.runs[r].applied \cap keeper.op = {}
    BY DEF Inv, KeeperFine
  <1>4. keeper.op \subseteq Captures BY <1>2
  <1>5. Sound(live') /\ live'.rows = live.rows /\ live'.gone = live.gone
        /\ live'.quoted = live.quoted /\ live'.damage = live.damage
    <2> DEFINE n == Len(live.runs)
               op == keeper.op
               q == [live.runs EXCEPT ![n] = Journaled(@, op)]
    <2>1. live' = [live EXCEPT !.runs = q] OBVIOUS
    <2>2. op \in SUBSET Captures BY <1>4
    <2>3. /\ op \subseteq DOMAIN live.rows /\ \A c \in op : live.rows[c].gist = "quote"
          /\ \A r \in DOMAIN live.runs : live.runs[r].image => live.runs[r].applied \cap op = {}
      BY <1>3
    <2> HIDE DEF n, op
    <2>4. q = [live.runs EXCEPT ![n] = Journaled(@, op)] OBVIOUS
    <2> HIDE DEF q, JournalCompaction
    <2>5. Sound([live EXCEPT !.runs = q])
      BY <1>1, <2>2, <2>3, <2>4, JournalSound
    <2>6. live'.rows = live.rows /\ live'.gone = live.gone
          /\ live'.quoted = live.quoted /\ live'.damage = live.damage
      BY <1>1, <2>1 DEF Sound, File
    <2> QED BY <2>1, <2>5, <2>6
  <1>6. /\ keeper' \in [pc : {"idle", "gisting", "journal"}, read : SUBSET Captures, op : SUBSET Captures]
        /\ keeper'.pc # "journal"
    BY <1>2
  <1>7. KeeperFine' BY <1>6 DEF KeeperFine
  <1>8. OrganizerFine' BY <1>5 DEF Inv, OrganizerFine, history
  <1> QED BY <1>1, <1>2, <1>5, <1>6, <1>7, <1>8, TransactionKeeps DEF history

\* KeeperFinish closes the run.
LEMMA KeeperFinishKeeps == Inv /\ KeeperFinish => Inv'
  <1> SUFFICES ASSUME Inv, KeeperFinish PROVE Inv' OBVIOUS
  <1> USE DEF KeeperFinish, Working
  <1>1. Sound(live) /\ live.quoted \cap live.gone \subseteq raced BY WorksOn
  <1>2. Sound(live') /\ live'.rows = live.rows /\ live'.gone = live.gone
        /\ live'.quoted = live.quoted /\ live'.damage = live.damage
    BY <1>1, OutcomeSound
  <1>3. /\ keeper' \in [pc : {"idle", "gisting", "journal"}, read : SUBSET Captures, op : SUBSET Captures]
        /\ keeper'.pc # "journal"
    BY DEF NoKeeper
  <1>4. KeeperFine' BY <1>3 DEF KeeperFine
  <1>5. OrganizerFine' BY <1>2 DEF Inv, OrganizerFine, history
  <1>6. /\ organizer' \in [pc : {"idle", "read", "open"}, read : SUBSET Captures, marked : BOOLEAN]
        /\ count' \in [asides : Nat, crashes : Nat, reads : Nat, damages : Nat]
        /\ count'.asides = count.asides
    BY DEF Inv, TypeOK, history
  <1> QED BY <1>1, <1>2, <1>3, <1>4, <1>5, <1>6, TransactionKeeps DEF history

\* RevertCompaction warms up rows that have no tombstone.
LEMMA RevertKeeps == ASSUME NEW r PROVE Inv /\ RevertCompaction(r) => Inv'
  <1> SUFFICES ASSUME Inv, RevertCompaction(r) PROVE Inv' OBVIOUS
  <1> USE DEF RevertCompaction, Working
  <1>1. Sound(live) /\ live.quoted \cap live.gone \subseteq raced BY WorksOn
  <1>2. live.runs[r].image /\ \A c \in live.runs[r].applied : c \notin live.gone
    BY DEF Revertable, Recoverable
  <1>3. Sound(live') /\ DOMAIN live'.rows = DOMAIN live.rows /\ live'.gone = live.gone
        /\ live'.quoted = live.quoted /\ live'.damage = live.damage
    BY <1>1, <1>2, RevertSound
  <1>4. keeper'.pc # "journal" BY DEF passes
  <1>5. KeeperFine' BY <1>4 DEF KeeperFine
  <1>6. OrganizerFine' BY <1>3 DEF Inv, OrganizerFine, history, passes
  <1>7. /\ keeper' \in [pc : {"idle", "gisting", "journal"}, read : SUBSET Captures, op : SUBSET Captures]
        /\ organizer' \in [pc : {"idle", "read", "open"}, read : SUBSET Captures, marked : BOOLEAN]
        /\ count' \in [asides : Nat, crashes : Nat, reads : Nat, damages : Nat]
        /\ count'.asides = count.asides
    BY DEF Inv, TypeOK, history, passes
  <1> QED BY <1>1, <1>3, <1>5, <1>6, <1>7, TransactionKeeps DEF history

\* Redact only empties the outbox.
LEMMA RedactKeeps == ASSUME NEW c PROVE Inv /\ Redact(c) => Inv'
  <1> SUFFICES ASSUME Inv, Redact(c) PROVE Inv' OBVIOUS
  <1> USE DEF Redact, Working
  <1>1. Sound(live) /\ live.quoted \cap live.gone \subseteq raced BY WorksOn
  <1>2. Sound(live') /\ live'.rows = live.rows /\ live'.gone = live.gone
        /\ live'.quoted = live.quoted /\ live'.damage = live.damage
    BY <1>1, RedactSound
  <1>3. KeeperFine' BY DEF KeeperFine, passes
  <1>4. OrganizerFine' BY <1>2 DEF Inv, OrganizerFine, history, passes
  <1>5. /\ keeper' \in [pc : {"idle", "gisting", "journal"}, read : SUBSET Captures, op : SUBSET Captures]
        /\ organizer' \in [pc : {"idle", "read", "open"}, read : SUBSET Captures, marked : BOOLEAN]
        /\ count' \in [asides : Nat, crashes : Nat, reads : Nat, damages : Nat]
        /\ count'.asides = count.asides
    BY DEF Inv, TypeOK, history, passes
  <1> QED BY <1>1, <1>2, <1>3, <1>4, <1>5, TransactionKeeps DEF history

\* OrganizerRead sees warm rows, and none of them has a tombstone.
LEMMA OrganizerReadKeeps == Inv /\ OrganizerRead => Inv'
  <1> SUFFICES ASSUME Inv, OrganizerRead PROVE Inv' OBVIOUS
  <1> USE DEF OrganizerRead, Working
  <1>1. Sound(live) /\ live.quoted \cap live.gone \subseteq raced BY WorksOn
  <1>2. Readable \subseteq DOMAIN live.rows /\ DOMAIN live.rows \subseteq Captures
    BY <1>1, TableIs DEF Readable, Sound, File
  <1>3. Readable \cap live.gone = {}
    BY <1>1, PromptsDiffer DEF Readable, Sound, TombstonesBlank
  <1>4. KeeperFine' BY DEF Inv, KeeperFine
  <1>5. OrganizerFine' BY <1>2, <1>3 DEF OrganizerFine
  <1>6. /\ keeper' \in [pc : {"idle", "gisting", "journal"}, read : SUBSET Captures, op : SUBSET Captures]
        /\ count' \in [asides : Nat, crashes : Nat, reads : Nat, damages : Nat]
        /\ count'.asides = count.asides
    BY SMTT(30) DEF Inv, TypeOK
  <1>7. organizer' \in [pc : {"idle", "read", "open"}, read : SUBSET Captures, marked : BOOLEAN]
    <2>1. organizer' = [pc |-> "read", read |-> Readable, marked |-> FALSE] OBVIOUS
    <2>2. Readable \in SUBSET Captures BY <1>2
    <2> QED BY <2>1, <2>2
  <1> QED BY <1>1, <1>4, <1>5, <1>6, <1>7, TransactionKeeps

\* OrganizerOpens changes no file; races before it are on record.
LEMMA OrganizerOpensKeeps == Inv /\ OrganizerOpens => Inv'
  <1> SUFFICES ASSUME Inv, OrganizerOpens PROVE Inv' OBVIOUS
  <1> USE DEF OrganizerOpens, Working
  <1>1. Sound(live) /\ live.quoted \cap live.gone \subseteq raced BY WorksOn
  <1>2. /\ keeper' \in [pc : {"idle", "gisting", "journal"}, read : SUBSET Captures, op : SUBSET Captures]
        /\ organizer \in [pc : {"idle", "read", "open"}, read : SUBSET Captures, marked : BOOLEAN]
        /\ count' \in [asides : Nat, crashes : Nat, reads : Nat, damages : Nat]
        /\ count'.asides = count.asides
    BY DEF Inv, TypeOK, history
  <1>3. /\ organizer' \in [pc : {"idle", "read", "open"}, read : SUBSET Captures, marked : BOOLEAN]
        /\ organizer'.read = organizer.read
    BY <1>2
  <1>4. KeeperFine' BY DEF Inv, KeeperFine
  <1>5. OrganizerFine' BY <1>3 DEF Inv, OrganizerFine, history
  <1> QED BY <1>1, <1>2, <1>3, <1>4, <1>5, TransactionKeeps DEF history

\* OrganizerWrites quotes what was not forgotten, or was while it raced.
LEMMA OrganizerWritesKeeps == Inv /\ OrganizerWrites => Inv'
  <1> SUFFICES ASSUME Inv, OrganizerWrites PROVE Inv' OBVIOUS
  <1> USE DEF OrganizerWrites, Working
  <1>1. Sound(live) /\ live.quoted \cap live.gone \subseteq raced BY WorksOn
  <1>2. PICK c \in organizer.read : live' = [live EXCEPT !.quoted = @ \cup {c}] OBVIOUS
  <1>3. c \in DOMAIN live.rows /\ (c \in live.gone => c \in raced)
    BY DEF Inv, OrganizerFine
  <1>4. Sound(live') /\ live'.rows = live.rows /\ live'.gone = live.gone
        /\ live'.quoted = live.quoted \cup {c} /\ live'.damage = live.damage
    BY <1>1, <1>2, <1>3, QuoteSound
  <1>5. KeeperFine' BY DEF KeeperFine, passes
  <1>6. OrganizerFine' BY <1>4 DEF Inv, OrganizerFine, history, passes
  <1>7. /\ keeper' \in [pc : {"idle", "gisting", "journal"}, read : SUBSET Captures, op : SUBSET Captures]
        /\ organizer' \in [pc : {"idle", "read", "open"}, read : SUBSET Captures, marked : BOOLEAN]
        /\ count' \in [asides : Nat, crashes : Nat, reads : Nat, damages : Nat]
        /\ count'.asides = count.asides
    BY DEF Inv, TypeOK, history, passes
  <1> QED BY <1>1, <1>3, <1>4, <1>5, <1>6, <1>7, TransactionKeeps DEF history

\* OrganizerEnds drops what was read.
LEMMA OrganizerEndsKeeps == Inv /\ OrganizerEnds => Inv'
  <1> SUFFICES ASSUME Inv, OrganizerEnds PROVE Inv' OBVIOUS
  <1> USE DEF OrganizerEnds, Working
  <1>1. Sound(live) /\ live.quoted \cap live.gone \subseteq raced BY WorksOn
  <1>2. /\ keeper' \in [pc : {"idle", "gisting", "journal"}, read : SUBSET Captures, op : SUBSET Captures]
        /\ organizer' \in [pc : {"idle", "read", "open"}, read : SUBSET Captures, marked : BOOLEAN]
        /\ count' \in [asides : Nat, crashes : Nat, reads : Nat, damages : Nat]
        /\ count'.asides = count.asides
    BY DEF Inv, TypeOK, history, NoOrganizer
  <1>3. KeeperFine' BY DEF Inv, KeeperFine
  <1>4. OrganizerFine' BY DEF OrganizerFine, NoOrganizer
  <1> QED BY <1>1, <1>2, <1>3, <1>4, TransactionKeeps DEF history

-----------------------------------------------------------------------------
(* What records or forgets.                                                *)

\* Record adds a row that no file had.
LEMMA RecordKeeps == ASSUME NEW c \in Captures PROVE Inv /\ Record(c) => Inv'
  <1> SUFFICES ASSUME Inv, Record(c) PROVE Inv' OBVIOUS
  <1> USE DEF Record, Working, files, registry, passes
  <1>1. /\ live # Missing /\ restore.pc = "idle" /\ Sound(live)
        /\ DOMAIN live.rows \subseteq known /\ known \subseteq Captures
    BY WorksOn
  <1>2. c \notin known /\ c \notin DOMAIN live.rows BY <1>1
  <1>3. /\ Sound(live') /\ DOMAIN live'.rows = DOMAIN live.rows \cup {c}
        /\ live'.gone = live.gone /\ live'.quoted = live.quoted /\ live'.damage = live.damage
        /\ \A d \in DOMAIN live.rows : live'.rows[d] = live.rows[d]
    <2> DEFINE u == [d \in DOMAIN live.rows \cup {c} |-> IF d = c THEN Warm ELSE live.rows[d]]
    <2>1. live' = [live EXCEPT !.rows = u] OBVIOUS
    <2>2. u = [d \in DOMAIN live.rows \cup {c} |-> IF d = c THEN Warm ELSE live.rows[d]] OBVIOUS
    <2> HIDE DEF u, Record
    <2>3. Sound([live EXCEPT !.rows = u]) BY <1>1, <1>2, <2>2, RecordSound
    <2>4. /\ live'.rows = u /\ live'.gone = live.gone /\ live'.quoted = live.quoted
          /\ live'.damage = live.damage
      BY <1>1, <2>1 DEF Sound, File
    <2> QED BY <1>2, <2>1, <2>2, <2>3, <2>4
  <1>4. live' \in File /\ live' # Missing BY <1>3, ForgetAssumptions DEF Sound
  <1>5. TypeOK' BY <1>4 DEF Inv, TypeOK
  <1>6. FilesFine'
    <2>1. Fine(live', known', marks, raced) BY <1>1, <1>3 DEF Inv, FilesFine, Fine, Fits
    <2>2. Fine(bad, known', marks, raced) BY FineGrows DEF Inv, FilesFine
    <2>3. Fine(restore.from, known', marks, raced) BY FineGrows DEF Inv, FilesFine
    <2>4. \A i \in DOMAIN snaps : Fine(snaps[i], known', marks, raced)
      BY FineGrows DEF Inv, FilesFine
    <2> QED BY <2>1, <2>2, <2>3, <2>4 DEF FilesFine
  <1>7. Remembers'
    <2>1. c \notin forgotten BY <1>2 DEF Inv, TypeOK
    <2> QED BY <1>1, <1>3, <2>1 DEF Inv, Remembers, Silent
  <1>8. RestoreKnows' BY <1>1 DEF Inv, RestoreKnows
  <1>9. KeeperFine' BY DEF KeeperFine
  <1>10. OrganizerFine' BY <1>3 DEF Inv, OrganizerFine
  <1>11. NobodyHome' BY DEF Inv, NobodyHome
  <1>12. NoneLost' BY <1>1, <1>3, <1>4 DEF Inv, NoneLost, Present
  <1>13. SnapshotFresh' BY <1>1, <1>3, <1>4 DEF Inv, SnapshotFresh, Verifies
  <1> QED BY <1>5, <1>6, <1>7, <1>8, <1>9, <1>10, <1>11, <1>12, <1>13 DEF Inv

\* Forget blanks the row, marks its hash, and marks the open run.
LEMMA ForgetKeeps == ASSUME NEW c \in Captures PROVE Inv /\ Forget(c) => Inv'
  <1> SUFFICES ASSUME Inv, Forget(c) PROVE Inv' OBVIOUS
  <1> USE DEF Forget, Forgettable, Working, Marked, files
  <1>1. /\ live # Missing /\ restore.pc = "idle" /\ Sound(live)
        /\ DOMAIN live.rows \subseteq known /\ known \subseteq Captures
        /\ live.quoted \cap live.gone \subseteq raced
        /\ \A d \in live.gone : HashOf[d] \in marks
    BY WorksOn
  <1>2. c \in DOMAIN live.rows /\ c \notin live.gone OBVIOUS
  <1>3. /\ Sound(live') /\ DOMAIN live'.rows = DOMAIN live.rows
        /\ live'.gone = live.gone \cup {c} /\ live'.quoted = live.quoted \ {c}
        /\ live'.damage = live.damage
    <2>1. Sound(live') BY <1>1, PurgedSound
    <2>2. live \in File BY <1>1 DEF Sound
    <2>3. ({c} \cap DOMAIN live.rows) \ live.gone = {c} BY <1>2
    <2> QED BY <2>1, <2>2, <2>3, PurgedIs
  <1>4. live' \in File /\ live' # Missing BY <1>3, ForgetAssumptions DEF Sound
  <1>5. marks' = marks \cup {HashOf[c]} /\ HashOf[c] \in Hashes BY ForgetAssumptions
  <1>6. raced \subseteq raced' /\ raced' \subseteq raced \cup {c}
        /\ (organizer.pc = "read" /\ c \in organizer.read => c \in raced')
    OBVIOUS
  <1>7. /\ organizer \in [pc : {"idle", "read", "open"}, read : SUBSET Captures, marked : BOOLEAN]
        /\ organizer'.pc = organizer.pc /\ organizer'.read = organizer.read
        /\ organizer'.marked = (organizer.marked \/ Caught(c))
        /\ organizer' \in [pc : {"idle", "read", "open"}, read : SUBSET Captures, marked : BOOLEAN]
    BY DEF Inv, TypeOK, Caught
  <1>8. TypeOK'
    <2>1. forgotten' \subseteq known /\ raced' \subseteq forgotten'
      BY <1>1, <1>2, <1>6 DEF Inv, TypeOK
    <2>2. marks' \subseteq Hashes BY <1>5 DEF Inv, TypeOK
    <2> QED BY <1>4, <1>7, <2>1, <2>2 DEF Inv, TypeOK
  <1>9. FilesFine'
    <2>1. Fine(live', known, marks', raced') BY <1>1, <1>3, <1>5, <1>6 DEF Fine, Fits
    <2>2. marks \subseteq marks' BY <1>5
    <2>3. Fine(bad, known, marks', raced') BY <1>6, <2>2, FineGrows DEF Inv, FilesFine
    <2>4. Fine(restore.from, known, marks', raced') BY <1>6, <2>2, FineGrows DEF Inv, FilesFine
    <2>5. \A i \in DOMAIN snaps : Fine(snaps[i], known, marks', raced')
      BY <1>6, <2>2, FineGrows DEF Inv, FilesFine
    <2> QED BY <2>1, <2>3, <2>4, <2>5 DEF FilesFine
  <1>10. Remembers' BY <1>1, <1>3, <1>5 DEF Inv, Remembers, Silent
  <1>11. RestoreKnows' BY <1>1, <1>5 DEF Inv, RestoreKnows
  <1>12. KeeperFine' BY DEF KeeperFine
  <1>13. OrganizerFine' BY <1>3, <1>6, <1>7 DEF Inv, OrganizerFine, Caught
  <1>14. NobodyHome' BY DEF Inv, NobodyHome
  <1>15. NoneLost' BY <1>1, <1>3, <1>4 DEF Inv, NoneLost, Present
  <1>16. SnapshotFresh' BY <1>1, <1>3, <1>4 DEF Inv, SnapshotFresh, Verifies
  <1> QED BY <1>8, <1>9, <1>10, <1>11, <1>12, <1>13, <1>14, <1>15, <1>16 DEF Inv

\* ForgetFails leaves a marker too many, which the registry may hold.
LEMMA ForgetFailsKeeps == ASSUME NEW c \in Captures PROVE Inv /\ ForgetFails(c) => Inv'
  <1> SUFFICES ASSUME Inv, ForgetFails(c) PROVE Inv' OBVIOUS
  <1> USE DEF ForgetFails, Marked, files, passes, history
  <1>1. marks \subseteq marks' /\ marks' \subseteq Hashes
    BY ForgetAssumptions DEF Inv, TypeOK
  <1>2. TypeOK' BY <1>1 DEF Inv, TypeOK
  <1>3. FilesFine'
    <2>1. \A s : Fine(s, known, marks, raced) => Fine(s, known, marks', raced) BY <1>1, FineGrows
    <2> QED BY <2>1 DEF Inv, FilesFine
  <1>4. Remembers' /\ RestoreKnows' BY <1>1 DEF Inv, Remembers, RestoreKnows
  <1>5. KeeperFine' /\ OrganizerFine' /\ NobodyHome' BY DEF Inv, KeeperFine, OrganizerFine, NobodyHome
  <1>6. NoneLost' /\ SnapshotFresh' BY DEF Inv, NoneLost, SnapshotFresh
  <1> QED BY <1>2, <1>3, <1>4, <1>5, <1>6 DEF Inv

-----------------------------------------------------------------------------
(* Crashes, snapshots and starts.                                          *)

\* A process that dies leaves the files as they are, and may have added to
\* the registry or torn a snapshot.
LEMMA DeathKeeps ==
    ASSUME Inv, Dies, UNCHANGED <<live, bad, known, forgotten, raced, bound>>,
           marks \subseteq marks', marks' \subseteq Hashes, torn' \in BOOLEAN,
           snaps' \in Seq(File), \A i \in DOMAIN snaps' : Fine(snaps'[i], known, marks', raced),
           count' \in [asides : Nat, crashes : Nat, reads : Nat, damages : Nat],
           count'.asides = count.asides
    PROVE  Inv'
  <1> USE DEF Dies
  <1>1. /\ keeper' \in [pc : {"idle", "gisting", "journal"}, read : SUBSET Captures, op : SUBSET Captures]
        /\ organizer' \in [pc : {"idle", "read", "open"}, read : SUBSET Captures, marked : BOOLEAN]
        /\ keeper'.pc = "idle" /\ organizer'.pc = "idle"
    BY DEF NoKeeper, NoOrganizer
  <1>2. /\ restore' \in [pc : {"idle", "read", "staged", "aside"}, from : File \cup {Missing},
                         hashes : SUBSET Hashes]
        /\ restore'.pc = "idle" /\ restore'.from = Missing /\ restore'.hashes = {}
    BY DEF NoRestore
  <1>3. TypeOK' BY <1>1, <1>2 DEF Inv, TypeOK
  <1>4. FilesFine'
    <2>1. Fine(live, known, marks', raced) BY FineGrows DEF Inv, FilesFine
    <2>2. Fine(bad, known, marks', raced) BY FineGrows DEF Inv, FilesFine
    <2>3. Fine(Missing, known, marks', raced) BY DEF Fine
    <2> QED BY <1>2, <2>1, <2>2, <2>3 DEF FilesFine
  <1>5. Remembers' BY DEF Inv, Remembers
  <1>6. RestoreKnows' BY <1>2 DEF RestoreKnows
  <1>7. KeeperFine' /\ OrganizerFine' /\ NobodyHome'
    BY <1>1 DEF KeeperFine, OrganizerFine, NobodyHome
  <1>8. NoneLost' /\ SnapshotFresh' BY DEF Inv, NoneLost, SnapshotFresh
  <1> QED BY <1>3, <1>4, <1>5, <1>6, <1>7, <1>8 DEF Inv

\* A death that leaves the snapshots alone.
LEMMA QuietDeathKeeps ==
    ASSUME Inv, Dies, UNCHANGED <<live, bad, snaps, known, forgotten, raced, bound>>,
           marks \subseteq marks', marks' \subseteq Hashes, torn' \in BOOLEAN,
           count' \in [asides : Nat, crashes : Nat, reads : Nat, damages : Nat],
           count'.asides = count.asides
    PROVE  Inv'
  <1>1. snaps' \in Seq(File) BY DEF Inv, TypeOK
  <1>2. \A i \in DOMAIN snaps' : Fine(snaps'[i], known, marks', raced)
    BY FineGrows DEF Inv, FilesFine
  <1> QED BY <1>1, <1>2, DeathKeeps

\* What the counters say of a crash.
LEMMA CrashCounted ==
    ASSUME Inv, Crashes
    PROVE  /\ count' \in [asides : Nat, crashes : Nat, reads : Nat, damages : Nat]
           /\ count'.asides = count.asides
           /\ Dies /\ UNCHANGED <<live, bad, known, forgotten, raced, bound>>
  BY DEF Inv, TypeOK, Crashes

\* The process stops, or dies wherever it may die.
LEMMA DeathsKeep ==
    /\ Inv /\ Stop => Inv'
    /\ Inv /\ Crash => Inv'
    /\ \A c \in Captures : Inv /\ CrashInForget(c) => Inv'
    /\ Inv /\ CrashTearsMarker => Inv'
    /\ Inv /\ CrashTearsSnapshot => Inv'
  <1> USE DEF registry
  <1>1. Inv => torn \in BOOLEAN /\ marks \subseteq Hashes /\ snaps \in Seq(File)
    BY DEF Inv, TypeOK
  <1>2. ASSUME Inv, Stop PROVE Inv'
    <2>1. /\ count' \in [asides : Nat, crashes : Nat, reads : Nat, damages : Nat]
          /\ count'.asides = count.asides
      BY <1>2 DEF Inv, TypeOK, Stop, history
    <2> QED BY <1>1, <1>2, <2>1, QuietDeathKeeps DEF Stop, files, history
  <1>3. ASSUME Inv, Crash PROVE Inv'
    <2>1. Crashes /\ UNCHANGED <<snaps, marks, torn>> BY <1>3 DEF Crash
    <2> QED BY <1>1, <1>3, <2>1, CrashCounted, QuietDeathKeeps
  <1>4. ASSUME NEW c \in Captures, Inv, CrashInForget(c) PROVE Inv'
    <2>1. Crashes /\ UNCHANGED <<snaps, torn>> BY <1>4 DEF CrashInForget
    <2>2. marks \subseteq marks' /\ marks' \subseteq Hashes
      BY <1>1, <1>4, ForgetAssumptions DEF CrashInForget, Marked
    <2> QED BY <1>1, <1>4, <2>1, <2>2, CrashCounted, QuietDeathKeeps
  <1>5. ASSUME Inv, CrashTearsMarker PROVE Inv'
    <2>1. Crashes /\ UNCHANGED <<snaps, marks>> /\ torn' = TRUE BY <1>5 DEF CrashTearsMarker
    <2> QED BY <1>1, <1>5, <2>1, CrashCounted, QuietDeathKeeps
  <1>6. ASSUME Inv, CrashTearsSnapshot PROVE Inv'
    <2> DEFINE t == [Empty EXCEPT !.damage = "file"]
    <2>1. /\ Crashes /\ UNCHANGED <<marks, torn>> /\ snaps' = <<t>> \o snaps
      BY <1>6 DEF CrashTearsSnapshot
    <2>2. Sound(t) /\ t.rows = Empty.rows /\ t.gone = Empty.gone /\ t.quoted = Empty.quoted
      BY EmptySound, DamageSound
    <2>3. t \in File /\ Fine(t, known, marks, raced) BY <2>2 DEF Sound, Fine, Fits, Empty
    <2> HIDE DEF t
    <2>4. /\ snaps' \in Seq(File) /\ DOMAIN snaps' = 1..(1 + Len(snaps))
          /\ snaps'[1] = t /\ \A i \in 2..(1 + Len(snaps)) : snaps'[i] = snaps[i - 1]
      <3>1. <<t>> \in Seq(File) /\ Len(<<t>>) = 1 /\ <<t>>[1] = t BY <2>3
      <3> QED BY <1>1, <1>6, <2>1, <3>1, ConcatProperties
    <2>5. \A i \in DOMAIN snaps' : Fine(snaps'[i], known, marks, raced)
      <3> SUFFICES ASSUME NEW i \in DOMAIN snaps' PROVE Fine(snaps'[i], known, marks, raced) OBVIOUS
      <3>1. CASE i = 1 BY <2>3, <2>4, <3>1
      <3>2. CASE i # 1
        <4>1. Len(snaps) \in Nat /\ DOMAIN snaps = 1..Len(snaps) BY <1>1, <1>6
        <4>2. i - 1 \in DOMAIN snaps /\ snaps'[i] = snaps[i - 1] BY <2>4, <3>2, <4>1
        <4> QED BY <1>6, <4>2 DEF Inv, FilesFine
      <3> QED BY <3>1, <3>2
    <2> QED BY <1>1, <1>6, <2>1, <2>4, <2>5, CrashCounted, DeathKeeps
  <1> QED BY <1>2, <1>3, <1>4, <1>5, <1>6

\* Snapshot copies the live file, which is fine.
LEMMA SnapshotKeeps == Inv /\ Snapshot => Inv'
  <1> SUFFICES ASSUME Inv, Snapshot PROVE Inv' OBVIOUS
  <1> USE DEF Snapshot, registry, passes, history
  <1>1. live # Missing /\ live \in File /\ snaps \in Seq(File) BY DEF Inv, TypeOK
  <1>2. /\ snaps' \in Seq(File) /\ DOMAIN snaps' = 1..(1 + Len(snaps))
        /\ snaps'[1] = live /\ \A i \in 2..(1 + Len(snaps)) : snaps'[i] = snaps[i - 1]
    <2>1. <<live>> \in Seq(File) /\ Len(<<live>>) = 1 /\ <<live>>[1] = live BY <1>1
    <2> QED BY <1>1, <2>1, ConcatProperties
  <1>3. TypeOK' BY <1>2 DEF Inv, TypeOK
  <1>4. FilesFine'
    <2>1. ASSUME NEW i \in DOMAIN snaps' PROVE Fine(snaps'[i], known, marks, raced)
      <3>1. CASE i = 1 BY <1>2, <3>1 DEF Inv, FilesFine
      <3>2. CASE i # 1
        <4>1. Len(snaps) \in Nat /\ DOMAIN snaps = 1..Len(snaps) BY <1>1
        <4>2. i - 1 \in DOMAIN snaps /\ snaps'[i] = snaps[i - 1] BY <1>2, <3>2, <4>1
        <4> QED BY <4>2 DEF Inv, FilesFine
      <3> QED BY <3>1, <3>2
    <2> QED BY <2>1 DEF Inv, FilesFine
  <1>5. Remembers' /\ RestoreKnows' BY DEF Inv, Remembers, RestoreKnows
  <1>6. KeeperFine' /\ OrganizerFine' /\ NobodyHome' BY DEF Inv, KeeperFine, OrganizerFine, NobodyHome
  <1>7. NoneLost' BY DEF Inv, NoneLost
  <1>8. SnapshotFresh'
    <2>1. Len(snaps) \in Nat BY <1>1
    <2>2. 1 \in DOMAIN snaps' BY <1>2, <2>1
    <2> QED BY <1>2, <2>2 DEF SnapshotFresh
  <1> QED BY <1>3, <1>4, <1>5, <1>6, <1>7, <1>8 DEF Inv

\* Pruning keeps a prefix, the newest snapshot included.
LEMMA PrunedIs ==
    ASSUME NEW q \in Seq(File)
    PROVE  /\ Pruned(q) \in Seq(File)
           /\ \A i \in DOMAIN Pruned(q) : i \in DOMAIN q /\ Pruned(q)[i] = q[i]
           /\ q # << >> => Pruned(q) # << >> /\ 1 \in DOMAIN Pruned(q)
  <1> DEFINE n == IF Len(q) < Keep THEN Len(q) ELSE Keep
  <1>1. Len(q) \in Nat /\ Keep \in Nat /\ Keep >= 1 /\ DOMAIN q = 1..Len(q) BY ForgetAssumptions
  <1>2. n \in Nat /\ n <= Len(q) BY <1>1
  <1>3. /\ Pruned(q) \in Seq(File) /\ Len(Pruned(q)) = n /\ DOMAIN Pruned(q) = 1..n
        /\ \A i \in 1..n : Pruned(q)[i] = q[i]
    <2>1. Pruned(q) = SubSeq(q, 1, n) BY DEF Pruned
    <2>2. \A i \in 1..n : q[i] \in File BY <1>1, <1>2, ElementOfSeq
    <2> HIDE DEF n
    <2> QED BY <1>1, <1>2, <2>1, <2>2, SubSeqProperties
  <1>4. q # << >> => n >= 1
    <2>1. q # << >> => Len(q) # 0 BY EmptySeq
    <2> QED BY <1>1, <2>1
  <1> HIDE DEF n
  <1>5. Pruned(q) # << >> <=> n # 0 BY <1>3, EmptySeq
  <1> QED BY <1>1, <1>2, <1>3, <1>4, <1>5

\* VerifyPrune keeps files that were there.
LEMMA VerifyPruneKeeps == Inv /\ VerifyPrune => Inv'
  <1> SUFFICES ASSUME Inv, VerifyPrune PROVE Inv' OBVIOUS
  <1> USE DEF VerifyPrune, registry, passes, history
  <1>1. snaps \in Seq(File) BY DEF Inv, TypeOK
  <1>2. /\ snaps' \in Seq(File)
        /\ \A i \in DOMAIN snaps' : i \in DOMAIN snaps /\ snaps'[i] = snaps[i]
    BY <1>1, PrunedIs
  <1>3. TypeOK' BY <1>2 DEF Inv, TypeOK
  <1>4. FilesFine' BY <1>2 DEF Inv, FilesFine
  <1>5. Remembers' /\ RestoreKnows' BY DEF Inv, Remembers, RestoreKnows
  <1>6. KeeperFine' /\ OrganizerFine' /\ NobodyHome' BY DEF Inv, KeeperFine, OrganizerFine, NobodyHome
  <1>7. NoneLost' /\ SnapshotFresh' BY DEF Inv, NoneLost, SnapshotFresh
  <1> QED BY <1>3, <1>4, <1>5, <1>6, <1>7 DEF Inv

-----------------------------------------------------------------------------
(* The restore command, a start, and damage.                               *)

\* A step that leaves the live file, the processes and the past alone.
LEMMA RestoreStepKeeps ==
    ASSUME Inv, UNCHANGED <<live, bad, snaps, registry, up, backup, passes, history>>,
           restore' \in [pc : {"idle", "read", "staged", "aside"}, from : File \cup {Missing},
                         hashes : SUBSET Hashes],
           ~up, Fine(restore'.from, known, marks, raced), RestoreKnows'
    PROVE  Inv'
  <1> USE DEF registry, passes, history
  <1>1. TypeOK' BY DEF Inv, TypeOK
  <1>2. FilesFine' BY DEF Inv, FilesFine
  <1>3. Remembers' BY DEF Inv, Remembers
  <1>4. KeeperFine' /\ OrganizerFine' /\ NobodyHome' BY DEF Inv, KeeperFine, OrganizerFine, NobodyHome
  <1>5. NoneLost' /\ SnapshotFresh' BY DEF Inv, NoneLost, SnapshotFresh
  <1> QED BY <1>1, <1>2, <1>3, <1>4, <1>5 DEF Inv

\* RestoreReads holds all hashes that are remembered.
LEMMA RestoreReadsKeeps == Inv /\ RestoreReads => Inv'
  <1> SUFFICES ASSUME Inv, RestoreReads PROVE Inv' OBVIOUS
  <1> USE DEF RestoreReads, files, registry, history
  <1>1. PICK s \in Candidates : restore' = [pc |-> "read", from |-> s, hashes |-> Remembered]
    OBVIOUS
  <1>2. s # Missing /\ (s = bad \/ \E i \in DOMAIN snaps : s = snaps[i])
    BY DEF Candidates, Verifies
  <1>3. Fine(s, known, marks, raced) BY <1>2 DEF Inv, FilesFine
  <1>4. s \in File BY <1>2, <1>3 DEF Fine, Sound
  <1>5. Remembered \subseteq marks /\ marks \subseteq Remembered
    <2>1. Opens(live) => \A c \in live.gone : HashOf[c] \in marks
      BY DEF Opens, Inv, FilesFine, Fine, Fits
    <2> QED BY <2>1 DEF Remembered
  <1>6. marks \subseteq Hashes BY DEF Inv, TypeOK
  <1>7. RestoreKnows' BY <1>1, <1>2, <1>5 DEF Inv, Remembers, RestoreKnows
  <1>8. restore' \in [pc : {"idle", "read", "staged", "aside"}, from : File \cup {Missing},
                      hashes : SUBSET Hashes]
    BY <1>1, <1>4, <1>5, <1>6
  <1> QED BY <1>1, <1>3, <1>7, <1>8, RestoreStepKeeps

\* The copy that is staged knows all that the registry knew.
LEMMA RestoreStagesKeeps == Inv /\ RestoreStages => Inv'
  <1> SUFFICES ASSUME Inv, RestoreStages PROVE Inv' OBVIOUS
  <1> DEFINE s == restore.from
             cs == Named(s, restore.hashes)
             t == Purged(s, cs)
  <1>1. /\ restore \in [pc : {"idle", "read", "staged", "aside"}, from : File \cup {Missing},
                        hashes : SUBSET Hashes]
        /\ restore.pc = "read" /\ ~up
        /\ restore' = [restore EXCEPT !.pc = "staged", !.from = t]
    BY DEF Inv, TypeOK, RestoreStages
  <1>2. /\ s # Missing /\ restore.hashes \subseteq marks
        /\ \A c \in forgotten : HashOf[c] \in restore.hashes
    BY <1>1 DEF Inv, RestoreKnows
  <1>3. Sound(s) /\ Fits(s, known, marks, raced)
    BY <1>2 DEF Inv, FilesFine, Fine
  <1>4. s \in File BY <1>3 DEF Sound
  <1>5. cs = {c \in DOMAIN s.rows : HashOf[c] \in restore.hashes} BY DEF Named
  <1> HIDE DEF cs
  <1>6. /\ t \in File /\ DOMAIN t.rows = DOMAIN s.rows
        /\ t.gone = s.gone \cup ((cs \cap DOMAIN s.rows) \ s.gone)
        /\ t.quoted = s.quoted \ ((cs \cap DOMAIN s.rows) \ s.gone)
    BY <1>4, PurgedIs
  <1>7. Sound(t) BY <1>3, PurgedSound
  <1> HIDE DEF t
  <1>8. Fine(t, known, marks, raced) BY <1>2, <1>3, <1>5, <1>6, <1>7 DEF Fine, Fits
  <1>9. Silent(t, forgotten) BY <1>2, <1>5, <1>6 DEF Silent
  <1>10. t # Missing BY <1>6, ForgetAssumptions
  <1>11. /\ restore'.pc = "staged" /\ restore'.from = t /\ restore'.hashes = restore.hashes
         /\ restore' \in [pc : {"idle", "read", "staged", "aside"}, from : File \cup {Missing},
                          hashes : SUBSET Hashes]
    BY <1>1, <1>6
  <1>12. RestoreKnows'
    BY <1>2, <1>9, <1>10, <1>11 DEF RestoreKnows, RestoreStages, registry, history
  <1> QED BY <1>1, <1>8, <1>11, <1>12, RestoreStepKeeps DEF RestoreStages, files

\* RestoreSetsAside moves the live file, and its rows, to <live>.bad.
LEMMA RestoreSetsAsideKeeps == Inv /\ RestoreSetsAside => Inv'
  <1> SUFFICES ASSUME Inv, RestoreSetsAside PROVE Inv' OBVIOUS
  <1> USE DEF RestoreSetsAside, SetAside, registry, passes
  <1>1. /\ restore \in [pc : {"idle", "read", "staged", "aside"}, from : File \cup {Missing},
                        hashes : SUBSET Hashes]
        /\ count \in [asides : Nat, crashes : Nat, reads : Nat, damages : Nat]
        /\ restore.pc = "staged" /\ ~up
    BY DEF Inv, TypeOK
  <1>2. /\ restore'.pc = "aside" /\ restore'.from = restore.from /\ restore'.hashes = restore.hashes
        /\ restore' \in [pc : {"idle", "read", "staged", "aside"}, from : File \cup {Missing},
                         hashes : SUBSET Hashes]
        /\ count'.asides = count.asides + 1 /\ count.asides \in Nat
        /\ count' \in [asides : Nat, crashes : Nat, reads : Nat, damages : Nat]
    BY <1>1
  <1>3. TypeOK' BY <1>1, <1>2 DEF Inv, TypeOK
  <1>4. FilesFine'
    <2>1. Fine(Missing, known, marks, raced) BY DEF Fine
    <2> QED BY <1>2, <2>1 DEF Inv, FilesFine
  <1>5. Remembers' BY DEF Inv, Remembers
  <1>6. RestoreKnows' BY <1>1, <1>2 DEF Inv, RestoreKnows
  <1>7. keeper.pc = "idle" /\ organizer.pc = "idle" /\ ~backup
    BY <1>1 DEF Inv, NobodyHome, NoKeeper, NoOrganizer
  <1>8. KeeperFine' /\ OrganizerFine' /\ NobodyHome' /\ SnapshotFresh'
    BY <1>7 DEF Inv, KeeperFine, OrganizerFine, NobodyHome, SnapshotFresh
  <1>9. NoneLost'
    <2>1. count'.asides # 0 BY <1>2
    <2>2. count'.asides = 1 => count.asides = 0 BY <1>2
    <2> QED BY <2>1, <2>2 DEF Inv, NoneLost, Present
  <1> QED BY <1>3, <1>4, <1>5, <1>6, <1>8, <1>9 DEF Inv

\* RestoreInstalls moves in a copy that knows what was forgotten.
LEMMA RestoreInstallsKeeps == Inv /\ RestoreInstalls => Inv'
  <1> SUFFICES ASSUME Inv, RestoreInstalls PROVE Inv' OBVIOUS
  <1> USE DEF RestoreInstalls, files, registry, passes, history
  <1>1. restore.pc = "aside" /\ ~up BY DEF Inv, TypeOK
  <1>2. live = Missing /\ count.asides # 0 /\ Silent(restore.from, forgotten)
    BY <1>1 DEF Inv, RestoreKnows
  <1>3. restore' = NoRestore /\ restore'.pc = "idle" /\ restore'.from = Missing
        /\ restore'.hashes = {}
        /\ restore' \in [pc : {"idle", "read", "staged", "aside"}, from : File \cup {Missing},
                         hashes : SUBSET Hashes]
    BY DEF NoRestore
  <1>4. TypeOK' BY <1>1, <1>3 DEF Inv, TypeOK
  <1>5. FilesFine'
    <2>1. Fine(Missing, known, marks, raced) BY DEF Fine
    <2> QED BY <1>3, <2>1 DEF Inv, FilesFine
  <1>6. Remembers' BY <1>2 DEF Inv, Remembers
  <1>7. RestoreKnows' BY <1>3 DEF RestoreKnows
  <1>8. keeper.pc = "idle" /\ organizer.pc = "idle" /\ ~backup
    BY <1>1 DEF Inv, NobodyHome, NoKeeper, NoOrganizer
  <1>9. KeeperFine' /\ OrganizerFine' /\ NobodyHome' /\ SnapshotFresh'
    BY <1>8 DEF Inv, KeeperFine, OrganizerFine, NobodyHome, SnapshotFresh
  <1>10. NoneLost' BY <1>2 DEF Inv, NoneLost, Present
  <1> QED BY <1>4, <1>5, <1>6, <1>7, <1>9, <1>10 DEF Inv

\* Start makes an empty file, or adds markers that are there already.
LEMMA StartKeeps == Inv /\ Start => Inv'
  <1> SUFFICES ASSUME Inv, Start PROVE Inv' OBVIOUS
  <1> USE DEF Start, files, passes, history
  <1>1. ~up /\ restore.pc = "idle" /\ up' OBVIOUS
  <1>2. Sound(Empty) /\ Empty \in File /\ Empty # Missing
        /\ DOMAIN Empty.rows = {} /\ Empty.gone = {} /\ Empty.quoted = {}
    BY EmptySound, ForgetAssumptions DEF Sound, Empty
  <1>3. /\ live' \in File /\ live' # Missing
        /\ (live = Missing /\ live' = Empty) \/ (live # Missing /\ live' = live)
    <2>1. live \in File \cup {Missing} BY DEF Inv, TypeOK
    <2>2. live' = IF live = Missing THEN Empty ELSE live OBVIOUS
    <2> QED BY <1>2, <2>1, <2>2
  <1>4. Fine(live', known, marks, raced)
    BY <1>2, <1>3 DEF Inv, FilesFine, Fine, Fits
  <1>5. marks' = marks
    <2>1. \A c \in live'.gone : HashOf[c] \in marks BY <1>3, <1>4 DEF Fine, Fits
    <2> QED BY <2>1
  <1>6. TypeOK' BY <1>1, <1>3, <1>5 DEF Inv, TypeOK
  <1>7. FilesFine' BY <1>4, <1>5 DEF Inv, FilesFine
  <1>8. Remembers' BY <1>2, <1>3, <1>5 DEF Inv, Remembers, Silent
  <1>9. RestoreKnows' BY <1>1, <1>5 DEF Inv, RestoreKnows
  <1>10. keeper.pc = "idle" /\ organizer.pc = "idle" /\ ~backup
    BY <1>1 DEF Inv, NobodyHome, NoKeeper, NoOrganizer
  <1>11. KeeperFine' /\ OrganizerFine' /\ NobodyHome' /\ SnapshotFresh'
    BY <1>1, <1>10 DEF KeeperFine, OrganizerFine, NobodyHome, SnapshotFresh
  <1>12. NoneLost' BY <1>2, <1>3 DEF Inv, NoneLost, Present
  <1> QED BY <1>6, <1>7, <1>8, <1>9, <1>11, <1>12 DEF Inv

\* Damage hits a file that no process has open.
LEMMA DamageKeeps ==
    ASSUME NEW d \in {"chain", "file"} PROVE Inv /\ Damage(d) => Inv'
  <1> SUFFICES ASSUME Inv, Damage(d) PROVE Inv' OBVIOUS
  <1> USE DEF Damage, files, registry, passes
  <1>1. ~up /\ restore.pc = "idle" /\ live # Missing BY DEF Verifies
  <1>2. Sound(live) /\ Fits(live, known, marks, raced) BY <1>1 DEF Inv, FilesFine, Fine
  <1>3. Sound(live') /\ live'.rows = live.rows /\ live'.gone = live.gone
        /\ live'.quoted = live.quoted
    BY <1>2, DamageSound
  <1>4. live' \in File /\ live' # Missing BY <1>3, ForgetAssumptions DEF Sound
  <1>5. /\ count' \in [asides : Nat, crashes : Nat, reads : Nat, damages : Nat]
        /\ count'.asides = count.asides
    BY DEF Inv, TypeOK
  <1>6. TypeOK' BY <1>4, <1>5 DEF Inv, TypeOK
  <1>7. FilesFine'
    <2>1. Fine(live', known, marks, raced) BY <1>2, <1>3 DEF Fine, Fits
    <2> QED BY <2>1 DEF Inv, FilesFine
  <1>8. Remembers' BY <1>1, <1>3 DEF Inv, Remembers, Silent
  <1>9. RestoreKnows' BY <1>1 DEF Inv, RestoreKnows
  <1>10. keeper.pc = "idle" /\ organizer.pc = "idle" /\ ~backup
    BY <1>1 DEF Inv, NobodyHome, NoKeeper, NoOrganizer
  <1>11. KeeperFine' /\ OrganizerFine' /\ NobodyHome' /\ SnapshotFresh'
    BY <1>10 DEF Inv, KeeperFine, OrganizerFine, NobodyHome, SnapshotFresh
  <1>12. NoneLost' BY <1>1, <1>3, <1>4, <1>5 DEF Inv, NoneLost, Present
  <1> QED BY <1>6, <1>7, <1>8, <1>9, <1>11, <1>12 DEF Inv

-----------------------------------------------------------------------------
(* The theorems.                                                           *)

\* Every step keeps the invariant: one case for each action of Next.
LEMMA InvStep == Inv /\ [Next]_vars => Inv'
  <1> SUFFICES ASSUME Inv, [Next]_vars PROVE Inv' OBVIOUS
  <1>1. ASSUME NEW c \in Captures,
               Record(c) \/ Compact(c) \/ Forget(c) \/ ForgetFails(c) \/ CrashInForget(c) \/ Redact(c)
        PROVE  Inv'
    BY <1>1, RecordKeeps, CompactKeeps, ForgetKeeps, ForgetFailsKeeps, DeathsKeep, RedactKeeps
  <1>2. CASE KeeperRead \/ JournalCompaction \/ KeeperFinish
    BY <1>2, KeeperReadKeeps, JournalCompactionKeeps, KeeperFinishKeeps
  <1>3. ASSUME NEW r \in 1..bound.passes, RevertCompaction(r) PROVE Inv'
    BY <1>3, RevertKeeps
  <1>4. CASE OrganizerRead \/ OrganizerOpens \/ OrganizerWrites \/ OrganizerEnds
    BY <1>4, OrganizerReadKeeps, OrganizerOpensKeeps, OrganizerWritesKeeps, OrganizerEndsKeeps
  <1>5. CASE Snapshot \/ VerifyPrune
    BY <1>5, SnapshotKeeps, VerifyPruneKeeps
  <1>6. CASE RestoreReads \/ RestoreStages \/ RestoreSetsAside \/ RestoreInstalls
    BY <1>6, RestoreReadsKeeps, RestoreStagesKeeps, RestoreSetsAsideKeeps, RestoreInstallsKeeps
  <1>7. CASE Stop \/ Crash \/ CrashTearsMarker \/ CrashTearsSnapshot
    BY <1>7, DeathsKeep
  <1>8. CASE Start BY <1>8, StartKeeps
  <1>9. ASSUME NEW d \in bound.damages, Damage(d) PROVE Inv'
    <2>1. bound \in BoundSet BY ForgetAssumptions DEF Inv, TypeOK
    <2>2. d \in {"chain", "file"} BY <2>1 DEF BoundSet
    <2> QED BY <1>9, <2>2, DamageKeeps
  <1>10. CASE UNCHANGED vars
    BY <1>10 DEF vars, Inv, TypeOK, FilesFine, Remembers, RestoreKnows, KeeperFine, OrganizerFine,
                 NobodyHome, NoneLost, SnapshotFresh, Verifies
  <1> QED BY <1>1, <1>2, <1>3, <1>4, <1>5, <1>6, <1>7, <1>8, <1>9, <1>10 DEF Next

\* The invariant holds in every reachable state.
THEOREM Invariance == Spec => []Inv
  BY InvInit, InvStep, PTL DEF Spec

\* Type correctness: every file is what the schema can hold, and what is in
\* memory belongs to a process.
THEOREM Typed == Spec => []TypeOK
  <1>1. Inv => TypeOK BY DEF Inv
  <1> QED BY Invariance, <1>1, PTL

\* The words of a forgotten capture never come back, in any file that is the
\* live one: the tombstones of a sound file are blank, and the live file has
\* a tombstone of every capture that was ever forgotten.
THEOREM ForgottenForGood == Spec => []NoResurrection
  <1>1. Inv => NoResurrection
    BY DEF Inv, FilesFine, Fine, Sound, TombstonesBlank, Remembers, Silent, NoResurrection
  <1> QED BY Invariance, <1>1, PTL

\* Derived text goes with its source, but for the race of a forget with an
\* organizer that has read and not yet opened its run.
THEOREM DerivedTextGoes == Spec => []NothingQuoted
  <1>1. Inv => NothingQuoted
    BY DEF Inv, FilesFine, Fine, Fits, Sound, Remembers, Silent, NothingQuoted
  <1> QED BY Invariance, <1>1, PTL

\* One restore, wherever it stops, loses nothing that was not forgotten.
THEOREM RestoreIsSafe == Spec => []OneRestoreLosesNothing
  <1>1. ASSUME Inv, count.asides <= 1, NEW c \in known
        PROVE  \E s \in {live, bad} \ {Missing} :
                  c \in DOMAIN s.rows /\ (s.rows[c] = Blank => HashOf[c] \in marks)
    <2>1. count.asides \in Nat BY <1>1 DEF Inv, TypeOK
    <2>2. PICK s \in {live, bad} : Present(c, s)
      <3>1. count.asides = 0 \/ count.asides = 1 BY <1>1, <2>1
      <3> QED BY <1>1, <3>1 DEF Inv, NoneLost
    <2>3. s # Missing /\ c \in DOMAIN s.rows BY <2>2 DEF Present
    <2>4. s.rows[c] = Blank => HashOf[c] \in marks
      BY <1>1, <2>3 DEF Inv, FilesFine, Fine, Fits, Sound, TombstonesBlank
    <2> QED BY <2>3, <2>4
  <1>2. Inv => OneRestoreLosesNothing BY <1>1 DEF OneRestoreLosesNothing
  <1> QED BY Invariance, <1>2, PTL

\* A run that can still be undone finds what it undoes.
THEOREM UndoFindsGists == Spec => []ArchivesStay
  <1>1. Inv => ArchivesStay
    BY DEF Inv, FilesFine, Fine, Sound, OffersGisted, ArchivesStay
  <1> QED BY Invariance, <1>1, PTL

\* Pruning is never the end of the last snapshot that verifies while the live
\* chain does: the newest snapshot is then a copy of it.
THEOREM PruningIsSafe == Spec => PruneKeepsOne
  <1> DEFINE Safe == (\E i \in DOMAIN snaps : Verifies(snaps[i])) /\ Verifies(live)
                       => \E i \in DOMAIN snaps' : Verifies(snaps'[i])
  <1>1. Inv /\ [Next]_vars => Safe
    <2> DEFINE Some == \E i \in DOMAIN snaps : Verifies(snaps[i])
    <2> SUFFICES ASSUME Inv, [Next]_vars, Some, Verifies(live)
                 PROVE  \E i \in DOMAIN snaps' : Verifies(snaps'[i])
      OBVIOUS
    <2>0. snaps \in Seq(File) /\ live \in File
      BY DEF Inv, TypeOK, Verifies
    <2>1. CASE VerifyPrune
      <3>1. snaps # << >> /\ Verifies(snaps[1])
        BY <2>1 DEF Inv, SnapshotFresh, VerifyPrune
      <3>2. 1 \in DOMAIN snaps' /\ snaps'[1] = snaps[1]
        BY <2>0, <2>1, <3>1, PrunedIs DEF VerifyPrune
      <3> QED BY <3>1, <3>2 DEF Verifies
    <2>2. ASSUME NEW t \in File, snaps' = <<t>> \o snaps PROVE \E i \in DOMAIN snaps' : Verifies(snaps'[i])
      <3>1. PICK i \in DOMAIN snaps : Verifies(snaps[i]) OBVIOUS
      <3>2. i \in 1..Len(snaps) /\ Len(snaps) \in Nat BY <2>0
      <3>3. <<t>> \in Seq(File) /\ Len(<<t>>) = 1 OBVIOUS
      <3>4. /\ DOMAIN snaps' = 1..(1 + Len(snaps)) /\ snaps'[i + 1] = snaps[i]
        BY <2>0, <2>2, <3>2, <3>3, ConcatProperties
      <3>5. i + 1 \in DOMAIN snaps' BY <3>2, <3>4
      <3> QED BY <3>1, <3>4, <3>5 DEF Verifies
    <2>3. CASE Snapshot BY <2>0, <2>2, <2>3 DEF Snapshot
    <2>4. CASE CrashTearsSnapshot
      <3>1. [Empty EXCEPT !.damage = "file"] \in File BY EmptySound, DamageSound DEF Sound
      <3> QED BY <2>2, <2>4, <3>1 DEF CrashTearsSnapshot
    <2>5. CASE UNCHANGED snaps BY <2>5 DEF Verifies
    <2>6. Next => VerifyPrune \/ Snapshot \/ CrashTearsSnapshot \/ UNCHANGED snaps
      BY DEF Next, Record, Compact, Forget, ForgetFails, CrashInForget, Redact, KeeperRead,
             JournalCompaction, KeeperFinish, RevertCompaction, OrganizerRead, OrganizerOpens,
             OrganizerWrites, OrganizerEnds, RestoreReads, RestoreStages, RestoreSetsAside,
             RestoreInstalls, Stop, Crash, CrashTearsMarker, Start, Damage, files
    <2>7. UNCHANGED vars => UNCHANGED snaps BY DEF vars
    <2> QED BY <2>1, <2>3, <2>4, <2>5, <2>6, <2>7
  <1>2. Spec => [][Safe]_vars BY <1>1, Invariance, PTL DEF Spec
  <1> QED BY <1>2 DEF PruneKeepsOne
=============================================================================

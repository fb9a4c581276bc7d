------------------------- MODULE StageBuilderProofs -------------------------
(***************************************************************************)
(* Proofs about StageBuilder, for any number of builders that share a      *)
(* cache.                                                                  *)
(*                                                                         *)
(* For any Dockerfiles and any flags: the two passes over the commands     *)
(* compute the same keys, and a build whose pushes succeeded leaves the    *)
(* cache filled for the next one (invariant IInv).                         *)
(*                                                                         *)
(* For plain jobs whose texts say what commands do (Sound): equal keys are *)
(* keys of commands that do the same, the layers in the cache are right    *)
(* for whoever finds them, the layers of an image hold what their commands *)
(* touch, and the builders implement StageBuild (invariant BInv).          *)
(***************************************************************************)
EXTENDS StageBuilder, FileTreeProofs

-----------------------------------------------------------------------------
(***************************************************************************)
(* What the Dockerfile says.  One command turns what the commands before   *)
(* it make into what they make together; MeaningOf is the function that    *)
(* the commands build up in this way, and there is one.                    *)
(***************************************************************************)
Nothing(j) == [fs |-> BaseTree[j.base], env |-> None, key |-> <<j.base>>]

Then(j, n, before) ==
    [fs |-> Execute(j, j.cmds[n], before.fs, before.env),
     env |-> EnvAfter(j.cmds[n], before.env),
     key |-> populateCompositeKey(before.key, j, j.cmds[n], before.env)]

Means(j, k, m) == m = [n \in 0 .. k |-> IF n = 0 THEN Nothing(j) ELSE Then(j, n, m[n - 1])]

(***************************************************************************)
(* The first k commands mean something, for every k: take the least k for  *)
(* which they do not and go one command further than the ones before.      *)
(***************************************************************************)
LEMMA EveryPrefixMeans ==
    ASSUME NEW j, NEW k \in Nat
    PROVE  \E m : Means(j, k, m)
<1> SUFFICES ASSUME ~ \E m : Means(j, k, m) PROVE FALSE
  OBVIOUS
<1> DEFINE T == {i \in Nat : ~ \E m : Means(j, i, m)}
<1>1. PICK i \in T : \A h \in T : ~(<<h, i>> \in OpToRel(<, Nat))
  <2>1. T \subseteq Nat /\ T # {}
    OBVIOUS
  <2> HIDE DEF T
  <2> QED
    BY <2>1, NatLessThanWellFounded, WFMin
<1>2. i \in Nat /\ ~ \E m : Means(j, i, m)
  OBVIOUS
<1>3. i # 0
  <2>1. Means(j, 0, [n \in 0 .. 0 |-> Nothing(j)])
    BY DEF Means
  <2> QED
    BY <1>2, <2>1
<1>4. PICK m : Means(j, i - 1, m)
  <2>1. i - 1 \in Nat /\ i - 1 < i
    BY <1>2, <1>3
  <2>2. <<i - 1, i>> \in OpToRel(<, Nat)
    BY <1>2, <2>1 DEF OpToRel
  <2> QED
    BY <1>1, <2>1, <2>2
<1> DEFINE m2 == [n \in 0 .. i |-> IF n = i THEN Then(j, i, m[i - 1]) ELSE m[n]]
<1>5. \A n \in 0 .. i - 1 : m[n] = IF n = 0 THEN Nothing(j) ELSE Then(j, n, m[n - 1])
  BY <1>4 DEF Means
<1>6. \A n \in 0 .. i : m2[n] = IF n = 0 THEN Nothing(j) ELSE Then(j, n, m2[n - 1])
  BY <1>2, <1>3, <1>5
<1>7. Means(j, i, m2)
  BY <1>6 DEF Means
<1> QED
  BY <1>2, <1>7

(***************************************************************************)
(* A job has at least one command.                                         *)
(***************************************************************************)
LEMMA JobCmds ==
    ASSUME NEW j \in Job
    PROVE  /\ Len(j.cmds) \in Nat \ {0}
           /\ DOMAIN j.cmds = 1 .. Len(j.cmds)
BY JobAssumption

(***************************************************************************)
(* The meaning of a Dockerfile, command by command.                        *)
(***************************************************************************)
LEMMA MeaningSteps ==
    ASSUME NEW j \in Job
    PROVE  /\ Meaning[j][0].key = <<j.base>> /\ Meaning[j][0].env = None
           /\ Meaning[j][0].fs = BaseTree[j.base]
           /\ \A n \in 1 .. Len(j.cmds) :
                /\ Meaning[j][n].fs = Execute(j, j.cmds[n], Meaning[j][n - 1].fs,
                                              Meaning[j][n - 1].env)
                /\ Meaning[j][n].env = EnvAfter(j.cmds[n], Meaning[j][n - 1].env)
                /\ Meaning[j][n].key = populateCompositeKey(
                        Meaning[j][n - 1].key, j, j.cmds[n], Meaning[j][n - 1].env)
<1>1. Len(j.cmds) \in Nat
  BY JobCmds
<1>2. \E m : Means(j, Len(j.cmds), m)
  BY <1>1, EveryPrefixMeans
<1>3. Means(j, Len(j.cmds), MeaningOf(j))
  BY <1>2, Zenon DEF Means, MeaningOf, Nothing, Then
<1>4. \A n \in 0 .. Len(j.cmds) : MeaningOf(j)[n] =
        IF n = 0 THEN Nothing(j) ELSE Then(j, n, MeaningOf(j)[n - 1])
  BY <1>3 DEF Means
<1>5. \A n \in 0 .. Len(j.cmds) : Meaning[j][n] = MeaningOf(j)[n]
  BY DEF Meaning
<1>6. Meaning[j][0] = Nothing(j)
  BY <1>1, <1>4, <1>5
<1>7. \A n \in 1 .. Len(j.cmds) : Meaning[j][n] = Then(j, n, Meaning[j][n - 1])
  BY <1>1, <1>4, <1>5
<1>8. \A n, before : /\ Then(j, n, before).fs
                            = Execute(j, j.cmds[n], before.fs, before.env)
                     /\ Then(j, n, before).env = EnvAfter(j.cmds[n], before.env)
                     /\ Then(j, n, before).key = populateCompositeKey(
                            before.key, j, j.cmds[n], before.env)
  BY DEF Then
<1>9. /\ Nothing(j).key = <<j.base>> /\ Nothing(j).env = None
      /\ Nothing(j).fs = BaseTree[j.base]
  BY DEF Nothing
<1> QED
  BY <1>6, <1>7, <1>8, <1>9

(***************************************************************************)
(* Equal keys are keys of commands that do the same to the same files.     *)
(***************************************************************************)
KeysTell(jobs) ==
    \A j, k \in jobs : \A n \in DOMAIN j.cmds, m \in DOMAIN k.cmds :
        /\ j.Cache /\ ShouldCacheOutput(j, j.cmds[n])
        /\ k.Cache /\ ShouldCacheOutput(k, k.cmds[m])
        /\ Meaning[j][n].key = Meaning[k][m].key
        => /\ Meaning[j][n - 1].fs = Meaning[k][m - 1].fs
           /\ Meaning[j][n].fs = Meaning[k][m].fs
           /\ Named(j, n) = Named(k, m)

-----------------------------------------------------------------------------
(***************************************************************************)
(* The keys.  What is in them, and the key of one more command word by     *)
(* word.                                                                   *)
(***************************************************************************)
Content(j, cmd) == IF cmd.op = "COPY" THEN j.ctx[cmd.src] ELSE None

WordsOf(j) ==
    {j.base, j.arg}
    \cup {j.cmds[n].text : n \in DOMAIN j.cmds}
    \cup {Content(j, j.cmds[n]) : n \in DOMAIN j.cmds}
    \cup {Meaning[j][n].env : n \in 0 .. Len(j.cmds)}

Words == UNION {WordsOf(j) : j \in Job}

KeyAfter(key, j, cmd, e) ==
    LET known == IF cmd.op = "RUN" THEN Append(Append(key, e), j.arg) ELSE key
        text == Append(known, cmd.text)
    IN IF cmd.op = "COPY" /\ j.ctx[cmd.src] # None THEN Append(text, j.ctx[cmd.src]) ELSE text

(***************************************************************************)
(* populateCompositeKey appends words.                                     *)
(***************************************************************************)
LEMMA KeyIsAppended ==
    ASSUME NEW W, NEW key \in Seq(W), NEW j, NEW cmd, NEW e,
           e \in W, j.arg \in W, cmd.text \in W, Content(j, cmd) \in W
    PROVE  /\ populateCompositeKey(key, j, cmd, e) = KeyAfter(key, j, cmd, e)
           /\ KeyAfter(key, j, cmd, e) \in Seq(W)
           /\ Len(KeyAfter(key, j, cmd, e)) > Len(key)
<1> DEFINE a == IF cmd.op = "RUN" THEN <<e, j.arg>> ELSE << >>
           z == IF cmd.op = "COPY" /\ j.ctx[cmd.src] # None THEN <<j.ctx[cmd.src]>> ELSE << >>
           known == IF cmd.op = "RUN" THEN Append(Append(key, e), j.arg) ELSE key
           text == Append(known, cmd.text)
           x == j.ctx[cmd.src]
<1>1. key \o << >> = key /\ \A s \in Seq(W) : s \o << >> = s
  OBVIOUS
<1>2. ASSUME NEW s \in Seq(W), NEW w \in W 
      PROVE  s \o <<w>> = Append(s, w) /\ Append(s, w) \in Seq(W) /\ Len(Append(s, w)) = Len(s) + 1
  OBVIOUS
<1>3. ASSUME NEW s \in Seq(W), NEW v \in W, NEW w \in W PROVE s \o <<v, w>> = Append(Append(s, v), w)
  OBVIOUS
<1>4. key \o a = known /\ known \in Seq(W) /\ Len(known) >= Len(key)
  BY <1>1, <1>2, <1>3
<1>5. known \o <<cmd.text>> = text /\ text \in Seq(W) /\ Len(text) > Len(key)
  BY <1>2, <1>4
<1>6. CASE cmd.op = "COPY" /\ x # None
  <2>1. x \in W
    BY <1>6 DEF Content
  <2>2. text \o z = Append(text, x) /\ Append(text, x) \in Seq(W) /\ Len(Append(text, x)) > Len(key)
    BY <1>2, <1>5, <1>6, <2>1
  <2> HIDE DEF known, x
  <2> QED
    BY <1>4, <1>5, <1>6, <2>2 DEF populateCompositeKey, KeyAfter, known, x
<1>7. CASE ~(cmd.op = "COPY" /\ x # None)
  <2>1. text \o z = text
    BY <1>1, <1>5, <1>7
  <2>2. populateCompositeKey(key, j, cmd, e) = ((key \o a) \o <<cmd.text>>) \o z
    BY Zenon DEF populateCompositeKey
  <2>3. KeyAfter(key, j, cmd, e) = text
    BY <1>7 DEF KeyAfter
  <2> HIDE DEF a, z, known, text
  <2> QED
    BY <1>4, <1>5, <2>1, <2>2, <2>3
<1> QED
  BY <1>6, <1>7

(***************************************************************************)
(* What a job adds to keys are words.                                      *)
(***************************************************************************)
LEMMA JobHasWords ==
    ASSUME NEW j \in Job
    PROVE  /\ j.base \in Words /\ j.arg \in Words
           /\ \A i \in 1 .. Len(j.cmds) :
                /\ j.cmds[i].text \in Words /\ Content(j, j.cmds[i]) \in Words
                /\ Meaning[j][i - 1].env \in Words
<1>0. Len(j.cmds) \in Nat /\ DOMAIN j.cmds = 1 .. Len(j.cmds)
  BY JobCmds
<1>1. \A i \in 1 .. Len(j.cmds) : i \in DOMAIN j.cmds /\ i - 1 \in 0 .. Len(j.cmds)
  BY <1>0
<1>2. WordsOf(j) \subseteq Words
  BY Zenon DEF Words
<1>3. j.base \in WordsOf(j) /\ j.arg \in WordsOf(j)
  BY Zenon DEF WordsOf
<1>4. ASSUME NEW i \in 1 .. Len(j.cmds)
      PROVE  /\ j.cmds[i].text \in WordsOf(j) /\ Content(j, j.cmds[i]) \in WordsOf(j)
             /\ Meaning[j][i - 1].env \in WordsOf(j)
  <2>1. i \in DOMAIN j.cmds /\ i - 1 \in 0 .. Len(j.cmds)
    BY <1>1
  <2> QED
    BY <2>1, Zenon DEF WordsOf
<1> QED
  BY <1>2, <1>3, <1>4, Zenon

(***************************************************************************)
(* Keys are sequences of words, at least one for each command: take the    *)
(* least number of commands after which one is not.                        *)
(***************************************************************************)
LEMMA KeyHasWords ==
    ASSUME NEW j \in Job, NEW n \in 0 .. Len(j.cmds)
    PROVE  Meaning[j][n].key \in Seq(Words) /\ Len(Meaning[j][n].key) > n
<1> DEFINE Ok(i) == i \in 0 .. Len(j.cmds) =>
                      Meaning[j][i].key \in Seq(Words) /\ Len(Meaning[j][i].key) > i
           T == {i \in Nat : ~Ok(i)}
<1>0. Len(j.cmds) \in Nat /\ DOMAIN j.cmds = 1 .. Len(j.cmds)
  BY JobCmds
<1>w. j.base \in Words
  BY JobHasWords
<1> SUFFICES ASSUME T # {} PROVE FALSE
  BY <1>0
<1>1. PICK i \in T : \A h \in T : ~(<<h, i>> \in OpToRel(<, Nat))
  <2>1. T \subseteq Nat /\ T # {}
    OBVIOUS
  <2> HIDE DEF T
  <2> QED
    BY <2>1, NatLessThanWellFounded, WFMin
<1>2. /\ i \in 0 .. Len(j.cmds) /\ i \in Nat
      /\ ~(Meaning[j][i].key \in Seq(Words) /\ Len(Meaning[j][i].key) > i)
  OBVIOUS
<1>3. i # 0
  <2>1. Meaning[j][0].key = <<j.base>>
    BY MeaningSteps
  <2>2. <<j.base>> \in Seq(Words) /\ Len(<<j.base>>) > 0
    BY <1>w
  <2> QED
    BY <1>2, <2>1, <2>2
<1>4. Meaning[j][i - 1].key \in Seq(Words) /\ Len(Meaning[j][i - 1].key) > i - 1
  <2>1. i - 1 \in 0 .. Len(j.cmds) /\ i - 1 \in Nat /\ i - 1 < i
    BY <1>0, <1>2, <1>3
  <2>2. <<i - 1, i>> \in OpToRel(<, Nat)
    BY <1>2, <2>1 DEF OpToRel
  <2>3. i - 1 \notin T
    BY <1>1, <2>2
  <2> QED
    BY <2>1, <2>3
<1>5. i \in 1 .. Len(j.cmds)
  BY <1>0, <1>2, <1>3
<1> DEFINE key == Meaning[j][i - 1].key
           e == Meaning[j][i - 1].env
           cmd == j.cmds[i]
<1>6. Meaning[j][i].key = populateCompositeKey(key, j, cmd, e)
  BY <1>5, MeaningSteps
<1>7. e \in Words /\ j.arg \in Words /\ cmd.text \in Words /\ Content(j, cmd) \in Words
  BY <1>5, JobHasWords
<1>8. key \in Seq(Words) /\ Len(key) > i - 1 /\ Len(key) \in Nat
  BY <1>4
<1> HIDE DEF key, e, cmd, T, Ok
<1>9. /\ populateCompositeKey(key, j, cmd, e) \in Seq(Words)
      /\ Len(populateCompositeKey(key, j, cmd, e)) > Len(key)
  BY <1>7, <1>8, KeyIsAppended
<1>10. Len(populateCompositeKey(key, j, cmd, e)) > i
  BY <1>2, <1>8, <1>9
<1> QED
  BY <1>2, <1>6, <1>9, <1>10

(***************************************************************************)
(* Words appended are known from the result.                               *)
(***************************************************************************)
LEMMA AppendTells ==
    ASSUME NEW W, NEW u \in Seq(W), NEW v \in Seq(W), NEW g \in W, NEW h \in W,
           Append(u, g) = Append(v, h)
    PROVE  u = v /\ g = h
BY AppendInjective

(***************************************************************************)
(* What the last command adds can be told from the key: its text, the file *)
(* of a COPY, the build argument of a RUN, and the key of the commands     *)
(* before.                                                                 *)
(***************************************************************************)
LEMMA LastWordsTell ==
    ASSUME NEW W, NEW s \in Seq(W), NEW t \in Seq(W), NEW j, NEW k, NEW c, NEW d, NEW e, NEW f,
           e \in W, j.arg \in W, c.text \in W, Content(j, c) \in W,
           f \in W, k.arg \in W, d.text \in W, Content(k, d) \in W,
           c.text = d.text => c = d,
           Content(j, c) # None => Content(j, c) # d.text,
           Content(k, d) # None => Content(k, d) # c.text,
           KeyAfter(s, j, c, e) = KeyAfter(t, k, d, f)
    PROVE  /\ c = d /\ s = t
           /\ c.op = "RUN" => j.arg = k.arg
           /\ c.op = "COPY" => j.ctx[c.src] = k.ctx[c.src]
<1> DEFINE x == Content(j, c)
           y == Content(k, d)
           sk == IF c.op = "RUN" THEN Append(Append(s, e), j.arg) ELSE s
           tk == IF d.op = "RUN" THEN Append(Append(t, f), k.arg) ELSE t
           st == Append(sk, c.text)
           tt == Append(tk, d.text)
<1>2. sk \in Seq(W) /\ tk \in Seq(W) /\ st \in Seq(W) /\ tt \in Seq(W)
  OBVIOUS
<1>3. KeyAfter(s, j, c, e) = IF x # None THEN Append(st, x) ELSE st
  BY DEF KeyAfter, Content
<1>4. KeyAfter(t, k, d, f) = IF y # None THEN Append(tt, y) ELSE tt
  BY DEF KeyAfter, Content
<1>5. st = tt /\ x = y
  <2> HIDE DEF x, y, sk, tk
  <2>1. CASE x # None /\ y # None
    <3>1. Append(st, x) = Append(tt, y) /\ x \in W /\ y \in W
      BY <1>3, <1>4, <2>1 DEF x, y
    <3> HIDE DEF st, tt
    <3> QED
      BY <1>2, <3>1, AppendTells
  <2>2. CASE x # None /\ y = None
    <3>1. Append(st, x) = Append(tk, d.text)
      BY <1>3, <1>4, <2>2
    <3>2. x = d.text
      BY <1>2, <3>1, AppendTells DEF x
    <3> QED
      BY <2>2, <3>2 DEF x
  <2>3. CASE x = None /\ y # None
    <3>1. Append(tt, y) = Append(sk, c.text)
      BY <1>3, <1>4, <2>3
    <3>2. y = c.text
      BY <1>2, <3>1, AppendTells DEF y
    <3> QED
      BY <2>3, <3>2 DEF y
  <2>4. CASE x = None /\ y = None
    BY <1>3, <1>4, <2>4
  <2> QED
    BY <2>1, <2>2, <2>3, <2>4
<1>6. sk = tk /\ c.text = d.text
  <2> HIDE DEF sk, tk
  <2> QED
    BY <1>2, <1>5, AppendTells
<1>7. c = d
  BY <1>6
<1>8. CASE c.op = "RUN"
  <2>1. Append(Append(s, e), j.arg) = Append(Append(t, f), k.arg)
    BY <1>6, <1>7, <1>8
  <2>2. Append(s, e) \in Seq(W) /\ Append(t, f) \in Seq(W)
    OBVIOUS
  <2>3. Append(s, e) = Append(t, f) /\ j.arg = k.arg
    BY <2>1, <2>2, AppendTells
  <2>4. s = t
    BY <2>3, AppendTells
  <2> QED
    BY <1>7, <1>8, <2>3, <2>4
<1>9. CASE c.op # "RUN"
  <2>1. s = t
    BY <1>6, <1>7, <1>9
  <2>2. c.op = "COPY" => j.ctx[c.src] = k.ctx[c.src]
    BY <1>5, <1>7 DEF Content
  <2> QED
    BY <1>7, <1>9, <2>1, <2>2
<1> QED
  BY <1>8, <1>9

(***************************************************************************)
(* If the words tell commands apart then keys do: equal keys are keys of   *)
(* the same commands on the same base.  Take the least number of commands  *)
(* whose key says too little; what its last words say leads to fewer.      *)
(***************************************************************************)
Same(j, n, k, m) ==
    /\ Meaning[j][n].fs = Meaning[k][m].fs
    /\ Meaning[j][n].env = Meaning[k][m].env

LEMMA StepIsSame ==
    ASSUME TextsTell(Job), NEW j \in Job, NEW k \in Job,
           NEW n \in 1 .. Len(j.cmds), NEW m \in 1 .. Len(k.cmds),
           Meaning[j][n].key = Meaning[k][m].key
    PROVE  /\ Meaning[j][n - 1].key = Meaning[k][m - 1].key
           /\ Same(j, n - 1, k, m - 1) => Same(j, n, k, m)
           /\ Named(j, n) = Named(k, m)
<1> DEFINE s == Meaning[j][n - 1].key
           t == Meaning[k][m - 1].key
           e == Meaning[j][n - 1].env
           f == Meaning[k][m - 1].env
           c == j.cmds[n]
           d == k.cmds[m]
<1>0. /\ Len(j.cmds) \in Nat /\ DOMAIN j.cmds = 1 .. Len(j.cmds) /\ n - 1 \in 0 .. Len(j.cmds)
      /\ Len(k.cmds) \in Nat /\ DOMAIN k.cmds = 1 .. Len(k.cmds) /\ m - 1 \in 0 .. Len(k.cmds)
  BY JobCmds
<1>1. s \in Seq(Words) /\ t \in Seq(Words)
  BY <1>0, KeyHasWords
<1>2. /\ e \in Words /\ j.arg \in Words /\ c.text \in Words /\ Content(j, c) \in Words
      /\ f \in Words /\ k.arg \in Words /\ d.text \in Words /\ Content(k, d) \in Words
  BY JobHasWords
<1>3. /\ Meaning[j][n].key = populateCompositeKey(s, j, c, e)
      /\ Meaning[k][m].key = populateCompositeKey(t, k, d, f)
      /\ Meaning[j][n].fs = Execute(j, c, Meaning[j][n - 1].fs, e)
      /\ Meaning[k][m].fs = Execute(k, d, Meaning[k][m - 1].fs, f)
      /\ Meaning[j][n].env = EnvAfter(c, e) /\ Meaning[k][m].env = EnvAfter(d, f)
  BY MeaningSteps
<1>4. /\ c.text = d.text => c = d /\ (c.op # "RUN" => c.dst[j.arg] = d.dst[k.arg])
      /\ Content(j, c) # None => Content(j, c) # d.text
      /\ Content(k, d) # None => Content(k, d) # c.text
  <2>1. n \in DOMAIN j.cmds /\ m \in DOMAIN k.cmds
    BY <1>0
  <2>2. /\ c.text = d.text => c = d /\ (c.op # "RUN" => c.dst[j.arg] = d.dst[k.arg])
        /\ c.op = "COPY" /\ j.ctx[c.src] # None => j.ctx[c.src] # d.text
    BY <2>1, Zenon DEF TextsTell
  <2>3. d.op = "COPY" /\ k.ctx[d.src] # None => k.ctx[d.src] # c.text
    BY <2>1, Zenon DEF TextsTell
  <2> HIDE DEF c, d
  <2> QED
    BY <2>2, <2>3 DEF Content
<1> HIDE DEF s, t, e, f, c, d
<1>5. KeyAfter(s, j, c, e) = KeyAfter(t, k, d, f)
  <2>1. populateCompositeKey(s, j, c, e) = KeyAfter(s, j, c, e)
    BY <1>1, <1>2, KeyIsAppended
  <2>2. populateCompositeKey(t, k, d, f) = KeyAfter(t, k, d, f)
    BY <1>1, <1>2, KeyIsAppended
  <2> QED
    BY <1>3, <2>1, <2>2
<1>6. /\ c = d /\ s = t
      /\ c.op = "RUN" => j.arg = k.arg
      /\ c.op = "COPY" => j.ctx[c.src] = k.ctx[c.src]
  BY <1>1, <1>2, <1>4, <1>5, LastWordsTell
<1>7. c.dst[j.arg] = c.dst[k.arg]
  BY <1>4, <1>6
<1>8. ASSUME NEW x, e = f PROVE Execute(j, c, x, e) = Execute(k, c, x, f)
  <2>1. CASE c.op = "RUN"
    <3>1. j.arg = k.arg
      BY <1>6, <2>1
    <3> QED
      BY <1>8, <2>1, <3>1 DEF Execute
  <2>2. CASE c.op = "COPY"
    <3>1. \A p : CopyFile(j, c.src, x, p) = CopyFile(k, c.src, x, p)
      BY <1>6, <2>2 DEF CopyFile
    <3> QED
      BY <1>7, <2>2, <3>1 DEF Execute
  <2>3. CASE c.op = "WORKDIR"
    BY <1>7, <2>3 DEF Execute
  <2>4. CASE c.op = "ENV"
    BY <2>4 DEF Execute
  <2>5. c.op \in {"RUN", "COPY", "WORKDIR", "ENV"}
    BY <1>0, JobAssumption DEF IsCommand, c
  <2> QED
    BY <2>1, <2>2, <2>3, <2>4, <2>5
<1>9. ASSUME Same(j, n - 1, k, m - 1) PROVE Same(j, n, k, m)
  <2>1. e = f /\ Meaning[j][n - 1].fs = Meaning[k][m - 1].fs
    BY <1>9 DEF Same, e, f
  <2>2. Execute(j, c, Meaning[j][n - 1].fs, e) = Execute(k, c, Meaning[j][n - 1].fs, f)
    BY <1>8, <2>1
  <2> QED
    BY <1>3, <1>6, <2>1, <2>2 DEF Same
<1>10. Named(j, n) = Named(k, m)
  BY <1>6, <1>7 DEF Named, c, d
<1> QED
  BY <1>6, <1>9, <1>10 DEF s, t

(***************************************************************************)
(* optimize may trust a key: where it is equal, command, base and all      *)
(* before the command are.                                                 *)
(***************************************************************************)
LEMMA EqualKeysAreSame ==
    ASSUME TextsTell(Job), NEW j \in Job, NEW k \in Job,
           NEW n \in 0 .. Len(j.cmds), NEW m \in 0 .. Len(k.cmds),
           Meaning[j][n].key = Meaning[k][m].key
    PROVE  Same(j, n, k, m)
<1> DEFINE Ok(i) == i \in 0 .. Len(j.cmds) =>
                      \A h \in 0 .. Len(k.cmds) :
                          Meaning[j][i].key = Meaning[k][h].key => Same(j, i, k, h)
           T == {i \in Nat : ~Ok(i)}
<1>0. Len(j.cmds) \in Nat /\ Len(k.cmds) \in Nat
  BY JobCmds
<1> SUFFICES ASSUME T # {} PROVE FALSE
  BY <1>0
<1>1. PICK i \in T : \A h \in T : ~(<<h, i>> \in OpToRel(<, Nat))
  <2>1. T \subseteq Nat /\ T # {}
    OBVIOUS
  <2> HIDE DEF T
  <2> QED
    BY <2>1, NatLessThanWellFounded, WFMin
<1>2. PICK h \in 0 .. Len(k.cmds) :
        /\ i \in 0 .. Len(j.cmds) /\ i \in Nat
        /\ Meaning[j][i].key = Meaning[k][h].key /\ ~Same(j, i, k, h)
  OBVIOUS
<1>3. CASE i = 0 /\ h = 0
  <2>1. <<j.base>> = <<k.base>>
    BY <1>2, <1>3, MeaningSteps
  <2>2. j.base = k.base
    BY <2>1
  <2>3. /\ Meaning[j][0].fs = BaseTree[j.base] /\ Meaning[j][0].env = None
        /\ Meaning[k][0].fs = BaseTree[k.base] /\ Meaning[k][0].env = None
    BY MeaningSteps
  <2> QED
    BY <1>2, <1>3, <2>2, <2>3 DEF Same
<1>4. CASE i = 0 /\ h # 0
  <2>1. h \in Nat /\ h > 0
    BY <1>0, <1>2, <1>4
  <2>3. Len(Meaning[k][h].key) > h
    BY <1>2, KeyHasWords
  <2>2. Meaning[k][h].key = <<j.base>>
    BY <1>2, <1>4, MeaningSteps
  <2> QED
    BY <2>1, <2>2, <2>3
<1>5. CASE i # 0 /\ h = 0
  <2>1. i \in Nat /\ i > 0
    BY <1>0, <1>2, <1>5
  <2>3. Len(Meaning[j][i].key) > i
    BY <1>2, KeyHasWords
  <2>2. Meaning[j][i].key = <<k.base>>
    BY <1>2, <1>5, MeaningSteps
  <2> QED
    BY <2>1, <2>2, <2>3
<1>6. CASE i # 0 /\ h # 0
  <2>1. i \in 1 .. Len(j.cmds) /\ h \in 1 .. Len(k.cmds)
    BY <1>0, <1>2, <1>6
  <2>2. /\ Meaning[j][i - 1].key = Meaning[k][h - 1].key
        /\ Same(j, i - 1, k, h - 1) => Same(j, i, k, h)
    BY <1>2, <2>1, StepIsSame
  <2>3. i - 1 \in 0 .. Len(j.cmds) /\ h - 1 \in 0 .. Len(k.cmds) /\ i - 1 \in Nat /\ i - 1 < i
    BY <1>0, <2>1
  <2>4. <<i - 1, i>> \in OpToRel(<, Nat)
    BY <1>2, <2>3 DEF OpToRel
  <2>5. i - 1 \notin T
    BY <1>1, <2>4
  <2>6. Same(j, i - 1, k, h - 1)
    BY <2>2, <2>3, <2>5
  <2> QED
    BY <1>2, <2>2, <2>6
<1> QED
  BY <1>3, <1>4, <1>5, <1>6

(***************************************************************************)
(* populateCompositeKey leaves out nothing: commands of two Dockerfiles    *)
(* that have the same key do the same to the same files, if only their     *)
(* texts say what they do.                                                 *)
(***************************************************************************)
THEOREM KeysTellCommands == ASSUME TextsTell(Job) PROVE KeysTell(Job)
<1> SUFFICES ASSUME NEW j \in Job, NEW k \in Job, NEW n \in DOMAIN j.cmds, NEW m \in DOMAIN k.cmds,
                    Meaning[j][n].key = Meaning[k][m].key
             PROVE  /\ Meaning[j][n - 1].fs = Meaning[k][m - 1].fs
                    /\ Meaning[j][n].fs = Meaning[k][m].fs
                    /\ Named(j, n) = Named(k, m)
  BY DEF KeysTell
<1>1. n \in 1 .. Len(j.cmds) /\ m \in 1 .. Len(k.cmds)
  BY JobCmds
<1>2. /\ Meaning[j][n - 1].key = Meaning[k][m - 1].key
      /\ Same(j, n - 1, k, m - 1) => Same(j, n, k, m)
      /\ Named(j, n) = Named(k, m)
  BY <1>1, StepIsSame
<1>3. n - 1 \in 0 .. Len(j.cmds) /\ m - 1 \in 0 .. Len(k.cmds)
  BY <1>1, JobCmds
<1>4. Same(j, n - 1, k, m - 1)
  BY <1>2, <1>3, EqualKeysAreSame
<1> QED
  BY <1>2, <1>4 DEF Same

-----------------------------------------------------------------------------
(***************************************************************************)
(* The inductive invariant.                                                *)
(***************************************************************************)
Keys == UNION {{Meaning[j][n].key : n \in 0 .. Len(j.cmds)} : j \in Job}

Types ==
    /\ job \in [Builder -> Job]
    /\ pc \in [Builder -> {"optimize", "build", "done", "failed"}]
    /\ index \in [Builder -> Nat]
    /\ lookups \in [Builder -> Seq(Keys)]
    /\ DOMAIN compositeKey = Builder
    /\ DOMAIN env = Builder
    /\ DOMAIN cached = Builder
    /\ DOMAIN pushes = Builder
    /\ lost \in [Builder -> BOOLEAN]

(***************************************************************************)
(* Both passes know the environment and the key of the commands they are   *)
(* past; the first pass has looked up the keys of those commands.          *)
(***************************************************************************)
Walk(b) ==
    /\ index[b] \in 1 .. Len(job[b].cmds) + 1
    /\ env[b] = Meaning[job[b]][index[b] - 1].env
    /\ job[b].Cache => compositeKey[b] = Meaning[job[b]][index[b] - 1].key
    /\ pc[b] = "optimize" => Len(lookups[b]) = index[b] - 1
    /\ pc[b] # "optimize" /\ job[b].Cache => Len(lookups[b]) = Len(job[b].cmds)
    /\ Len(lookups[b]) <= Len(job[b].cmds)
    /\ \A n \in 1 .. Len(lookups[b]) : lookups[b][n] = Meaning[job[b]][n].key

(***************************************************************************)
(* A command that is replaced is one that is cached, and its layer was     *)
(* found under its key.                                                    *)
(***************************************************************************)
Replaced(b) ==
    /\ DOMAIN cached[b] = 1 .. Len(job[b].cmds)
    /\ \A n \in 1 .. Len(job[b].cmds) : cached[b][n] # None =>
         /\ ShouldCacheOutput(job[b], job[b].cmds[n])
         /\ Meaning[job[b]][n].key \in DOMAIN registry

(***************************************************************************)
(* The layers of the commands that the second pass is past are in the      *)
(* cache or on their way, and it does not end before they are there.       *)
(***************************************************************************)
Filled(b) ==
    /\ /\ pc[b] \in {"build", "done"} /\ ~lost[b]
       /\ job[b].Cache /\ ~job[b].NoPushCache /\ ~job[b].SingleSnapshot
       => \A n \in 1 .. Len(job[b].cmds) :
            n < index[b] /\ ShouldCacheOutput(job[b], job[b].cmds[n]) =>
               \/ Meaning[job[b]][n].key \in DOMAIN registry
               \/ \E e \in pushes[b] : e.key = Meaning[job[b]][n].key
    /\ pc[b] = "done" => index[b] > Len(job[b].cmds) /\ pushes[b] = {}

IInv == Types /\ \A b \in Builder : Walk(b) /\ Replaced(b) /\ Filled(b)

(***************************************************************************)
(* What a builder is at the start.                                         *)
(***************************************************************************)
LEMMA InitIInv == Init => IInv
<1> SUFFICES ASSUME Init PROVE IInv
  OBVIOUS
<1>1. Types
  BY DEF Init, Types
<1>2. ASSUME NEW b \in Builder PROVE Walk(b) /\ Replaced(b) /\ Filled(b)
  <2>1. job[b] \in Job /\ Len(job[b].cmds) \in Nat \ {0}
        /\ DOMAIN job[b].cmds = 1 .. Len(job[b].cmds)
    BY JobCmds DEF Init
  <2>2. index[b] = 1 /\ env[b] = None /\ compositeKey[b] = <<job[b].base>>
        /\ lookups[b] = << >> /\ pc[b] = "optimize"
        /\ cached[b] = [i \in DOMAIN job[b].cmds |-> None]
    BY DEF Init
  <2>3. Walk(b)
    BY <2>1, <2>2, MeaningSteps DEF Walk
  <2>4. Replaced(b)
    BY <2>1, <2>2 DEF Replaced
  <2>5. Filled(b)
    BY <2>2 DEF Filled
  <2> QED
    BY <2>3, <2>4, <2>5
<1> QED
  BY <1>1, <1>2 DEF IInv

(***************************************************************************)
(* The keys of a job.                                                      *)
(***************************************************************************)
LEMMA KeyOf ==
    ASSUME NEW j \in Job, NEW n \in 0 .. Len(j.cmds)
    PROVE  Meaning[j][n].key \in Keys
BY DEF Keys

(***************************************************************************)
(* A step of one builder leaves the others alone, and the cache only gets  *)
(* more keys.                                                              *)
(***************************************************************************)
Others(b) ==
    /\ job' = job
    /\ DOMAIN registry \subseteq DOMAIN registry'
    /\ \A c \in Builder \ {b} :
         /\ pc'[c] = pc[c] /\ index'[c] = index[c] /\ compositeKey'[c] = compositeKey[c]
         /\ lookups'[c] = lookups[c] /\ env'[c] = env[c] /\ cached'[c] = cached[c]
         /\ pushes'[c] = pushes[c] /\ lost'[c] = lost[c]

(***************************************************************************)
(* It is enough to look at the builder that takes the step.                *)
(***************************************************************************)
LEMMA OneBuilder ==
    ASSUME IInv, NEW b \in Builder, Types', Others(b), Walk(b)', Replaced(b)', Filled(b)'
    PROVE  IInv'
<1> SUFFICES ASSUME NEW c \in Builder, c # b PROVE Walk(c)' /\ Replaced(c)' /\ Filled(c)'
  BY DEF IInv
<1>1. Walk(c)'
  <2>1. Walk(c)
    BY DEF IInv
  <2>2. /\ job'[c] = job[c] /\ pc'[c] = pc[c] /\ index'[c] = index[c]
        /\ compositeKey'[c] = compositeKey[c] /\ lookups'[c] = lookups[c] /\ env'[c] = env[c]
    BY DEF Others
  <2> QED
    BY <2>1, <2>2, Zenon DEF Walk
<1>2. Replaced(c)'
  BY DEF IInv, Others, Replaced
<1>3. Filled(c)'
  <2>1. Filled(c)
    BY DEF IInv
  <2>2. /\ job'[c] = job[c] /\ pc'[c] = pc[c] /\ index'[c] = index[c]
        /\ pushes'[c] = pushes[c] /\ lost'[c] = lost[c] /\ DOMAIN registry \subseteq DOMAIN registry'
    BY DEF Others
  <2> QED
    BY <2>1, <2>2, Zenon DEF Filled
<1> QED
  BY <1>1, <1>2, <1>3

(***************************************************************************)
(* What is known of the command a builder is at.                           *)
(***************************************************************************)
LEMMA AtCommand ==
    ASSUME IInv, NEW b \in Builder
    PROVE  /\ job[b] \in Job
           /\ Len(job[b].cmds) \in Nat \ {0}
           /\ DOMAIN job[b].cmds = 1 .. Len(job[b].cmds)
           /\ index[b] \in Nat \ {0}
           /\ index[b] <= Len(job[b].cmds) + 1
           /\ index[b] <= Len(job[b].cmds) =>
                /\ index[b] \in 1 .. Len(job[b].cmds)
                /\ Meaning[job[b]][index[b]].env = EnvAfter(job[b].cmds[index[b]], env[b])
                /\ job[b].Cache =>
                     /\ Meaning[job[b]][index[b]].key = populateCompositeKey(
                            compositeKey[b], job[b], job[b].cmds[index[b]], env[b])
                     /\ Meaning[job[b]][index[b]].key \in Keys
<1>1. job[b] \in Job /\ Walk(b) /\ index[b] \in Nat
  BY DEF IInv, Types
<1>2. Len(job[b].cmds) \in Nat \ {0} /\ DOMAIN job[b].cmds = 1 .. Len(job[b].cmds)
  BY <1>1, JobCmds
<1>3. index[b] \in Nat \ {0} /\ index[b] <= Len(job[b].cmds) + 1
  BY <1>1, <1>2 DEF Walk
<1>4. ASSUME index[b] <= Len(job[b].cmds)
      PROVE  /\ index[b] \in 1 .. Len(job[b].cmds)
             /\ Meaning[job[b]][index[b]].env = EnvAfter(job[b].cmds[index[b]], env[b])
             /\ job[b].Cache =>
                     /\ Meaning[job[b]][index[b]].key = populateCompositeKey(
                            compositeKey[b], job[b], job[b].cmds[index[b]], env[b])
                     /\ Meaning[job[b]][index[b]].key \in Keys
  <2>1. index[b] \in 1 .. Len(job[b].cmds) /\ index[b] \in 0 .. Len(job[b].cmds)
    BY <1>2, <1>3, <1>4
  <2>2. Meaning[job[b]][index[b]].key \in Keys
    BY <1>1, <2>1, KeyOf
  <2>3. /\ env[b] = Meaning[job[b]][index[b] - 1].env
        /\ job[b].Cache => compositeKey[b] = Meaning[job[b]][index[b] - 1].key
    BY <1>1, Zenon DEF Walk
  <2>4. /\ Meaning[job[b]][index[b]].env
              = EnvAfter(job[b].cmds[index[b]], Meaning[job[b]][index[b] - 1].env)
        /\ Meaning[job[b]][index[b]].key = populateCompositeKey(
                Meaning[job[b]][index[b] - 1].key, job[b], job[b].cmds[index[b]],
                Meaning[job[b]][index[b] - 1].env)
    BY <1>1, <2>1, MeaningSteps, Zenon
  <2> QED
    BY <2>1, <2>2, <2>3, <2>4, Zenon
<1> QED
  BY <1>1, <1>2, <1>3, <1>4

-----------------------------------------------------------------------------
(***************************************************************************)
(* The first pass: the key that is looked up is the key of the command.    *)
(***************************************************************************)
LEMMA OptimizeStep ==
    ASSUME IInv, NEW b \in Builder, optimize(b)
    PROVE  IInv'
<1> DEFINE j == job[b]
           i == index[b]
           k == Meaning[j][i].key
<1>1. /\ j \in Job /\ Len(j.cmds) \in Nat \ {0} /\ i \in 1 .. Len(j.cmds) /\ i \in Nat
      /\ j.Cache /\ pc[b] = "optimize" /\ k \in Keys
      /\ k = populateCompositeKey(compositeKey[b], j, j.cmds[i], env[b])
      /\ Meaning[j][i].env = EnvAfter(j.cmds[i], env[b])
  BY AtCommand DEF optimize
<1> HIDE DEF k
<1>2. PICK image \in IF looksUp(j, j.cmds[i], stopCache[b]) THEN RetrieveLayer(k) ELSE {None} :
          cached' = [cached EXCEPT ![b][i] = image]
  BY <1>1 DEF optimize
<1>3. image # None => ShouldCacheOutput(j, j.cmds[i]) /\ k \in DOMAIN registry
  BY <1>2 DEF looksUp, RetrieveLayer
<1>4. /\ compositeKey' = [compositeKey EXCEPT ![b] = k]
      /\ lookups' = [lookups EXCEPT ![b] = Append(lookups[b], k)]
      /\ env' = [env EXCEPT ![b] = Meaning[j][i].env]
      /\ index' = [index EXCEPT ![b] = i + 1]
      /\ UNCHANGED <<job, pc, pushes, registry, lost>>
  BY <1>1 DEF optimize, optimizedEnv
<1>5. lookups[b] \in Seq(Keys) /\ Len(lookups[b]) = i - 1
  BY <1>1 DEF IInv, Types, Walk
<1>6. /\ Append(lookups[b], k) \in Seq(Keys)
      /\ Len(Append(lookups[b], k)) = i
      /\ \A n \in 1 .. i : Append(lookups[b], k)[n] = IF n = i THEN k ELSE lookups[b][n]
  BY <1>1, <1>5, AppendProperties
<1>7. Types'
  BY <1>1, <1>2, <1>4, <1>6 DEF IInv, Types
<1>8. Others(b)
  BY <1>2, <1>4 DEF IInv, Types, Others
<1>9. Walk(b)'
  <2>1. /\ index'[b] = i + 1 /\ env'[b] = Meaning[j][i].env /\ compositeKey'[b] = k
        /\ lookups'[b] = Append(lookups[b], k) /\ job' = job /\ pc' = pc
    BY <1>4 DEF IInv, Types
  <2>2. \A n \in 1 .. i : n # i => lookups[b][n] = Meaning[j][n].key
    <3>1. \A n \in 1 .. Len(lookups[b]) : lookups[b][n] = Meaning[j][n].key
      BY DEF IInv, Walk
    <3>2. \A n \in 1 .. i : n # i => n \in 1 .. Len(lookups[b])
      BY <1>1, <1>5
    <3> QED
      BY <3>1, <3>2
  <2>3. \A n \in 1 .. i : Append(lookups[b], k)[n] = Meaning[j][n].key
    BY <1>6, <2>2 DEF k
  <2>4. i + 1 \in 1 .. Len(j.cmds) + 1 /\ (i + 1) - 1 = i /\ i <= Len(j.cmds)
    BY <1>1
  <2>5. /\ index'[b] \in 1 .. Len(job'[b].cmds) + 1 /\ index'[b] - 1 = i /\ job'[b] = j
        /\ pc'[b] = "optimize" /\ Len(lookups'[b]) = i
    BY <1>1, <1>6, <2>1, <2>4
  <2>6. \A n \in 1 .. Len(lookups'[b]) : lookups'[b][n] = Meaning[job'[b]][n].key
    BY <2>1, <2>3, <2>5
  <2>7. /\ env'[b] = Meaning[job'[b]][index'[b] - 1].env
        /\ compositeKey'[b] = Meaning[job'[b]][index'[b] - 1].key
    BY <2>1, <2>5 DEF k
  <2> HIDE DEF i, j
  <2>8. Len(lookups'[b]) <= Len(job'[b].cmds)
    BY <2>4, <2>5
  <2> QED
    BY <2>5, <2>6, <2>7, <2>8 DEF Walk
<1>10. Replaced(b)'
  <2>1. DOMAIN cached[b] = 1 .. Len(j.cmds) /\ DOMAIN cached = Builder
    BY DEF IInv, Types, Replaced
  <2>2. \A n \in 1 .. Len(j.cmds) : cached'[b][n] = IF n = i THEN image ELSE cached[b][n]
    BY <1>2, <2>1
  <2>3. DOMAIN cached'[b] = 1 .. Len(j.cmds)
    BY <1>2, <2>1
  <2> QED
    BY <1>1, <1>3, <1>4, <2>2, <2>3 DEF IInv, Replaced, k
<1>11. Filled(b)'
  BY <1>1, <1>4 DEF Filled
<1> QED
  BY <1>7, <1>8, <1>9, <1>10, <1>11, OneBuilder

(***************************************************************************)
(* Between the passes everything but the lookups starts again.             *)
(***************************************************************************)
LEMMA UnpackStep ==
    ASSUME IInv, NEW b \in Builder, unpack(b)
    PROVE  IInv'
<1> DEFINE j == job[b]
<1>1. /\ j \in Job /\ Len(j.cmds) \in Nat \ {0} /\ index[b] \in Nat
      /\ index[b] <= Len(j.cmds) + 1
  BY AtCommand
<1>2. /\ pc[b] = "optimize" /\ (j.Cache => index[b] > Len(j.cmds))
      /\ pc' = [pc EXCEPT ![b] = "build"]
      /\ index' = [index EXCEPT ![b] = 1]
      /\ compositeKey' = [compositeKey EXCEPT ![b] = <<j.base>>]
      /\ env' = [env EXCEPT ![b] = None]
      /\ UNCHANGED <<job, lookups, cached, pushes, registry, lost>>
  BY DEF unpack
<1>3. Types' /\ Others(b)
  BY <1>2 DEF IInv, Types, Others
<1>4. pc'[b] = "build" /\ index'[b] = 1 /\ compositeKey'[b] = <<j.base>> /\ env'[b] = None
  BY <1>2 DEF IInv, Types
<1>5. j.Cache => Len(lookups[b]) = Len(j.cmds)
  <2>1. Len(lookups[b]) = index[b] - 1
    BY <1>2 DEF IInv, Walk
  <2> QED
    BY <1>1, <1>2, <2>1
<1>6. Walk(b)'
  <2>1. Meaning[j][0].key = <<j.base>> /\ Meaning[j][0].env = None
    BY <1>1, MeaningSteps
  <2>2. 1 \in 1 .. Len(j.cmds) + 1 /\ 1 - 1 = 0
    BY <1>1
  <2>3. Walk(b)
    BY DEF IInv
  <2> QED
    BY <1>2, <1>4, <1>5, <2>1, <2>2, <2>3 DEF Walk
<1>7. Replaced(b)'
  BY <1>2 DEF IInv, Replaced
<1>8. Filled(b)'
  BY <1>1, <1>2, <1>4 DEF Filled
<1> QED
  BY <1>3, <1>6, <1>7, <1>8, OneBuilder

(***************************************************************************)
(* A step of the second pass over one command: the key and the environment *)
(* move on with it.                                                        *)
(***************************************************************************)
LEMMA BuildStep ==
    ASSUME IInv, NEW b \in Builder, pc[b] = "build", index[b] <= Len(job[b].cmds),
           job[b].Cache => compositeKey'[b] = Meaning[job[b]][index[b]].key,
           DOMAIN compositeKey' = Builder,
           \A c \in Builder \ {b} : compositeKey'[c] = compositeKey[c],
           env'[b] = Meaning[job[b]][index[b]].env,
           DOMAIN env' = Builder,
           \A c \in Builder \ {b} : env'[c] = env[c],
           index' = [index EXCEPT ![b] = index[b] + 1],
           DOMAIN pushes' = Builder,
           \A c \in Builder \ {b} : pushes'[c] = pushes[c],
           pushes[b] \subseteq pushes'[b],
           /\ job[b].Cache /\ ~job[b].NoPushCache /\ ~job[b].SingleSnapshot
           /\ ShouldCacheOutput(job[b], job[b].cmds[index[b]])
           => \/ Meaning[job[b]][index[b]].key \in DOMAIN registry
              \/ \E e \in pushes'[b] : e.key = Meaning[job[b]][index[b]].key,
           UNCHANGED <<job, pc, lookups, cached, registry, lost>>
    PROVE  IInv'
<1>1. /\ job[b] \in Job /\ Len(job[b].cmds) \in Nat \ {0}
      /\ index[b] \in 1 .. Len(job[b].cmds) /\ index[b] \in Nat
  BY AtCommand
<1>2. index'[b] = index[b] + 1
  BY DEF IInv, Types
<1>3. Types' /\ Others(b)
  BY <1>1 DEF IInv, Types, Others
<1>4. Walk(b)'
  BY <1>1, <1>2 DEF IInv, Walk
<1>5. Replaced(b)'
  BY DEF IInv, Replaced
<1>6. Filled(b)'
  <2>1. Filled(b)
    BY DEF IInv
  <2>2. \A n \in 1 .. Len(job[b].cmds) : n < index[b] + 1 => n < index[b] \/ n = index[b]
    BY <1>1
  <2> QED
    BY <1>1, <1>2, <2>1, <2>2 DEF Filled
<1> QED
  BY <1>3, <1>4, <1>5, <1>6, OneBuilder

(***************************************************************************)
(* A command that is replaced by its layer is none that sets variables.    *)
(***************************************************************************)
LEMMA BuildCachedStep ==
    ASSUME IInv, NEW b \in Builder, buildCached(b)
    PROVE  IInv'
<1> DEFINE j == job[b]
           i == index[b]
<1>1. /\ pc[b] = "build" /\ i <= Len(j.cmds) /\ cached[b][i] # None
      /\ compositeKey' = [compositeKey EXCEPT
              ![b] = populateCompositeKey(compositeKey[b], j, j.cmds[i], env[b])]
      /\ index' = [index EXCEPT ![b] = i + 1]
      /\ UNCHANGED <<job, pc, lookups, env, cached, pushes, registry, lost>>
  BY DEF buildCached
<1>2. /\ i \in 1 .. Len(j.cmds)
      /\ Meaning[j][i].env = EnvAfter(j.cmds[i], env[b])
      /\ j.Cache => Meaning[j][i].key =
                      populateCompositeKey(compositeKey[b], j, j.cmds[i], env[b])
  BY <1>1, AtCommand
<1>3. ShouldCacheOutput(j, j.cmds[i]) /\ Meaning[j][i].key \in DOMAIN registry
  BY <1>1, <1>2 DEF IInv, Replaced
<1>4. EnvAfter(j.cmds[i], env[b]) = env[b]
  BY <1>3 DEF ShouldCacheOutput, EnvAfter, MetadataOnly
<1>5. /\ j.Cache => compositeKey'[b] = Meaning[j][i].key
      /\ DOMAIN compositeKey' = Builder
      /\ \A c \in Builder \ {b} : compositeKey'[c] = compositeKey[c]
  BY <1>1, <1>2 DEF IInv, Types
<1>6. DOMAIN env = Builder /\ DOMAIN pushes = Builder
  BY DEF IInv, Types
<1> QED
  BY <1>1, <1>2, <1>3, <1>4, <1>5, <1>6, BuildStep

(***************************************************************************)
(* A command that is executed: its layer goes to the cache under its key.  *)
(***************************************************************************)
LEMMA BuildCommandStep ==
    ASSUME IInv, NEW b \in Builder, buildCommand(b)
    PROVE  IInv'
<1> DEFINE j == job[b]
           i == index[b]
           key == IF j.Cache THEN populateCompositeKey(compositeKey[b], j, j.cmds[i], env[b])
                  ELSE compositeKey[b]
<1>1. /\ pc[b] = "build" /\ i <= Len(j.cmds)
      /\ compositeKey' = [compositeKey EXCEPT ![b] = key]
      /\ env' = [env EXCEPT ![b] = EnvAfter(j.cmds[i], env[b])]
      /\ index' = [index EXCEPT ![b] = i + 1]
      /\ UNCHANGED <<job, pc, lookups, cached, registry, lost>>
  BY DEF buildCommand
<1>2. \/ pushes' = pushes
      \/ \E layer : pushes' = [pushes EXCEPT
                       ![b] = pushes[b] \cup {[key |-> key, layer |-> layer]}]
  BY DEF buildCommand
<1>3. shouldTakeSnapshot(j, i) /\ pushesLayer(j, j.cmds[i]) =>
        \E layer : pushes' = [pushes EXCEPT
                       ![b] = pushes[b] \cup {[key |-> key, layer |-> layer]}]
  BY DEF buildCommand
<1>4. /\ i \in 1 .. Len(j.cmds)
      /\ Meaning[j][i].env = EnvAfter(j.cmds[i], env[b])
      /\ j.Cache => Meaning[j][i].key = key
  BY <1>1, AtCommand
<1>5. j.Cache /\ ~j.SingleSnapshot => shouldTakeSnapshot(j, i)
  BY DEF shouldTakeSnapshot
<1>6. j.Cache /\ ~j.NoPushCache /\ ShouldCacheOutput(j, j.cmds[i]) => pushesLayer(j, j.cmds[i])
  BY DEF pushesLayer
<1> HIDE DEF key
<1>7. DOMAIN compositeKey = Builder /\ DOMAIN env = Builder /\ DOMAIN pushes = Builder
  BY DEF IInv, Types
<1>8. /\ DOMAIN pushes' = Builder
      /\ \A c \in Builder \ {b} : pushes'[c] = pushes[c]
      /\ pushes[b] \subseteq pushes'[b]
  BY <1>2, <1>7
<1>9. /\ j.Cache /\ ~j.NoPushCache /\ ~j.SingleSnapshot /\ ShouldCacheOutput(j, j.cmds[i])
      => \E e \in pushes'[b] : e.key = Meaning[j][i].key
  <2> SUFFICES ASSUME j.Cache, ~j.NoPushCache, ~j.SingleSnapshot,
                      ShouldCacheOutput(j, j.cmds[i])
               PROVE  \E e \in pushes'[b] : e.key = Meaning[j][i].key
    OBVIOUS
  <2>1. PICK layer : pushes' = [pushes EXCEPT
                       ![b] = pushes[b] \cup {[key |-> key, layer |-> layer]}]
    BY <1>3, <1>5, <1>6
  <2>2. [key |-> key, layer |-> layer] \in pushes'[b]
    BY <1>7, <2>1
  <2>3. [key |-> key, layer |-> layer].key = Meaning[j][i].key
    BY <1>4
  <2> QED
    BY <2>2, <2>3
<1>10. /\ j.Cache => compositeKey'[b] = Meaning[j][i].key
       /\ DOMAIN compositeKey' = Builder
       /\ \A c \in Builder \ {b} : compositeKey'[c] = compositeKey[c]
       /\ env'[b] = Meaning[j][i].env
       /\ DOMAIN env' = Builder
       /\ \A c \in Builder \ {b} : env'[c] = env[c]
  BY <1>1, <1>4, <1>7
<1> QED
  BY <1>1, <1>8, <1>9, <1>10, BuildStep

(***************************************************************************)
(* A build that fails keeps what is known of its keys.                     *)
(***************************************************************************)
LEMMA CommandFailsStep ==
    ASSUME IInv, NEW b \in Builder, commandFails(b)
    PROVE  IInv'
<1>1. /\ pc' = [pc EXCEPT ![b] = "failed"]
      /\ pushes' = [pushes EXCEPT ![b] = {}]
      /\ UNCHANGED <<job, index, compositeKey, lookups, env, cached, registry, lost>>
      /\ \/ pc[b] = "optimize" /\ (job[b].Cache => index[b] > Len(job[b].cmds))
         \/ pc[b] = "build"
  BY DEF commandFails
<1>2. Types' /\ Others(b) /\ pc'[b] = "failed"
  BY <1>1 DEF IInv, Types, Others
<1>3. job[b].Cache => Len(lookups[b]) = Len(job[b].cmds)
  <2>1. CASE pc[b] = "build"
    BY <2>1 DEF IInv, Walk
  <2>2. CASE pc[b] = "optimize" /\ (job[b].Cache => index[b] > Len(job[b].cmds))
    <3>1. Len(lookups[b]) = index[b] - 1
      BY <2>2 DEF IInv, Walk
    <3> QED
      BY <2>2, <3>1, AtCommand
  <2> QED
    BY <1>1, <2>1, <2>2
<1>4. Walk(b)'
  BY <1>1, <1>2, <1>3 DEF IInv, Walk
<1>5. Replaced(b)'
  BY <1>1 DEF IInv, Replaced
<1>6. Filled(b)'
  BY <1>2 DEF Filled
<1> QED
  BY <1>2, <1>4, <1>5, <1>6, OneBuilder

(***************************************************************************)
(* The end of a build.                                                     *)
(***************************************************************************)
LEMMA WaitStep ==
    ASSUME IInv, NEW b \in Builder, wait(b)
    PROVE  IInv'
<1>1. /\ pc' = [pc EXCEPT ![b] = "done"] /\ pc[b] = "build"
      /\ index[b] > Len(job[b].cmds) /\ pushes[b] = {}
      /\ UNCHANGED <<job, index, compositeKey, lookups, env, cached, pushes, registry, lost>>
  BY DEF wait
<1>2. Types' /\ Others(b) /\ pc'[b] = "done"
  BY <1>1 DEF IInv, Types, Others
<1>3. Walk(b)'
  BY <1>1, <1>2 DEF IInv, Walk
<1>4. Replaced(b)'
  BY <1>1 DEF IInv, Replaced
<1>5. Filled(b)'
  BY <1>1, <1>2 DEF IInv, Filled
<1> QED
  BY <1>2, <1>3, <1>4, <1>5, OneBuilder

(***************************************************************************)
(* A push that ends has put its key into the cache or is lost.             *)
(***************************************************************************)
LEMMA PushStep ==
    ASSUME IInv, NEW b \in Builder, NEW e \in pushes[b], pushLayerToCache(b, e)
    PROVE  IInv'
<1>1. /\ pushes' = [pushes EXCEPT ![b] = pushes[b] \ {e}]
      /\ UNCHANGED <<job, pc, index, compositeKey, lookups, env, cached>>
  BY DEF pushLayerToCache
<1>2. \/ DOMAIN registry' = DOMAIN registry \cup {e.key} /\ lost' = lost
      \/ registry' = registry /\ lost' = [lost EXCEPT ![b] = TRUE]
  BY DEF pushLayerToCache
<1>3. Types' /\ Others(b)
  BY <1>1, <1>2 DEF IInv, Types, Others
<1>4. Walk(b)'
  BY <1>1 DEF IInv, Walk
<1>5. Replaced(b)'
  BY <1>1, <1>2 DEF IInv, Replaced
<1>6. pushes'[b] = pushes[b] \ {e}
  BY <1>1 DEF IInv, Types
<1>7. lost'[b] \/ (lost' = lost /\ DOMAIN registry' = DOMAIN registry \cup {e.key})
  BY <1>2 DEF IInv, Types
<1>8. Filled(b)'
  BY <1>1, <1>6, <1>7 DEF IInv, Filled
<1> QED
  BY <1>3, <1>4, <1>5, <1>8, OneBuilder

(***************************************************************************)
(* Every step keeps the invariant.                                         *)
(***************************************************************************)
LEMMA NextIInv == IInv /\ [Next]_vars => IInv'
<1> SUFFICES ASSUME IInv, [Next]_vars PROVE IInv'
  OBVIOUS
<1>1. CASE UNCHANGED vars
  BY <1>1 DEF vars, IInv, Types, Walk, Replaced, Filled
<1>2. ASSUME NEW b \in Builder, build(b) PROVE IInv'
  BY <1>2, UnpackStep, BuildCachedStep, CommandFailsStep, BuildCommandStep, WaitStep DEF build
<1> QED
  BY <1>1, <1>2, OptimizeStep, PushStep DEF Next

-----------------------------------------------------------------------------
(***************************************************************************)
(* For any number of builders, Dockerfiles and flags: the key that a build *)
(* computes for a command when it executes it, or takes it from the cache, *)
(* is the key that its optimize pass looked up (populateCompositeKey,      *)
(* called from optimize and from build).                                   *)
(***************************************************************************)
THEOREM PassesAgreeOnKeys == Spec => []KeysAgree
<1>1. IInv => KeysAgree
  <2> SUFFICES ASSUME IInv, NEW b \in Builder,
                      pc[b] = "build", job[b].Cache, index[b] > 1
               PROVE  compositeKey[b] = lookups[b][index[b] - 1]
    BY DEF KeysAgree
  <2>1. index[b] \in Nat /\ index[b] <= Len(job[b].cmds) + 1 /\ Len(job[b].cmds) \in Nat
    BY AtCommand
  <2>2. Len(lookups[b]) = Len(job[b].cmds) /\ Walk(b)
    BY DEF IInv, Walk
  <2>3. index[b] - 1 \in 1 .. Len(lookups[b])
    BY <2>1, <2>2
  <2> QED
    BY <2>2, <2>3 DEF Walk
<1> QED
  BY InitIInv, NextIInv, <1>1, PTL DEF Spec

(***************************************************************************)
(* For any number of builders that share the cache: when a build is over   *)
(* and none of its pushes was lost, every layer that the next build of the *)
(* Dockerfile asks for is in the cache (cacheGroup.Wait in build).         *)
(***************************************************************************)
THEOREM BuildsFillTheCache == Spec => []CacheIsFilled
<1>1. IInv => CacheIsFilled
  <2> SUFFICES ASSUME IInv, NEW b \in Builder,
                      pc[b] = "done", ~lost[b], job[b].Cache, ~job[b].NoPushCache,
                      ~job[b].SingleSnapshot, NEW n \in DOMAIN job[b].cmds,
                      ShouldCacheOutput(job[b], job[b].cmds[n])
               PROVE  Meaning[job[b]][n].key \in DOMAIN registry
    BY DEF CacheIsFilled
  <2>1. /\ n \in 1 .. Len(job[b].cmds) /\ Len(job[b].cmds) \in Nat /\ index[b] \in Nat
    BY AtCommand
  <2>2. Filled(b) /\ index[b] > Len(job[b].cmds) /\ pushes[b] = {}
    BY DEF IInv, Filled
  <2>3. n < index[b]
    BY <2>1, <2>2
  <2> QED
    BY <2>1, <2>2, <2>3 DEF Filled
<1> QED
  BY InitIInv, NextIInv, <1>1, PTL DEF Spec

-----------------------------------------------------------------------------
(***************************************************************************)
(* The file systems.  M(j, n) is what the first n commands of a job make;  *)
(* a layer is right for command n if laid over M(j, n - 1) it gives        *)
(* M(j, n), and if it holds only what the command touches.                 *)
(***************************************************************************)
M(j, n) == Meaning[j][n].fs

AllCopiesFiles == \A j \in Job : CopiesFiles(j)

Right(j, n, layer) ==
    /\ IsDisk(M(j, n))
    /\ ApplyLayer(M(j, n - 1), layer) = M(j, n)
    /\ AllCopiesFiles => layer.adds \subseteq Touched(j, n)

(***************************************************************************)
(* A layer under a key is right for every build that may look the key up.  *)
(***************************************************************************)
RightFor(key, layer) ==
    \A j \in Job : \A n \in 1 .. Len(j.cmds) :
        j.Cache /\ ShouldCacheOutput(j, j.cmds[n]) /\ Meaning[j][n].key = key =>
            Right(j, n, layer)

RightLayers ==
    /\ \A k \in DOMAIN registry : RightFor(k, registry[k])
    /\ \A b \in Builder : \A e \in pushes[b] : e.layer # None => RightFor(e.key, e.layer)

(***************************************************************************)
(* What replaces commands is right, and after the first miss nothing is    *)
(* replaced.                                                               *)
(***************************************************************************)
Missed(j, c, n) == ShouldCacheOutput(j, j.cmds[n]) /\ c[n] = None

Stopped(j, c, atStart, i, stop) ==
    LET N == Len(j.cmds)
    IN /\ \A n \in 1 .. N : c[n] # None => j.Cache /\ Right(j, n, c[n])
       /\ \A n, k \in 1 .. N :
            n < k /\ Missed(j, c, n) /\ (atStart => n < i) => c[k] = None
       /\ atStart => /\ \A n \in 1 .. N : i <= n => c[n] = None
                     /\ \A n \in 1 .. N : n < i /\ Missed(j, c, n) => stop

(***************************************************************************)
(* A build without a file to execute a command on leaves its base packed.  *)
(***************************************************************************)
Unpacked(j, c) ==
    \/ \E i \in 1 .. Len(j.cmds) : c[i] = None /\ RequiresUnpackedFS(j.cmds[i])
    \/ j.crossStageDeps

(***************************************************************************)
(* The file system while the commands are executed: what the Dockerfile    *)
(* says, or, where the base was not unpacked, parts of that.               *)
(***************************************************************************)
PartOf(d, t) ==
    /\ \A p \in Path \ {Root} : d[p] = t[p] \/ d[p] = Absent
    /\ d[Root] = t[Root] \/ d[Root] = NewDir

OnDisk(j, c, i, d) ==
    /\ IsDisk(M(j, i - 1))
    /\ IF Unpacked(j, c) THEN d = M(j, i - 1)
       ELSE d = [p \in Path |-> d[p]] /\ PartOf(d, M(j, i - 1))

(***************************************************************************)
(* The snapshotter's map m about the file system the image had when the    *)
(* last layer was cut: what it records is there, once the base is scanned  *)
(* all of it is recorded, and without a cache all that is not of the base  *)
(* is.                                                                     *)
(***************************************************************************)
Maps(H) ==
    [mode : {"full"}, hasLayer : BOOLEAN, adds : [Path -> H], deletes : SUBSET Path,
     currentImage : [Path -> H], isCurrentImageValid : BOOLEAN, layerHashCache : [Path -> H]]

IsMap(m) == \E H : NoHash \in H /\ m \in Maps(H)

Records(m, d) ==
    \A p \in Path : getCurrentImage(m)[p] # NoHash =>
        Exists(d, p) /\ getCurrentImage(m)[p] = hasher("full", d[p])

Knows(m, d, S) == \A p \in S : Exists(d, p) => getCurrentImage(m)[p] # NoHash

OutOfBase(j) == {p \in Path : ~Exists(BaseTree[j.base], p)}

Tracks(j, m, init, d) ==
    /\ ~j.Cache \/ init => Records(m, d)
    /\ init => Knows(m, d, Path)
    /\ ~j.Cache => Knows(m, d, OutOfBase(j))

Tracked(j, c, i, d, m, init) ==
    /\ j.SingleSnapshot => init
    /\ Unpacked(j, c) => Tracks(j, m, init, IF j.SingleSnapshot /\ i <= Len(j.cmds)
                                            THEN BaseTree[j.base] ELSE d)
    /\ init /\ ~j.SingleSnapshot => \A k \in 1 .. Len(j.cmds) : i <= k => c[k] = None

(***************************************************************************)
(* The layers of the image: each goes from the file system of the command  *)
(* of the layer before to that of its own.                                 *)
(***************************************************************************)
Upto(ls, n) == IF n = 0 THEN 0 ELSE ls[n].cmd

Chain(j, ls) ==
    \A n \in 1 .. Len(ls) :
        /\ ls[n].cmd \in 1 .. Len(j.cmds) /\ Upto(ls, n - 1) < ls[n].cmd
        /\ ApplyLayer(M(j, Upto(ls, n - 1)), ls[n].layer) = M(j, ls[n].cmd)
        /\ ~j.SingleSnapshot /\ AllCopiesFiles =>
             ls[n].layer.adds \subseteq Touched(j, ls[n].cmd)

(***************************************************************************)
(* The commands that the second pass is past and that have no layer        *)
(* changed nothing.                                                        *)
(***************************************************************************)
CaughtUp(j, ls, i) ==
    /\ Upto(ls, Len(ls)) < i
    /\ IF j.SingleSnapshot
       THEN IF i <= Len(j.cmds) THEN ls = << >>
            ELSE M(j, Len(j.cmds)) = M(j, Upto(ls, Len(ls)))
       ELSE \A k \in Upto(ls, Len(ls)) + 1 .. i - 1 : M(j, k) = M(j, Upto(ls, Len(ls)))

(***************************************************************************)
(* A build with what it builds, where it is, and its state.                *)
(***************************************************************************)
IsList(ls) == \E S : ls \in Seq(S)

Fresh(m) == \A p \in Path : getCurrentImage(m)[p] = NoHash

Build(j, at, i, stop, c, d, m, init, ls) ==
    /\ IsList(ls) /\ IsMap(m) /\ Chain(j, ls)
    /\ Stopped(j, c, at = "optimize", i, stop)
    /\ at = "optimize" => ls = << >> /\ Fresh(m)
    /\ at = "build" => OnDisk(j, c, i, d) /\ Tracked(j, c, i, d, m, init) /\ CaughtUp(j, ls, i)
    /\ at = "done" => M(j, Len(j.cmds)) = M(j, Upto(ls, Len(ls)))

Builds(b) ==
    Build(job[b], pc[b], index[b], stopCache[b], cached[b], fs[b], l[b], initSnapshotTaken[b],
          layers[b])

Shapes ==
    /\ stopCache \in [Builder -> BOOLEAN] /\ initSnapshotTaken \in [Builder -> BOOLEAN]
    /\ DOMAIN fs = Builder /\ DOMAIN l = Builder /\ DOMAIN layers = Builder

BInv == IInv /\ Shapes /\ RightLayers /\ \A b \in Builder : Builds(b)

-----------------------------------------------------------------------------
(***************************************************************************)
(* Layers and commands.                                                    *)
(***************************************************************************)

(***************************************************************************)
(* A layer that has every path of a tree t that is not as in b, and whites *)
(* out every path of b that t has not, turns b into t.                     *)
(***************************************************************************)
LEMMA LayerMakes ==
    ASSUME NEW b, NEW t, b = [p \in Path |-> b[p]], t = [p \in Path |-> t[p]],
           IsTree(b), IsTree(t), NEW F \in SUBSET Path, NEW D \in SUBSET Path, NEW layer,
           layer = writeToTar(t, F, removeObsoleteWhiteouts(D)),
           \A p \in Path : Exists(t, p) /\ b[p] # t[p] => p \in F,
           \A p \in D : ~Exists(t, p),
           \A p \in Path : Exists(b, p) /\ ~Exists(t, p) => p \in D
    PROVE  ApplyLayer(b, layer) = t
<1> DEFINE kept == {p \in removeObsoleteWhiteouts(D) : ~parentPathIncludesNonDirectory(t, p)}
           adds == F \cup UNION {ParentDirectories(p) : p \in F \cup kept}
           Gone(p) == \/ \E w \in kept : HasPrefix(p, w)
                      \/ \E q \in adds : Below(p, q) /\ t[q].kind # "dir"
<1>1. layer.adds = adds /\ layer.nodes = t /\ layer.whiteouts = kept
  BY DEF writeToTar
<1> HIDE DEF kept, adds
<1>2. kept \subseteq D /\ F \subseteq adds /\ adds \subseteq Path
  BY PathAssumption DEF kept, adds, removeObsoleteWhiteouts
<1>3. \A p \in Path : ApplyLayer(b, layer)[p] = IF p \in adds THEN t[p]
                                                ELSE IF Gone(p) THEN Absent ELSE b[p]
  BY <1>1 DEF ApplyLayer
<1>4. ApplyLayer(b, layer) = [p \in Path |-> ApplyLayer(b, layer)[p]]
  BY DEF ApplyLayer
<1>5. ASSUME NEW p \in Path, Gone(p), p \notin adds PROVE t[p] = Absent
  <2>1. ~Exists(t, p)
    <3>1. CASE \E w \in kept : HasPrefix(p, w)
      BY <1>2, <3>1 DEF HasPrefix, IsTree, Exists
    <3>2. CASE \E q \in adds : Below(p, q) /\ t[q].kind # "dir"
      BY <3>2 DEF Below, IsTree
    <3> QED
      BY <1>5, <3>1, <3>2
  <2> QED
    BY <2>1 DEF IsTree, Exists
<1>6. ASSUME NEW p \in Path, ~Gone(p), p \notin adds PROVE t[p] = b[p]
  <2>1. CASE Exists(t, p)
    BY <1>2, <1>6, <2>1
  <2>2. CASE ~Exists(t, p) /\ ~Exists(b, p)
    BY <2>2 DEF IsTree, Exists
  <2>3. CASE ~Exists(t, p) /\ Exists(b, p)
    <3>1. p \in D /\ HasPrefix(p, p)
      BY <2>3 DEF HasPrefix
    <3>2. PICK w \in D : HasPrefix(p, w) /\ \A r \in D : r \in ParentDirectories(w) => r = w
      BY <3>1, TopmostPrefix
    <3>3. w # Root
      BY <3>2 DEF IsTree, Exists
    <3>4. Dir(w) \notin D
      <4>1. Dir(w) \in ParentDirectories(w) /\ Len(Dir(w)) < Len(w)
        BY <3>3, DirIsParent, ParentsShorter
      <4>2. Dir(w) # w
        BY <3>3, <4>1, ParentsShorter
      <4> QED
        BY <3>2, <4>1, <4>2
    <3>5. w \in removeObsoleteWhiteouts(D)
      BY <3>4 DEF removeObsoleteWhiteouts
    <3>6. w \notin kept
      BY <1>6, <3>2
    <3>7. PICK q \in ParentDirectories(w) : t[q].kind \in {"file", "link"}
      BY <3>5, <3>6 DEF kept, parentPathIncludesNonDirectory
    <3>8. q \in Path /\ q \in ParentDirectories(p) /\ q # w
      BY <3>2, <3>3, <3>7, ParentsTransitive, ParentsShorter DEF HasPrefix
    <3>9. b[q].kind = "dir" /\ Exists(t, q) /\ t[q].kind # "dir"
      BY <2>3, <3>7, <3>8 DEF IsTree, Exists
    <3>10. q \in adds
      BY <1>2, <3>8, <3>9
    <3>11. Below(p, q)
      BY <1>6, <3>8, <3>10 DEF Below
    <3> QED
      BY <1>6, <3>9, <3>10, <3>11
  <2> QED
    BY <2>1, <2>2, <2>3
<1>7. \A p \in Path : ApplyLayer(b, layer)[p] = t[p]
  BY <1>3, <1>5, <1>6
<1> HIDE DEF Gone
<1> QED
  BY <1>4, <1>7

(***************************************************************************)
(* What commands write are nodes.                                          *)
(***************************************************************************)
LEMMA NewNodes ==
    /\ IsNode(Absent) /\ Absent.kind = "none"
    /\ IsNode(NewDir) /\ NewDir.kind = "dir"
    /\ \A x : IsNode(NewFile(x)) /\ NewFile(x).kind = "file"
<1> DEFINE c == CHOOSE x \in Perm : TRUE
<1>1. Absent = [kind |-> "none", perm |-> c, mtime |-> 0, data |-> Root]
  BY DEF Absent
<1> HIDE DEF c
<1>2. NewDir = [kind |-> "dir", perm |-> c, mtime |-> 0, data |-> Root]
  BY <1>1 DEF NewDir
<1>3. ASSUME NEW x PROVE NewFile(x) = [kind |-> "file", perm |-> c, mtime |-> 0, data |-> x]
  BY <1>1 DEF NewFile
<1>4. \A k, x : LET n == [kind |-> k, perm |-> c, mtime |-> 0, data |-> x]
               IN IsNode(n) /\ n.kind = k
  BY DEF IsNode
<1> QED
  BY <1>1, <1>2, <1>3, <1>4

(***************************************************************************)
(* Writing a node where it can be written keeps the file system one.       *)
(***************************************************************************)
LEMMA PutDisk ==
    ASSUME NEW d, IsDisk(d), NEW p \in Path, CanPut(d, p), NEW node, IsNode(node),
           node.kind \in {"file", "dir"}
    PROVE  /\ IsDisk(Put(d, p, node))
           /\ Put(d, p, node)[p] = node
           /\ \A q \in Path : q # p =>
                \/ Put(d, p, node)[q] = d[q]
                \/ q \in ParentDirectories(p) /\ ~Exists(d, q) /\ Put(d, p, node)[q] = NewDir
           /\ \A q \in Path : Exists(d, q) => Exists(Put(d, p, node), q)
<1> DEFINE r == Put(d, p, node)
<1>1. r = [q \in Path |-> IF q = p THEN node
                          ELSE IF q \in ParentDirectories(p) /\ ~Exists(d, q) THEN NewDir
                          ELSE d[q]]
  BY DEF Put
<1>2. p # Root
  BY DEF CanPut, IsDisk, IsTree
<1>3. \A q \in Path : r[q] = IF q = p THEN node
                             ELSE IF q \in ParentDirectories(p) /\ ~Exists(d, q) THEN NewDir
                             ELSE d[q]
  BY <1>1
<1>4. r = [q \in Path |-> r[q]]
  BY <1>1
<1> HIDE DEF r
<1>5. \A q \in Path : IsNode(r[q])
  BY <1>3, NewNodes DEF IsDisk
<1>6. r[Root].kind = "dir" /\ Root \in Path
  BY <1>2, <1>3, PathAssumption, NewNodes DEF IsDisk, IsTree
<1>7. \A q \in Path : r[q].kind = "none" => r[q] = Absent
  BY <1>3, NewNodes DEF IsDisk, IsTree
<1>8. \A q \in ParentDirectories(p) : q \in Path /\ q # p /\ r[q].kind = "dir"
  <2> TAKE q \in ParentDirectories(p)
  <2>1. q \in Path /\ q # p
    BY <1>2, ParentsShorter
  <2>2. d[q].kind \in {"none", "dir"}
    BY DEF CanPut
  <2> QED
    BY <1>3, <2>1, <2>2, NewNodes DEF Exists
<1>9. ASSUME NEW s \in Path, Exists(r, s), NEW q \in ParentDirectories(s)
      PROVE  r[q].kind = "dir"
  <2>1. CASE s = p \/ s \in ParentDirectories(p)
    BY <1>8, <2>1, ParentsTransitive
  <2>2. CASE s # p /\ s \notin ParentDirectories(p)
    <3>1. r[s] = d[s] /\ q \in Path
      BY <1>3, <2>2, PathAssumption
    <3>2. d[q].kind = "dir"
      BY <1>9, <3>1 DEF IsDisk, IsTree, Exists
    <3>3. q # p
      BY <3>2 DEF CanPut
    <3> QED
      BY <1>3, <3>1, <3>2, <3>3 DEF Exists
  <2> QED
    BY <2>1, <2>2
<1>10. IsDisk(r)
  BY <1>4, <1>5, <1>6, <1>7, <1>9 DEF IsDisk, IsTree
<1>11. \A q \in Path : Exists(d, q) => Exists(r, q)
  BY <1>3 DEF Exists
<1>12. r[p] = node
  BY <1>3
<1>13. \A q \in Path : q # p =>
         r[q] = d[q] \/ (q \in ParentDirectories(p) /\ ~Exists(d, q) /\ r[q] = NewDir)
  BY <1>3
<1> QED
  BY <1>10, <1>11, <1>12, <1>13 DEF r

(***************************************************************************)
(* Removing paths, and all below them, keeps the file system one.          *)
(***************************************************************************)
LEMMA RemoveDisk ==
    ASSUME NEW d, IsDisk(d), NEW S, S \subseteq Path \ {Root}
    PROVE  /\ IsDisk(RemoveAll(d, S))
           /\ \A q \in Path : RemoveAll(d, S)[q] =
                IF \E p \in S : HasPrefix(q, p) THEN Absent ELSE d[q]
<1> DEFINE r == RemoveAll(d, S)
<1>1. r = [q \in Path |-> IF \E p \in S : HasPrefix(q, p) THEN Absent ELSE d[q]]
  BY DEF RemoveAll
<1>2. \A q \in Path : r[q] = IF \E p \in S : HasPrefix(q, p) THEN Absent ELSE d[q]
  BY <1>1
<1>3. r = [q \in Path |-> r[q]]
  BY <1>1
<1> HIDE DEF r
<1>4. \A q \in Path : IsNode(r[q])
  BY <1>2, NewNodes DEF IsDisk
<1>5. r[Root].kind = "dir"
  <2>1. \A p \in S : ~HasPrefix(Root, p)
    BY DEF HasPrefix, ParentDirectories
  <2> QED
    BY <1>2, <2>1, PathAssumption DEF IsDisk, IsTree
<1>6. \A q \in Path : r[q].kind = "none" => r[q] = Absent
  BY <1>2 DEF IsDisk, IsTree
<1>7. ASSUME NEW s \in Path, Exists(r, s), NEW q \in ParentDirectories(s)
      PROVE  r[q].kind = "dir"
  <2>1. ~(\E p \in S : HasPrefix(s, p)) /\ q \in Path /\ r[s] = d[s]
    BY <1>2, <1>7, NewNodes, PathAssumption DEF Exists
  <2>2. HasPrefix(s, q)
    BY DEF HasPrefix
  <2>3. ~(\E p \in S : HasPrefix(q, p))
    BY <2>1, <2>2, HasPrefixTransitive
  <2>4. d[q].kind = "dir"
    BY <1>7, <2>1 DEF IsDisk, IsTree, Exists
  <2> QED
    BY <1>2, <2>1, <2>3, <2>4
<1>8. IsDisk(r)
  BY <1>3, <1>4, <1>5, <1>6, <1>7 DEF IsDisk, IsTree
<1> QED
  BY <1>2, <1>8 DEF r

-----------------------------------------------------------------------------
(***************************************************************************)
(* The snapshotter's map.                                                  *)
(***************************************************************************)

(***************************************************************************)
(* A full hash is an entry, and tells nodes apart.                         *)
(***************************************************************************)
LEMMA FullHash ==
    /\ \A n : hasher("full", n) # NoHash
    /\ \A n, k : IsNode(n) /\ IsNode(k) /\ hasher("full", n) = hasher("full", k) => n = k
<1>1. \A n : hasher("full", n) = <<n.kind, n.perm, n.mtime, n.data>>
  BY DEF hasher, Hasher
<1>2. \A n : hasher("full", n) # NoHash
  BY <1>1 DEF NoHash
<1>3. ASSUME NEW n, NEW k, IsNode(n), IsNode(k), hasher("full", n) = hasher("full", k)
      PROVE  n = k
  <2>1. n.kind = k.kind /\ n.perm = k.perm /\ n.mtime = k.mtime /\ n.data = k.data
    BY <1>1, <1>3
  <2> QED
    BY <1>3, <2>1 DEF IsNode
<1> QED
  BY <1>2, <1>3

HashesIn(d) == {hasher("full", d[p]) : p \in Path}

(***************************************************************************)
(* Opening a layer keeps what the map records.                             *)
(***************************************************************************)
LEMMA OpenedMap ==
    ASSUME NEW H, NoHash \in H, NEW m \in Maps(H), NEW r, r = Snapshot(m)
    PROVE  /\ r \in Maps(H) /\ r.hasLayer /\ r.isCurrentImageValid
           /\ r.adds = EmptyMap /\ r.deletes = {} /\ r.layerHashCache = EmptyMap
           /\ r.currentImage = getCurrentImage(m) /\ getCurrentImage(r) = getCurrentImage(m)
<1>1. getCurrentImage(m) \in [Path -> H] /\ EmptyMap \in [Path -> H]
  BY DEF getCurrentImage, Maps, EmptyMap
<1> DEFINE u == updateCurrentImage(m)
<1>2. u \in Maps(H) /\ u.currentImage = getCurrentImage(m) /\ u.isCurrentImageValid
  BY <1>1 DEF updateCurrentImage, Maps
<1>3. r = [u EXCEPT !.hasLayer = TRUE, !.adds = EmptyMap, !.deletes = {},
                    !.layerHashCache = EmptyMap]
  BY DEF Snapshot
<1> HIDE DEF u
<1>4. /\ r \in Maps(H) /\ r.hasLayer /\ r.isCurrentImageValid
      /\ r.adds = EmptyMap /\ r.deletes = {} /\ r.layerHashCache = EmptyMap
      /\ r.currentImage = getCurrentImage(m)
  BY <1>1, <1>2, <1>3 DEF Maps
<1>5. getCurrentImage(r) = getCurrentImage(m)
  BY <1>4 DEF getCurrentImage
<1> QED
  BY <1>4, <1>5

(***************************************************************************)
(* What a map says after the additions and deletions of a layer.           *)
(***************************************************************************)
LEMMA FilledMap ==
    ASSUME NEW H, NoHash \in H, NEW m \in Maps(H), m.hasLayer, m.isCurrentImageValid,
           m.adds = EmptyMap, m.deletes = {}, NEW d, HashesIn(d) \subseteq H,
           NEW S \in SUBSET Path, NEW D \in SUBSET Path,
           \A p \in S : m.layerHashCache[p] \in {NoHash, hasher("full", d[p])},
           NEW r, r = AddDelete(Add(m, d, S), D)
    PROVE  /\ r \in Maps(H)
           /\ \A p \in Path : getCurrentImage(Add(m, d, S))[p] =
                IF p \in S THEN hasher("full", d[p]) ELSE m.currentImage[p]
           /\ \A p \in Path : getCurrentImage(r)[p] =
                IF p \in D THEN NoHash
                ELSE IF p \in S THEN hasher("full", d[p])
                ELSE m.currentImage[p]
<1> DEFINE a == [p \in Path |-> IF p \notin S THEN m.adds[p]
                    ELSE IF m.layerHashCache[p] # NoHash THEN m.layerHashCache[p]
                    ELSE hasher(m.mode, d[p])]
           ad == Add(m, d, S)
<1>0. m.mode = "full" /\ m.layerHashCache \in [Path -> H] /\ m.currentImage \in [Path -> H]
  BY DEF Maps
<1>1. ad = [m EXCEPT !.isCurrentImageValid = @ /\ S = {}, !.adds = a]
  BY DEF Add
<1>2. \A p \in Path : a[p] = IF p \in S THEN hasher("full", d[p]) ELSE NoHash
  BY <1>0 DEF EmptyMap
<1>3. a \in [Path -> H]
  BY <1>0, <1>2 DEF HashesIn
<1> HIDE DEF a, ad
<1>4. /\ ad \in Maps(H) /\ (ad.isCurrentImageValid <=> S = {}) /\ ad.adds = a
      /\ ad.deletes = {} /\ ad.currentImage = m.currentImage /\ ad.hasLayer
  BY <1>1, <1>3 DEF Maps
<1>5. r = [ad EXCEPT !.isCurrentImageValid = @ /\ D = {}, !.deletes = @ \cup D]
  BY DEF AddDelete, ad
<1>6. /\ r \in Maps(H) /\ (r.isCurrentImageValid <=> S = {} /\ D = {}) /\ r.adds = a
      /\ r.deletes = D /\ r.currentImage = m.currentImage /\ r.hasLayer
  <2>1. ad.deletes \cup D \in SUBSET Path /\ (ad.isCurrentImageValid /\ D = {}) \in BOOLEAN
    BY <1>4 DEF Maps
  <2>2. r \in Maps(H)
    BY <1>4, <1>5, <2>1 DEF Maps
  <2>3. r.adds = ad.adds /\ r.currentImage = ad.currentImage /\ r.hasLayer = ad.hasLayer
    BY <1>4, <1>5 DEF Maps
  <2>4. r.deletes = ad.deletes \cup D
    BY <1>4, <1>5 DEF Maps
  <2>5. r.isCurrentImageValid = (ad.isCurrentImageValid /\ D = {})
    BY <1>4, <1>5 DEF Maps
  <2> QED
    BY <1>4, <2>2, <2>3, <2>4, <2>5
<1>7. ASSUME NEW p \in Path
      PROVE  getCurrentImage(r)[p] = IF p \in D THEN NoHash
                                     ELSE IF p \in S THEN hasher("full", d[p])
                                     ELSE m.currentImage[p]
  <2>1. CASE S = {} /\ D = {}
    BY <1>6, <2>1 DEF getCurrentImage
  <2>2. CASE ~(S = {} /\ D = {})
    <3>1. getCurrentImage(r)[p] = IF p \in D THEN NoHash
                                  ELSE IF a[p] # NoHash THEN a[p] ELSE m.currentImage[p]
      BY <1>6, <2>2 DEF getCurrentImage
    <3> QED
      BY <1>2, <3>1, FullHash
  <2> QED
    BY <2>1, <2>2
<1>8. ASSUME NEW p \in Path
      PROVE  getCurrentImage(ad)[p] = IF p \in S THEN hasher("full", d[p])
                                      ELSE m.currentImage[p]
  <2>1. CASE S = {}
    BY <1>4, <2>1 DEF getCurrentImage
  <2>2. CASE S # {}
    <3>1. getCurrentImage(ad)[p] = IF a[p] # NoHash THEN a[p] ELSE m.currentImage[p]
      BY <1>4, <2>2 DEF getCurrentImage
    <3> QED
      BY <1>2, <3>1, FullHash
  <2> QED
    BY <2>1, <2>2
<1> QED
  BY <1>6, <1>7, <1>8 DEF ad

(***************************************************************************)
(* Directories above what exists exist.                                    *)
(***************************************************************************)
LEMMA ParentsExist ==
    ASSUME NEW d, IsTree(d), NEW S \in SUBSET Path, \A p \in S : Exists(d, p)
    PROVE  /\ filesWithParentDirs(S) \in SUBSET Path
           /\ \A p \in filesWithParentDirs(S) : Exists(d, p)
BY PathAssumption DEF filesWithParentDirs, IsTree, Exists

(***************************************************************************)
(* A scan leaves a map of exactly what is there, and cuts a layer of what  *)
(* the map did not record and without what it did in vain.                 *)
(***************************************************************************)
GoneFrom(m, d) == {p \in Path : getCurrentImage(m)[p] # NoHash /\ ~Exists(d, p)}

NewIn(m, d) == {p \in Path : Exists(d, p) /\ getCurrentImage(m)[p] # hasher("full", d[p])}

Scanned(m, d, r) ==
    /\ IsMap(r.l)
    /\ \A p \in Path : getCurrentImage(r.l)[p] =
         IF Exists(d, p) THEN hasher("full", d[p]) ELSE NoHash
    /\ r.layer = writeToTar(d, filesWithParentDirs(NewIn(m, d)),
                            removeObsoleteWhiteouts(GoneFrom(m, d)))

(***************************************************************************)
(* That is what scanFullFilesystem does.                                   *)
(***************************************************************************)
LEMMA ScannedMap ==
    ASSUME NEW m, IsMap(m), NEW d, IsTree(d), NEW r, r = scanFullFilesystem(m, d)
    PROVE  Scanned(m, d, r)
<1>1. PICK G : NoHash \in G /\ m \in Maps(G)
  BY DEF IsMap
<1> DEFINE H == G \cup HashesIn(d)
           l1 == Snapshot(m)
           W == {p \in Path : Exists(d, p)}
           l2 == CheckFileChanges(l1, d, W)
           files == filesWithParentDirs(ChangedFiles(l1, d, W))
           deleted == GetCurrentPaths(l2) \ W
<1>2. NoHash \in H /\ m \in Maps(H)
  BY <1>1 DEF Maps
<1>3. r = [l |-> AddDelete(Add(l2, d, files), deleted),
           layer |-> writeToTar(d, files, removeObsoleteWhiteouts(deleted))]
  BY DEF scanFullFilesystem
<1>4. HashesIn(d) \subseteq H
  OBVIOUS
<1> HIDE DEF H
<1>5. /\ l1 \in Maps(H) /\ l1.hasLayer /\ l1.isCurrentImageValid
      /\ l1.adds = EmptyMap /\ l1.deletes = {} /\ l1.layerHashCache = EmptyMap
      /\ l1.currentImage = getCurrentImage(m) /\ l1.mode = "full"
  BY <1>2, OpenedMap DEF Maps
<1> HIDE DEF l1
<1> DEFINE ca == [p \in Path |-> IF p \in W THEN hasher(l1.mode, d[p]) ELSE l1.layerHashCache[p]]
<1>6. l2 = [l1 EXCEPT !.layerHashCache = ca]
  BY DEF CheckFileChanges
<1>7. \A p \in Path : ca[p] = IF p \in W THEN hasher("full", d[p]) ELSE NoHash
  BY <1>5 DEF EmptyMap
<1>8. ca \in [Path -> H]
  BY <1>2, <1>4, <1>7 DEF HashesIn
<1> HIDE DEF ca, l2
<1>9. /\ l2 \in Maps(H) /\ l2.hasLayer /\ l2.isCurrentImageValid
      /\ l2.adds = EmptyMap /\ l2.deletes = {} /\ l2.layerHashCache = ca
      /\ l2.currentImage = getCurrentImage(m)
  BY <1>5, <1>6, <1>8 DEF Maps
<1>10. ChangedFiles(l1, d, W) = NewIn(m, d)
  BY <1>5 DEF ChangedFiles, NewIn
<1>11. deleted = GoneFrom(m, d)
  BY <1>9 DEF GetCurrentPaths, getCurrentImage, GoneFrom
<1>12. ChangedFiles(l1, d, W) \in SUBSET Path /\ \A p \in ChangedFiles(l1, d, W) : Exists(d, p)
  BY <1>10 DEF NewIn
<1>13. files \in SUBSET Path /\ \A p \in files : Exists(d, p)
  BY <1>12, ParentsExist
<1>14. \A p \in Path : Exists(d, p) /\ p \notin files => getCurrentImage(m)[p] = hasher("full", d[p])
  BY <1>10 DEF filesWithParentDirs, NewIn
<1>15. deleted \in SUBSET Path
  BY <1>11 DEF GoneFrom
<1> HIDE DEF files, deleted
<1>16. r.l = AddDelete(Add(l2, d, files), deleted)
  BY <1>3
<1>17. \A p \in files : l2.layerHashCache[p] \in {NoHash, hasher("full", d[p])}
  BY <1>7, <1>9, <1>13
<1>18. /\ r.l \in Maps(H)
       /\ \A p \in Path : getCurrentImage(r.l)[p] =
            IF p \in deleted THEN NoHash
            ELSE IF p \in files THEN hasher("full", d[p]) ELSE l2.currentImage[p]
  BY <1>2, <1>4, <1>9, <1>13, <1>15, <1>16, <1>17, FilledMap
<1>19. \A p \in Path : getCurrentImage(r.l)[p] =
         IF Exists(d, p) THEN hasher("full", d[p]) ELSE NoHash
  BY <1>9, <1>11, <1>13, <1>14, <1>18 DEF GoneFrom
<1>20. IsMap(r.l)
  BY <1>2, <1>18 DEF IsMap
<1>21. r.layer = writeToTar(d, files, removeObsoleteWhiteouts(deleted))
  BY <1>3
<1> QED
  BY <1>10, <1>11, <1>19, <1>20, <1>21 DEF files, Scanned

(***************************************************************************)
(* A snapshot of given files records them and the directories above, and   *)
(* forgets what is gone if it is asked to look for that.                   *)
(***************************************************************************)
Taken(m, d, files, D, force, r) ==
    /\ IsMap(r.l)
    /\ files = {} /\ ~force =>
         r.layer = None /\ getCurrentImage(r.l) = getCurrentImage(m)
    /\ ~(files = {} /\ ~force) =>
         /\ r.layer = writeToTar(d, filesWithParentDirs(files), removeObsoleteWhiteouts(D))
         /\ \A p \in Path : getCurrentImage(r.l)[p] =
              IF p \in D THEN NoHash
              ELSE IF p \in filesWithParentDirs(files) THEN hasher("full", d[p])
              ELSE getCurrentImage(m)[p]

(***************************************************************************)
(* That is what TakeSnapshot does.                                         *)
(***************************************************************************)
LEMMA TakenMap ==
    ASSUME NEW m, IsMap(m), NEW d, NEW files \in SUBSET Path, NEW shd \in BOOLEAN,
           shd => IsTree(d) /\ \A p \in files : Exists(d, p), NEW force,
           NEW r, r = TakeSnapshot(m, d, files, shd, force)
    PROVE  Taken(m, d, files, IF shd THEN GoneFrom(m, d) ELSE {}, force, r)
<1>1. PICK G : NoHash \in G /\ m \in Maps(G)
  BY DEF IsMap
<1> DEFINE H == G \cup HashesIn(d)
           l1 == Snapshot(m)
           F == filesWithParentDirs(files)
           l2 == Add(l1, d, F)
           deleted == IF shd THEN GetCurrentPaths(l2) \ {p \in Path : Exists(d, p)} ELSE {}
           D == IF shd THEN GoneFrom(m, d) ELSE {}
<1> SUFFICES Taken(m, d, files, D, force, r)
  OBVIOUS
<1>2. NoHash \in H /\ m \in Maps(H)
  BY <1>1 DEF Maps
<1>3. r = IF files = {} /\ ~force THEN [l |-> l1, layer |-> None]
          ELSE [l |-> AddDelete(l2, deleted),
                layer |-> writeToTar(d, F, removeObsoleteWhiteouts(deleted))]
  BY DEF TakeSnapshot
<1>4. HashesIn(d) \subseteq H
  OBVIOUS
<1> HIDE DEF H
<1>5. /\ l1 \in Maps(H) /\ l1.hasLayer /\ l1.isCurrentImageValid
      /\ l1.adds = EmptyMap /\ l1.deletes = {} /\ l1.layerHashCache = EmptyMap
      /\ l1.currentImage = getCurrentImage(m) /\ getCurrentImage(l1) = getCurrentImage(m)
  BY <1>2, OpenedMap
<1> HIDE DEF l1
<1>6. F \in SUBSET Path /\ (shd => \A p \in F : Exists(d, p))
  <2>1. F \in SUBSET Path
    BY PathAssumption DEF filesWithParentDirs
  <2> QED
    BY <2>1, ParentsExist
<1> HIDE DEF F
<1>7. \A p \in F : l1.layerHashCache[p] \in {NoHash, hasher("full", d[p])}
  BY <1>5, <1>6 DEF EmptyMap
<1>8. ASSUME NEW E \in SUBSET Path
      PROVE  /\ AddDelete(l2, E) \in Maps(H)
             /\ \A p \in Path : getCurrentImage(l2)[p] =
                  IF p \in F THEN hasher("full", d[p]) ELSE getCurrentImage(m)[p]
             /\ \A p \in Path : getCurrentImage(AddDelete(l2, E))[p] =
                  IF p \in E THEN NoHash
                  ELSE IF p \in F THEN hasher("full", d[p]) ELSE getCurrentImage(m)[p]
  BY <1>2, <1>4, <1>5, <1>6, <1>7, FilledMap
<1>9. deleted = D
  <2>1. \A p \in Path : getCurrentImage(l2)[p] =
          IF p \in F THEN hasher("full", d[p]) ELSE getCurrentImage(m)[p]
    BY <1>8
  <2>2. shd => GetCurrentPaths(l2) \ {p \in Path : Exists(d, p)} = GoneFrom(m, d)
    BY <1>6, <2>1 DEF GetCurrentPaths, GoneFrom
  <2> QED
    BY <2>2
<1>10. D \in SUBSET Path
  BY DEF GoneFrom
<1> HIDE DEF D, deleted, l2
<1>11. CASE files = {} /\ ~force
  <2>1. r.l = l1 /\ r.layer = None
    BY <1>3, <1>11
  <2> QED
    BY <1>2, <1>5, <1>11, <2>1 DEF IsMap, Taken
<1>12. CASE ~(files = {} /\ ~force)
  <2>1. r.l = AddDelete(l2, D) /\ r.layer = writeToTar(d, F, removeObsoleteWhiteouts(D))
    BY <1>3, <1>9, <1>12
  <2>2. IsMap(r.l)
    BY <1>2, <1>8, <1>10, <2>1 DEF IsMap
  <2>3. \A p \in Path : getCurrentImage(r.l)[p] =
          IF p \in D THEN NoHash
          ELSE IF p \in F THEN hasher("full", d[p]) ELSE getCurrentImage(m)[p]
    BY <1>8, <1>10, <2>1
  <2> QED
    BY <1>12, <2>1, <2>2, <2>3 DEF Taken, F
<1> QED
  BY <1>11, <1>12

-----------------------------------------------------------------------------
(***************************************************************************)
(* The commands.                                                           *)
(***************************************************************************)
LEMMA CommandOf ==
    ASSUME NEW j \in Job, NEW i \in 1 .. Len(j.cmds)
    PROVE  IsCommand(j.cmds[i], j.arg) /\ IsDisk(BaseTree[j.base])
BY JobAssumption

Differ(d, t) == {p \in Path : d[p] # t[p]}

(***************************************************************************)
(* A command that can be executed on d makes t of it.                      *)
(***************************************************************************)
Makes(j, i, d, t) ==
    /\ IsDisk(d) /\ CanExecute(j, j.cmds[i], d)
    /\ \E e : t = Execute(j, j.cmds[i], d, e)

(***************************************************************************)
(* A COPY or a WORKDIR changes what it names and directories above; only a *)
(* RUN removes anything, and an ENV changes nothing.                       *)
(***************************************************************************)
Effect(j, cmd, d, t) ==
    /\ IsDisk(t)
    /\ cmd.op # "RUN" => \A q \in Path : Exists(d, q) => Exists(t, q)
    /\ cmd.op = "RUN" =>
         \A q \in Path : Exists(d, q) /\ ~Exists(t, q) =>
             \E p \in cmd.removes : HasPrefix(q, p)
    /\ cmd.op = "ENV" => t = d
    /\ cmd.op = "COPY" /\ j.ctx[cmd.src] = None => t = d
    /\ cmd.op \in {"COPY", "WORKDIR"} /\ t # d =>
         /\ Differ(d, t) \subseteq filesWithParentDirs({cmd.dst[j.arg]})
         /\ Exists(t, cmd.dst[j.arg])

(***************************************************************************)
(* That is the effect of every command.                                    *)
(***************************************************************************)
LEMMA Executed ==
    ASSUME NEW j \in Job, NEW i \in 1 .. Len(j.cmds), NEW d, NEW t, Makes(j, i, d, t)
    PROVE  Effect(j, j.cmds[i], d, t)
<1>0. IsDisk(d) /\ CanExecute(j, j.cmds[i], d) /\ \E e : t = Execute(j, j.cmds[i], d, e)
  BY DEF Makes
<1> PICK e : t = Execute(j, j.cmds[i], d, e)
  BY <1>0
<1> DEFINE cmd == j.cmds[i]
           p == cmd.dst[j.arg]
<1> SUFFICES Effect(j, cmd, d, t)
  OBVIOUS
<1>1. IsCommand(cmd, j.arg)
  BY CommandOf
<1>2. p # None => CanPut(d, p) \/ (cmd.op = "WORKDIR" /\ d[p].kind = "dir")
  BY <1>0 DEF CanExecute
<1>3. p \in Path => p # None
  BY NoneAssumption
<1> HIDE DEF cmd, p
<1>4. ASSUME NEW node, IsNode(node), node.kind \in {"file", "dir"}, p \in Path, CanPut(d, p),
             t = Put(d, p, node)
      PROVE  /\ IsDisk(t)
             /\ \A q \in Path : Exists(d, q) => Exists(t, q)
             /\ Differ(d, t) \subseteq filesWithParentDirs({p}) /\ Exists(t, p)
  <2>1. /\ IsDisk(t) /\ t[p] = node
        /\ \A q \in Path : q # p => t[q] = d[q] \/ q \in ParentDirectories(p)
        /\ \A q \in Path : Exists(d, q) => Exists(t, q)
    BY <1>0, <1>4, PutDisk
  <2>2. Differ(d, t) \subseteq filesWithParentDirs({p})
    BY <2>1 DEF Differ, filesWithParentDirs
  <2>3. Exists(t, p)
    BY <1>4, <2>1 DEF Exists
  <2> QED
    BY <2>1, <2>2, <2>3
<1>5. CASE cmd.op = "RUN"
  <2> DEFINE w == IF p = None THEN d
                  ELSE Put(d, p, NewFile(<<cmd.text, e, j.arg, d[cmd.reads].data>>))
  <2>1. t = RemoveAll(w, cmd.removes)
    BY <1>5 DEF Execute, cmd, p
  <2>2. p # None => p \in Path /\ CanPut(d, p)
    BY <1>1, <1>2, <1>5 DEF IsCommand, p
  <2>3. IsDisk(w) /\ \A q \in Path : Exists(d, q) => Exists(w, q)
    BY <1>0, <2>2, PutDisk, NewNodes
  <2> HIDE DEF w
  <2>4. cmd.removes \subseteq Path \ {Root}
    BY <1>1 DEF IsCommand
  <2>5. /\ IsDisk(t)
        /\ \A q \in Path : t[q] = IF \E r \in cmd.removes : HasPrefix(q, r) THEN Absent ELSE w[q]
    BY <2>1, <2>3, <2>4, RemoveDisk
  <2>6. \A q \in Path : Exists(d, q) /\ ~Exists(t, q) => \E r \in cmd.removes : HasPrefix(q, r)
    BY <2>3, <2>5 DEF Exists
  <2> QED
    BY <1>5, <2>5, <2>6 DEF Effect
<1>6. CASE cmd.op = "COPY"
  <2>1. p \in Path /\ CanPut(d, p)
    BY <1>1, <1>2, <1>3, <1>6 DEF IsCommand, p
  <2>2. t = IF j.ctx[cmd.src] = None THEN d ELSE Put(d, p, NewFile(j.ctx[cmd.src]))
    BY <1>6 DEF Execute, CopyFile, cmd, p
  <2>3. CASE j.ctx[cmd.src] = None
    BY <1>0, <1>6, <2>2, <2>3 DEF Effect
  <2>4. CASE j.ctx[cmd.src] # None
    <3>1. /\ IsDisk(t)
          /\ \A q \in Path : Exists(d, q) => Exists(t, q)
          /\ Differ(d, t) \subseteq filesWithParentDirs({p}) /\ Exists(t, p)
      BY <1>4, <2>1, <2>2, <2>4, NewNodes
    <3> QED
      BY <1>6, <2>4, <3>1 DEF Effect, p
  <2> QED
    BY <2>3, <2>4
<1>7. CASE cmd.op = "WORKDIR"
  <2>1. p \in Path /\ (CanPut(d, p) \/ d[p].kind = "dir")
    BY <1>1, <1>2, <1>3, <1>7 DEF IsCommand, p
  <2>2. t = IF Exists(d, p) THEN d ELSE Put(d, p, NewDir)
    BY <1>7 DEF Execute, cmd, p
  <2>3. CASE Exists(d, p)
    BY <1>0, <1>7, <2>2, <2>3 DEF Effect
  <2>4. CASE ~Exists(d, p)
    <3>0. CanPut(d, p)
      BY <2>1, <2>4 DEF Exists
    <3>1. /\ IsDisk(t)
          /\ \A q \in Path : Exists(d, q) => Exists(t, q)
          /\ Differ(d, t) \subseteq filesWithParentDirs({p}) /\ Exists(t, p)
      BY <1>4, <2>1, <2>2, <2>4, <3>0, NewNodes
    <3> QED
      BY <1>7, <2>4, <3>1 DEF Effect, p
  <2> QED
    BY <2>3, <2>4
<1>8. CASE cmd.op = "ENV"
  <2>1. t = d
    BY <1>8 DEF Execute, cmd
  <2> QED
    BY <1>0, <1>8, <2>1 DEF Effect
<1>9. cmd.op \in {"RUN", "COPY", "WORKDIR", "ENV"}
  BY <1>1 DEF IsCommand
<1> QED
  BY <1>5, <1>6, <1>7, <1>8, <1>9

(***************************************************************************)
(* FilesToSnapshot: a command that lists its files lists all that it has   *)
(* written, and nothing that it did not touch.                             *)
(***************************************************************************)
Lists(j, i, d, t, f) ==
    /\ f = None => \/ j.cmds[i].op = "RUN" /\ ~j.RunV2
                   \/ j.cmds[i].op = "COPY" /\ j.ctx[j.cmds[i].src] = None /\ t = d
    /\ j.cmds[i].op = "RUN" /\ ~j.RunV2 => f = None
    /\ f # None =>
         /\ f \in SUBSET Path /\ \A p \in f : Exists(t, p)
         /\ \A p \in Path : Exists(t, p) /\ d[p] # t[p] => p \in filesWithParentDirs(f)
         /\ f = {} => t = d
         /\ f \subseteq filesWithParentDirs(Differ(d, t) \cup Named(j, i))

(***************************************************************************)
(* That is what FilesToSnapshot returns.                                   *)
(***************************************************************************)
LEMMA Listed ==
    ASSUME NEW j \in Job, NEW i \in 1 .. Len(j.cmds), NEW d, NEW t, Makes(j, i, d, t)
    PROVE  Lists(j, i, d, t, FilesToSnapshot(j, j.cmds[i], d, t))
<1> SUFFICES ASSUME NEW f, f = FilesToSnapshot(j, j.cmds[i], d, t) PROVE Lists(j, i, d, t, f)
  OBVIOUS
<1> DEFINE cmd == j.cmds[i]
           p == cmd.dst[j.arg]
<1>0. IsDisk(d) /\ \E e : t = Execute(j, j.cmds[i], d, e)
  BY DEF Makes
<1>1. IsCommand(cmd, j.arg)
  BY CommandOf
<1>2. /\ IsDisk(t)
      /\ cmd.op = "ENV" => t = d
      /\ cmd.op = "COPY" /\ j.ctx[cmd.src] = None => t = d
      /\ cmd.op \in {"COPY", "WORKDIR"} /\ t # d =>
           Differ(d, t) \subseteq filesWithParentDirs({p}) /\ Exists(t, p)
  BY Executed DEF Effect
<1>3. p \in Path => p # None /\ {p} # None
  BY NoneAssumption
<1> HIDE DEF cmd, p
<1>4. CASE cmd.op = "RUN" /\ ~j.RunV2
  <2>1. f = None
    BY <1>4 DEF FilesToSnapshot, cmd
  <2> QED
    BY <1>4, <2>1 DEF cmd, Lists
<1>5. CASE cmd.op = "RUN" /\ j.RunV2
  <2>1. f = GetFSInfoMap(d, t)
    BY <1>5 DEF FilesToSnapshot, cmd
  <2>2. f \in SUBSET Path /\ \A q \in f : Exists(t, q)
    BY <2>1 DEF GetFSInfoMap
  <2>3. f # None
    BY <2>2, NoneAssumption
  <2>4. \A q \in Path : Exists(t, q) /\ d[q] # t[q] => q \in filesWithParentDirs(f)
    BY <2>1 DEF GetFSInfoMap, filesWithParentDirs
  <2>5. ASSUME f = {} PROVE t = d
    <3>1. \A q \in Path : Exists(t, q) => d[q] = t[q]
      BY <2>1, <2>5 DEF GetFSInfoMap
    <3> DEFINE S == {q \in Path : Exists(d, q) /\ ~Exists(t, q)}
    <3>2. ASSUME NEW q \in S PROVE FALSE
      <4>1. q \in Path /\ HasPrefix(q, q) /\ S \in SUBSET Path
        BY DEF HasPrefix
      <4>2. PICK w \in S : \A r \in S : r \in ParentDirectories(w) => r = w
        BY <4>1, <3>2, TopmostPrefix
      <4>3. w # Root /\ w \in Path
        BY <1>2, <4>2 DEF IsDisk, IsTree, Exists
      <4>4. Dir(w) \in ParentDirectories(w) /\ Dir(w) \in Path /\ Dir(w) # w
        BY <4>3, DirIsParent, ParentsShorter
      <4>5. Exists(d, Dir(w))
        BY <1>0, <4>2, <4>4 DEF IsDisk, IsTree, Exists
      <4>6. Exists(t, Dir(w))
        BY <4>2, <4>4, <4>5
      <4>7. Dir(w) \in GetFSInfoMap(d, t)
        BY <4>2, <4>3, <4>4, <4>6 DEF GetFSInfoMap
      <4> QED
        BY <2>1, <2>5, <4>7
    <3>3. \A q \in Path : ~Exists(t, q) => d[q] = t[q]
      BY <1>0, <1>2, <3>2 DEF IsDisk, IsTree, Exists
    <3> QED
      BY <1>0, <1>2, <3>1, <3>3 DEF IsDisk
  <2>6. ASSUME NEW q \in f PROVE q \in filesWithParentDirs(Differ(d, t) \cup Named(j, i))
    <3>1. CASE d[q] # t[q]
      BY <2>2, <3>1 DEF Differ, filesWithParentDirs
    <3>2. CASE d[q] = t[q]
      <4>1. PICK s \in Path \ {Root} : Dir(s) = q /\ Exists(d, s) # Exists(t, s)
        BY <2>1, <3>2 DEF GetFSInfoMap
      <4>2. s \in Differ(d, t) /\ q \in ParentDirectories(s)
        BY <4>1, DirIsParent DEF Differ, Exists
      <4> QED
        BY <4>2 DEF filesWithParentDirs
    <3> QED
      BY <3>1, <3>2
  <2> QED
    BY <1>5, <2>2, <2>3, <2>4, <2>5, <2>6 DEF cmd, Lists
<1>6. CASE cmd.op = "COPY"
  <2>1. p \in Path
    BY <1>1, <1>6 DEF IsCommand, p
  <2>2. f = IF j.ctx[cmd.src] = None THEN None ELSE {p}
    BY <1>6 DEF FilesToSnapshot, cmd, p
  <2>3. CASE j.ctx[cmd.src] = None
    BY <1>2, <1>6, <2>2, <2>3 DEF cmd, Lists
  <2>4. CASE j.ctx[cmd.src] # None
    <3>1. f = {p} /\ Named(j, i) = {p}
      BY <1>3, <2>1, <2>2, <2>4 DEF Named, cmd, p
    <3>2. Exists(t, p)
      <4>1. t = Put(d, p, NewFile(j.ctx[cmd.src]))
        BY <1>0, <1>6, <2>4 DEF Execute, CopyFile, cmd, p
      <4>2. t[p] = NewFile(j.ctx[cmd.src])
        BY <2>1, <4>1 DEF Put
      <4> QED
        BY <4>2, NewNodes DEF Exists
    <3>3. Differ(d, t) \subseteq filesWithParentDirs({p})
      BY <1>2, <1>6 DEF Differ
    <3>4. f \subseteq filesWithParentDirs(Differ(d, t) \cup Named(j, i))
      BY <3>1 DEF filesWithParentDirs
    <3>5. \A q \in Path : d[q] # t[q] => q \in filesWithParentDirs(f)
      BY <3>1, <3>3 DEF Differ
    <3> QED
      BY <1>3, <1>6, <2>1, <3>1, <3>2, <3>4, <3>5 DEF cmd, Lists
  <2> QED
    BY <2>3, <2>4
<1>7. CASE cmd.op = "WORKDIR"
  <2>1. p \in Path
    BY <1>1, <1>7 DEF IsCommand, p
  <2>2. f = IF d = t THEN {} ELSE {p}
    BY <1>7 DEF FilesToSnapshot, cmd, p
  <2>3. {} # None
    BY NoneAssumption
  <2>4. CASE d = t
    BY <1>7, <2>2, <2>3, <2>4 DEF cmd, Lists
  <2>5. CASE d # t
    <3>1. f = {p} /\ Named(j, i) = {p}
      BY <1>3, <1>7, <2>1, <2>2, <2>5 DEF Named, cmd, p
    <3>2. Exists(t, p) /\ Differ(d, t) \subseteq filesWithParentDirs({p})
      BY <1>2, <1>7, <2>5
    <3>3. f \subseteq filesWithParentDirs(Differ(d, t) \cup Named(j, i))
      BY <3>1 DEF filesWithParentDirs
    <3>4. \A q \in Path : d[q] # t[q] => q \in filesWithParentDirs(f)
      BY <3>1, <3>2 DEF Differ
    <3> QED
      BY <1>3, <1>7, <2>1, <3>1, <3>2, <3>3, <3>4 DEF cmd, Lists
  <2> QED
    BY <2>4, <2>5
<1>8. CASE cmd.op = "ENV"
  <2>1. f = {} /\ {} # None /\ t = d
    BY <1>2, <1>8, NoneAssumption DEF FilesToSnapshot, cmd
  <2> QED
    BY <1>8, <2>1 DEF cmd, Lists
<1>9. cmd.op \in {"RUN", "COPY", "WORKDIR", "ENV"}
  BY <1>1 DEF IsCommand
<1> QED
  BY <1>4, <1>5, <1>6, <1>7, <1>8, <1>9

-----------------------------------------------------------------------------
(***************************************************************************)
(* Cutting a layer.                                                        *)
(***************************************************************************)
IsLayer(layer) ==
    \E x, d, w : layer = [adds |-> x, nodes |-> d, whiteouts |-> w]

NoneIsNoLayer == ~IsLayer(None)

(***************************************************************************)
(* A tarball of paths, and whiteouts, of some set or above holds nothing   *)
(* else.                                                                   *)
(***************************************************************************)
LEMMA TarHolds ==
    ASSUME NEW T \in SUBSET Path, NEW F \in SUBSET filesWithParentDirs(T),
           NEW D \in SUBSET filesWithParentDirs(T), NEW t, NEW layer,
           layer = writeToTar(t, F, removeObsoleteWhiteouts(D))
    PROVE  IsLayer(layer) /\ layer.adds \subseteq filesWithParentDirs(T)
<1> DEFINE kept == {p \in removeObsoleteWhiteouts(D) : ~parentPathIncludesNonDirectory(t, p)}
           adds == F \cup UNION {ParentDirectories(p) : p \in F \cup kept}
<1>1. layer = [adds |-> adds, nodes |-> t, whiteouts |-> kept]
  BY DEF writeToTar
<1>2. kept \subseteq filesWithParentDirs(T)
  BY DEF removeObsoleteWhiteouts
<1>3. ASSUME NEW p \in filesWithParentDirs(T), NEW q \in ParentDirectories(p)
      PROVE  q \in filesWithParentDirs(T)
  <2>1. PICK s \in T : p = s \/ p \in ParentDirectories(s)
    BY DEF filesWithParentDirs
  <2>2. q \in ParentDirectories(s)
    BY <2>1, ParentsTransitive
  <2> QED
    BY <2>2 DEF filesWithParentDirs
<1> HIDE DEF kept
<1>4. adds \subseteq filesWithParentDirs(T)
  BY <1>2, <1>3
<1> HIDE DEF adds
<1>5. layer.adds = adds
  BY <1>1
<1> QED
  BY <1>1, <1>4, <1>5 DEF IsLayer

(***************************************************************************)
(* Paths with the directories above, of paths of a set or above.           *)
(***************************************************************************)
LEMMA WithParents ==
    ASSUME NEW T \in SUBSET Path, NEW S \in SUBSET filesWithParentDirs(T)
    PROVE  filesWithParentDirs(S) \subseteq filesWithParentDirs(T)
<1> SUFFICES ASSUME NEW p \in S, NEW q \in ParentDirectories(p)
             PROVE  q \in filesWithParentDirs(T)
  BY DEF filesWithParentDirs
<1>1. PICK s \in T : p = s \/ p \in ParentDirectories(s)
  BY DEF filesWithParentDirs
<1>2. q \in ParentDirectories(s)
  BY <1>1, ParentsTransitive
<1> QED
  BY <1>2 DEF filesWithParentDirs

(***************************************************************************)
(* A layer cut by a scan of t, when the image is I: the map has to know    *)
(* the image, unless nothing has changed.                                  *)
(***************************************************************************)
CutsByScan(I, t, m, r) ==
    /\ IsMap(r.l) /\ Records(r.l, t) /\ Knows(r.l, t, Path)
    /\ IsLayer(r.layer) /\ ApplyLayer(I, r.layer) = t
    /\ Records(m, I) /\ Knows(m, I, Path) =>
         r.layer.adds \subseteq filesWithParentDirs(Differ(I, t))

(***************************************************************************)
(* Such is the layer of scanFullFilesystem.                                *)
(***************************************************************************)
LEMMA CutByScan ==
    ASSUME NEW I, IsDisk(I), NEW t, IsDisk(t), NEW m, IsMap(m),
           (Records(m, I) /\ Knows(m, I, Path)) \/ I = t,
           NEW r, r = scanFullFilesystem(m, t)
    PROVE  CutsByScan(I, t, m, r)
<1> DEFINE C == NewIn(m, t)
           F == filesWithParentDirs(C)
           D == GoneFrom(m, t)
<1>1. IsTree(t) /\ IsTree(I)
  BY DEF IsDisk
<1>2. /\ IsMap(r.l)
      /\ \A p \in Path : getCurrentImage(r.l)[p] =
            IF Exists(t, p) THEN hasher("full", t[p]) ELSE NoHash
      /\ r.layer = writeToTar(t, F, removeObsoleteWhiteouts(D))
  BY <1>1, ScannedMap DEF Scanned
<1>3. Records(r.l, t) /\ Knows(r.l, t, Path)
  BY <1>2, FullHash DEF Records, Knows
<1>4. C \in SUBSET Path /\ \A p \in C : Exists(t, p)
  BY DEF NewIn
<1>5. F \in SUBSET Path /\ D \in SUBSET Path /\ C \subseteq F
  BY <1>1, <1>4, ParentsExist DEF GoneFrom, filesWithParentDirs
<1>6. ASSUME NEW p \in Path, Exists(t, p), I[p] # t[p] PROVE p \in F
  <2>1. Records(m, I)
    BY <1>6
  <2>2. IsNode(I[p]) /\ IsNode(t[p])
    BY DEF IsDisk
  <2>3. getCurrentImage(m)[p] # hasher("full", t[p])
    BY <1>6, <2>1, <2>2, FullHash DEF Records
  <2> QED
    BY <1>5, <1>6, <2>3 DEF NewIn
<1>7. \A p \in D : ~Exists(t, p)
  BY DEF GoneFrom
<1>8. \A p \in Path : Exists(I, p) /\ ~Exists(t, p) => p \in D
  BY DEF Knows, GoneFrom
<1>9. ASSUME Records(m, I), Knows(m, I, Path)
      PROVE  C \subseteq Differ(I, t) /\ D \subseteq Differ(I, t)
  <2>1. ASSUME NEW p \in C PROVE p \in Differ(I, t)
    BY <1>9, <2>1 DEF NewIn, Knows, Records, Differ, Exists
  <2>2. ASSUME NEW p \in D PROVE p \in Differ(I, t)
    BY <1>9, <2>2 DEF GoneFrom, Records, Differ, Exists
  <2> QED
    BY <2>1, <2>2
<1> HIDE DEF C, D
<1>10. ApplyLayer(I, r.layer) = t
  <2>1. I = [p \in Path |-> I[p]] /\ t = [p \in Path |-> t[p]]
    BY DEF IsDisk
  <2> HIDE DEF F
  <2> QED
    BY <1>1, <1>2, <1>5, <1>6, <1>7, <1>8, <2>1, LayerMakes
<1>11. IsLayer(r.layer)
  <2>1. F \in SUBSET filesWithParentDirs(Path) /\ D \in SUBSET filesWithParentDirs(Path)
    BY <1>5 DEF filesWithParentDirs
  <2> HIDE DEF F
  <2> QED
    BY <1>2, <2>1, TarHolds
<1>12. ASSUME Records(m, I), Knows(m, I, Path)
       PROVE  r.layer.adds \subseteq filesWithParentDirs(Differ(I, t))
  <2>1. Differ(I, t) \in SUBSET Path
    BY DEF Differ
  <2>2. C \in SUBSET filesWithParentDirs(Differ(I, t))
        /\ D \in SUBSET filesWithParentDirs(Differ(I, t))
    BY <1>9, <1>12 DEF filesWithParentDirs
  <2>3. F \in SUBSET filesWithParentDirs(Differ(I, t))
    BY <2>1, <2>2, WithParents
  <2> HIDE DEF F
  <2> QED
    BY <1>2, <2>1, <2>2, <2>3, TarHolds
<1> QED
  BY <1>2, <1>3, <1>10, <1>11, <1>12 DEF CutsByScan

(***************************************************************************)
(* A layer cut from a list of files that has all that was written.         *)
(***************************************************************************)
CutsByList(I, t, m, f, r) ==
    /\ IsMap(r.l)
    /\ Records(m, I) => Records(r.l, t)
    /\ \A S \in SUBSET Path : Knows(m, I, S) => Knows(r.l, t, S)
    /\ \/ r.layer = None /\ t = I
       \/ /\ IsLayer(r.layer) /\ ApplyLayer(I, r.layer) = t
          /\ \A T \in SUBSET Path :
               Differ(I, t) \subseteq T /\ f \subseteq filesWithParentDirs(T) =>
                  r.layer.adds \subseteq filesWithParentDirs(T)

(***************************************************************************)
(* Such is the layer of TakeSnapshot.                                      *)
(***************************************************************************)
LEMMA CutByList ==
    ASSUME NEW I, IsDisk(I), NEW t, IsDisk(t), NEW m, IsMap(m),
           NEW f \in SUBSET Path, \A p \in f : Exists(t, p),
           \A p \in Path : Exists(t, p) /\ I[p] # t[p] => p \in filesWithParentDirs(f),
           f = {} => t = I, NEW shd \in BOOLEAN, NEW force,
           shd => Records(m, I) /\ \A p \in Path : Exists(I, p) /\ ~Exists(t, p) =>
                                      getCurrentImage(m)[p] # NoHash,
           ~shd => \A p \in Path : Exists(I, p) => Exists(t, p),
           NEW r, r = TakeSnapshot(m, t, f, shd, force)
    PROVE  CutsByList(I, t, m, f, r)
<1> DEFINE F == filesWithParentDirs(f)
           D == IF shd THEN GoneFrom(m, t) ELSE {}
<1>1. IsTree(t) /\ IsTree(I) /\ I = [p \in Path |-> I[p]] /\ t = [p \in Path |-> t[p]]
  BY DEF IsDisk
<1>2. /\ IsMap(r.l)
      /\ f = {} /\ ~force => r.layer = None /\ getCurrentImage(r.l) = getCurrentImage(m)
      /\ ~(f = {} /\ ~force) =>
           /\ r.layer = writeToTar(t, F, removeObsoleteWhiteouts(D))
           /\ \A p \in Path : getCurrentImage(r.l)[p] =
                IF p \in D THEN NoHash
                ELSE IF p \in F THEN hasher("full", t[p]) ELSE getCurrentImage(m)[p]
  <2>1. Taken(m, t, f, D, force, r)
    BY <1>1, TakenMap
  <2> HIDE DEF D
  <2> QED
    BY <2>1, Zenon DEF Taken
<1>3. CASE f = {} /\ ~force
  BY <1>2, <1>3 DEF Records, Knows, CutsByList
<1>4. CASE ~(f = {} /\ ~force)
  <2>1. /\ r.layer = writeToTar(t, F, removeObsoleteWhiteouts(D))
        /\ \A p \in Path : getCurrentImage(r.l)[p] =
                IF p \in D THEN NoHash
                ELSE IF p \in F THEN hasher("full", t[p]) ELSE getCurrentImage(m)[p]
    BY <1>2, <1>4
  <2>2. F \in SUBSET Path /\ \A p \in F : Exists(t, p)
    BY <1>1, ParentsExist
  <2>3. D \in SUBSET Path /\ \A p \in D : ~Exists(t, p)
    BY DEF GoneFrom
  <2>4. \A p \in Path : Exists(I, p) /\ ~Exists(t, p) => p \in D
    BY DEF GoneFrom
  <2>5. D \subseteq Differ(I, t)
    BY DEF GoneFrom, Records, Differ, Exists
  <2>6. \A p \in Path : Exists(t, p) /\ p \notin F => I[p] = t[p]
    OBVIOUS
  <2>10. shd => \A p \in Path : ~Exists(t, p) /\ getCurrentImage(m)[p] # NoHash => p \in D
    BY DEF GoneFrom
  <2> HIDE DEF D
  <2>7. ASSUME Records(m, I) PROVE Records(r.l, t)
    <3> SUFFICES ASSUME NEW p \in Path, getCurrentImage(r.l)[p] # NoHash
                 PROVE  Exists(t, p) /\ getCurrentImage(r.l)[p] = hasher("full", t[p])
      BY DEF Records
    <3>1. CASE p \in F
      BY <2>1, <2>2, <3>1
    <3>2. CASE p \notin F
      <4>1. p \notin D /\ getCurrentImage(r.l)[p] = getCurrentImage(m)[p]
        BY <2>1, <3>2
      <4>2. Exists(I, p) /\ getCurrentImage(m)[p] = hasher("full", I[p])
        BY <2>7, <4>1 DEF Records
      <4>3. Exists(t, p)
        BY <2>10, <4>1, <4>2
      <4> QED
        BY <2>6, <3>2, <4>1, <4>2, <4>3
    <3> QED
      BY <3>1, <3>2
  <2>8. ASSUME NEW S \in SUBSET Path, Knows(m, I, S) PROVE Knows(r.l, t, S)
    <3> SUFFICES ASSUME NEW p \in S, Exists(t, p) PROVE getCurrentImage(r.l)[p] # NoHash
      BY DEF Knows
    <3>1. p \in Path /\ p \notin D
      BY <2>3
    <3>2. CASE p \in F
      BY <2>1, <3>1, <3>2, FullHash
    <3>3. CASE p \notin F
      <4>1. I[p] = t[p]
        BY <2>6, <3>1, <3>3
      <4>2. Exists(I, p)
        BY <4>1 DEF Exists
      <4>3. getCurrentImage(m)[p] # NoHash
        BY <2>8, <4>2 DEF Knows
      <4> QED
        BY <2>1, <3>1, <3>3, <4>3
    <3> QED
      BY <3>2, <3>3
  <2>9. IsLayer(r.layer) /\ ApplyLayer(I, r.layer) = t
    <3>1. \A p \in Path : Exists(t, p) /\ I[p] # t[p] => p \in F
      OBVIOUS
    <3>2. F \in SUBSET filesWithParentDirs(Path) /\ D \in SUBSET filesWithParentDirs(Path)
      BY <2>2, <2>3 DEF filesWithParentDirs
    <3> HIDE DEF F
    <3>3. ApplyLayer(I, r.layer) = t
      BY <1>1, <2>1, <2>2, <2>3, <2>4, <3>1, LayerMakes
    <3>4. IsLayer(r.layer)
      BY <2>1, <3>2, TarHolds
    <3> QED
      BY <3>3, <3>4
  <2>11. ASSUME NEW T \in SUBSET Path, Differ(I, t) \subseteq T, f \subseteq filesWithParentDirs(T)
         PROVE  r.layer.adds \subseteq filesWithParentDirs(T)
    <3>1. F \in SUBSET filesWithParentDirs(T)
      BY <2>11, WithParents
    <3>2. D \in SUBSET filesWithParentDirs(T)
      BY <2>5, <2>11 DEF filesWithParentDirs
    <3> HIDE DEF F
    <3> QED
      BY <2>1, <3>1, <3>2, TarHolds
  <2> QED
    BY <1>2, <2>7, <2>8, <2>9, <2>11 DEF CutsByList
<1> QED
  BY <1>3, <1>4

(***************************************************************************)
(* Everything a command touches.                                           *)
(***************************************************************************)
LEMMA TouchedIs ==
    ASSUME NEW j \in Job, NEW i \in 1 .. Len(j.cmds)
    PROVE  /\ Differ(M(j, i - 1), M(j, i)) \cup Named(j, i) \in SUBSET Path
           /\ Touched(j, i) =
                filesWithParentDirs(Differ(M(j, i - 1), M(j, i)) \cup Named(j, i))
<1>1. Named(j, i) \in SUBSET Path
  BY CommandOf DEF Named, IsCommand
<1> QED
  BY <1>1 DEF Touched, Differ, M

Cut(j, i, b, t, init, r) ==
    /\ IsMap(r.l) /\ Tracks(j, r.l, init, t)
    /\ (r.layer = None /\ t = b) \/ (IsLayer(r.layer) /\ Right(j, i, r.layer))

(***************************************************************************)
(* The layer that is cut after a command, where the base is unpacked.      *)
(***************************************************************************)
LEMMA CutLayer ==
    ASSUME NEW j \in Job, Plain(j), ~j.SingleSnapshot, NEW i \in 1 .. Len(j.cmds),
           NEW b, b = M(j, i - 1), NEW t, t = M(j, i), Makes(j, i, b, t),
           NEW m, IsMap(m), NEW init \in BOOLEAN, Tracks(j, m, init, b),
           j.cmds[i].op = "RUN" /\ ~j.RunV2 => init,
           NEW r, r = takeSnapshot(j, m, t, FilesToSnapshot(j, j.cmds[i], b, t),
                                   ShouldDetectDeletedFiles(j, j.cmds[i]))
    PROVE  Cut(j, i, b, t, init, r)
<1> DEFINE f == FilesToSnapshot(j, j.cmds[i], b, t)
           shd == ShouldDetectDeletedFiles(j, j.cmds[i])
           T == Differ(b, t) \cup Named(j, i)
<1>1. Effect(j, j.cmds[i], b, t)
  BY Executed
<1>2. IsDisk(b) /\ IsDisk(t)
  BY <1>1 DEF Effect, Makes
<1>3. T \in SUBSET Path /\ Touched(j, i) = filesWithParentDirs(T)
  BY TouchedIs
<1>4. /\ f = None => \/ j.cmds[i].op = "RUN" /\ ~j.RunV2
                     \/ j.cmds[i].op = "COPY" /\ j.ctx[j.cmds[i].src] = None /\ t = b
      /\ j.cmds[i].op = "RUN" /\ ~j.RunV2 => f = None
      /\ f # None =>
           /\ f \in SUBSET Path /\ \A p \in f : Exists(t, p)
           /\ \A p \in Path : Exists(t, p) /\ b[p] # t[p] => p \in filesWithParentDirs(f)
           /\ f = {} => t = b
           /\ f \subseteq filesWithParentDirs(T)
  <2>1. Lists(j, i, b, t, f)
    BY Listed
  <2> HIDE DEF f
  <2> QED
    BY <2>1 DEF Lists
<1>5. r = IF f = None THEN scanFullFilesystem(m, t)
          ELSE TakeSnapshot(m, t, f, shd, j.ForceBuildMetadata)
  BY DEF takeSnapshot
<1>6. shd <=> j.cmds[i].op = "RUN" /\ j.RunV2
  BY DEF ShouldDetectDeletedFiles
<1>7. shd \in BOOLEAN
  BY DEF ShouldDetectDeletedFiles
<1> HIDE DEF f, shd, T
<1>8. CASE f = None
  <2>1. (Records(m, b) /\ Knows(m, b, Path)) \/ b = t
    BY <1>4, <1>8 DEF Tracks
  <2>2. r = scanFullFilesystem(m, t)
    BY <1>5, <1>8
  <2>3. /\ IsMap(r.l) /\ Records(r.l, t) /\ Knows(r.l, t, Path)
        /\ IsLayer(r.layer) /\ ApplyLayer(b, r.layer) = t
        /\ Records(m, b) /\ Knows(m, b, Path) =>
             r.layer.adds \subseteq filesWithParentDirs(Differ(b, t))
    <3>1. CutsByScan(b, t, m, r)
      BY <1>2, <2>1, <2>2, CutByScan
    <3> QED
      BY <3>1 DEF CutsByScan
  <2>4. Tracks(j, r.l, init, t)
    BY <2>3 DEF Tracks, Knows, OutOfBase
  <2>5. ASSUME AllCopiesFiles PROVE r.layer.adds \subseteq Touched(j, i)
    <3>1. j.cmds[i].op = "RUN" /\ ~j.RunV2
      BY <1>4, <1>8, <2>5, JobCmds DEF AllCopiesFiles, CopiesFiles
    <3>2. Records(m, b) /\ Knows(m, b, Path)
      BY <3>1 DEF Tracks
    <3>3. filesWithParentDirs(Differ(b, t)) \subseteq filesWithParentDirs(T)
      BY DEF filesWithParentDirs, T
    <3> QED
      BY <1>3, <2>3, <3>2, <3>3
  <2> QED
    BY <1>2, <2>3, <2>4, <2>5 DEF Right, Cut
<1>9. CASE f # None
  <2>1. r = TakeSnapshot(m, t, f, shd, j.ForceBuildMetadata)
    BY <1>5, <1>9
  <2>2. ASSUME shd
        PROVE  Records(m, b) /\ \A p \in Path : Exists(b, p) /\ ~Exists(t, p) =>
                                   getCurrentImage(m)[p] # NoHash
    <3>1. j.cmds[i].op = "RUN" /\ j.RunV2 /\ ~j.Cache
      BY <1>6, <2>2 DEF Plain
    <3>2. Records(m, b) /\ Knows(m, b, OutOfBase(j))
      BY <3>1 DEF Tracks
    <3>3. ASSUME NEW p \in Path, Exists(b, p), ~Exists(t, p) PROVE p \in OutOfBase(j)
      <4>1. PICK q \in j.cmds[i].removes : HasPrefix(p, q)
        BY <1>1, <3>1, <3>3 DEF Effect
      <4>2. ~Exists(BaseTree[j.base], q)
        BY <3>1, JobCmds DEF Plain
      <4>3. IsTree(BaseTree[j.base])
        BY CommandOf DEF IsDisk
      <4>4. ~Exists(BaseTree[j.base], p)
        BY <4>1, <4>2, <4>3 DEF HasPrefix, IsTree, Exists
      <4> QED
        BY <4>4 DEF OutOfBase
    <3> QED
      BY <3>2, <3>3 DEF Knows
  <2>3. ~shd => \A p \in Path : Exists(b, p) => Exists(t, p)
    BY <1>1, <1>4, <1>6, <1>9 DEF Effect
  <2>4. /\ IsMap(r.l)
        /\ Records(m, b) => Records(r.l, t)
        /\ \A S \in SUBSET Path : Knows(m, b, S) => Knows(r.l, t, S)
        /\ \/ r.layer = None /\ t = b
           \/ /\ IsLayer(r.layer) /\ ApplyLayer(b, r.layer) = t
              /\ \A U \in SUBSET Path :
                   Differ(b, t) \subseteq U /\ f \subseteq filesWithParentDirs(U) =>
                      r.layer.adds \subseteq filesWithParentDirs(U)
    <3>1. CutsByList(b, t, m, f, r)
      BY <1>2, <1>4, <1>7, <1>9, <2>1, <2>2, <2>3, CutByList
    <3> QED
      BY <3>1 DEF CutsByList
  <2>5. Tracks(j, r.l, init, t)
    <3>1. OutOfBase(j) \in SUBSET Path /\ Path \in SUBSET Path
      BY DEF OutOfBase
    <3> QED
      BY <2>4, <3>1 DEF Tracks
  <2>6. ASSUME r.layer # None \/ t # b PROVE IsLayer(r.layer) /\ Right(j, i, r.layer)
    <3>1. Differ(b, t) \subseteq T
      BY DEF T
    <3>2. r.layer.adds \subseteq filesWithParentDirs(T)
      BY <1>3, <1>4, <1>9, <2>4, <2>6, <3>1
    <3> QED
      BY <1>2, <1>3, <2>4, <2>6, <3>2 DEF Right
  <2> QED
    BY <2>4, <2>5, <2>6 DEF Cut
<1> QED
  BY <1>8, <1>9

-----------------------------------------------------------------------------
(***************************************************************************)
(* Where the base is not unpacked.                                         *)
(***************************************************************************)

(***************************************************************************)
(* A layer laid over a part of an image makes a part of what it makes of   *)
(* the image.                                                              *)
(***************************************************************************)
LEMMA PartOfLayer ==
    ASSUME NEW d, NEW b, PartOf(d, b), NEW layer, NEW t, IsTree(t), ApplyLayer(b, layer) = t
    PROVE  /\ PartOf(ApplyLayer(d, layer), t)
           /\ ApplyLayer(d, layer) = [p \in Path |-> ApplyLayer(d, layer)[p]]
<1> DEFINE Gone(p) == \/ \E w \in layer.whiteouts : HasPrefix(p, w)
                      \/ \E q \in layer.adds : Below(p, q) /\ layer.nodes[q].kind # "dir"
<1>1. \A x : \A p \in Path : ApplyLayer(x, layer)[p] = IF p \in layer.adds THEN layer.nodes[p]
                                                       ELSE IF Gone(p) THEN Absent ELSE x[p]
  BY DEF ApplyLayer
<1> HIDE DEF Gone
<1>2. \A p \in Path : t[p] = IF p \in layer.adds THEN layer.nodes[p]
                             ELSE IF Gone(p) THEN Absent ELSE b[p]
  BY <1>1
<1>3. t[Root] # Absent /\ Root \in Path
  BY NewNodes, PathAssumption DEF IsTree
<1>4. PartOf(ApplyLayer(d, layer), t)
  BY <1>1, <1>2, <1>3 DEF PartOf
<1>5. ApplyLayer(d, layer) = [p \in Path |-> ApplyLayer(d, layer)[p]]
  BY DEF ApplyLayer
<1> QED
  BY <1>4, <1>5

(***************************************************************************)
(* A layer with nothing in it changes nothing.                             *)
(***************************************************************************)
LEMMA EmptyLayer ==
    ASSUME NEW b, b = [p \in Path |-> b[p]], NEW layer, layer.adds = {}, layer.whiteouts = {}
    PROVE  ApplyLayer(b, layer) = b
BY DEF ApplyLayer

(***************************************************************************)
(* The tarball of some files of a file system, and no whiteouts.           *)
(***************************************************************************)
LEMMA TarOfFiles ==
    ASSUME NEW d, NEW f \in SUBSET Path, NEW layer,
           layer = writeToTar(d, filesWithParentDirs(f), removeObsoleteWhiteouts({}))
    PROVE  /\ IsLayer(layer) /\ layer.adds = filesWithParentDirs(f)
           /\ layer.nodes = d /\ layer.whiteouts = {}
<1> DEFINE kept == {p \in removeObsoleteWhiteouts({}) : ~parentPathIncludesNonDirectory(d, p)}
           F == filesWithParentDirs(f)
           adds == F \cup UNION {ParentDirectories(p) : p \in F \cup kept}
<1>1. layer = [adds |-> adds, nodes |-> d, whiteouts |-> kept]
  BY DEF writeToTar
<1>2. kept = {}
  BY DEF removeObsoleteWhiteouts
<1>3. F \in SUBSET filesWithParentDirs(f) /\ {} \in SUBSET filesWithParentDirs(f)
  OBVIOUS
<1>4. layer.adds \subseteq F /\ IsLayer(layer)
  BY <1>3, TarHolds
<1> HIDE DEF F, kept
<1>5. layer.adds = adds /\ layer.nodes = d /\ layer.whiteouts = kept
  BY <1>1
<1> QED
  BY <1>2, <1>4, <1>5 DEF F

(***************************************************************************)
(* A WORKDIR where the base is not unpacked: what it makes on the disk it  *)
(* also makes, or finds, in the image.                                     *)
(***************************************************************************)
PartlyMakes(p, b, t, d, d2) ==
    /\ IsDisk(t) /\ d2 = [q \in Path |-> d2[q]] /\ PartOf(d2, t)
    /\ Exists(d, p) => t = b
    /\ d2 # d => /\ \A q \in filesWithParentDirs({p}) : d2[q] = t[q] /\ t[q].kind = "dir"
                 /\ \A q \in Path : q \notin filesWithParentDirs({p}) => t[q] = b[q]

(***************************************************************************)
(* That is what a WORKDIR does there.                                      *)
(***************************************************************************)
LEMMA PackedWorkdir ==
    ASSUME NEW p \in Path, NEW b, IsDisk(b), NEW t, t = IF Exists(b, p) THEN b ELSE Put(b, p, NewDir),
           \A q \in filesWithParentDirs({p}) : t[q] = NewDir,
           NEW d, d = [q \in Path |-> d[q]], PartOf(d, b), CanPut(d, p) \/ d[p].kind = "dir",
           NEW d2, d2 = IF Exists(d, p) THEN d ELSE Put(d, p, NewDir)
    PROVE  PartlyMakes(p, b, t, d, d2)
<1> DEFINE F == filesWithParentDirs({p})
<1>0. F = {p} \cup ParentDirectories(p) /\ F \subseteq Path /\ Root \in F
  BY PathAssumption, RootIsParent DEF filesWithParentDirs
<1>1. \A q \in Path : t[q] = b[q] \/ (q \in F /\ ~Exists(b, q))
  BY <1>0 DEF Put
<1>2. IsDisk(t)
  <2>1. CASE Exists(b, p)
    BY <2>1
  <2>2. CASE ~Exists(b, p)
    <3>1. CanPut(b, p)
      BY <1>0, <1>1, <2>2, NewNodes DEF CanPut, Exists
    <3> QED
      BY <2>2, <3>1, PutDisk, NewNodes
  <2> QED
    BY <2>1, <2>2
<1>3. ASSUME Exists(d, p) PROVE t = b
  <2>1. Exists(b, p)
    BY <1>3, NewNodes DEF PartOf, Exists, IsDisk, IsTree
  <2> QED
    BY <2>1
<1>4. CASE Exists(d, p)
  BY <1>2, <1>3, <1>4 DEF PartlyMakes
<1>5. CASE ~Exists(d, p)
  <2>1. \A q \in Path : d2[q] = IF q = p THEN NewDir
                                ELSE IF q \in ParentDirectories(p) /\ ~Exists(d, q) THEN NewDir
                                ELSE d[q]
    BY <1>5 DEF Put
  <2>2. d2 = [q \in Path |-> d2[q]]
    BY <1>5 DEF Put
  <2>3. ASSUME NEW q \in F PROVE d2[q] = t[q] /\ t[q].kind = "dir"
    <3>1. t[q] = NewDir /\ q \in Path
      BY <1>0
    <3>2. CASE q = p \/ ~Exists(d, q)
      BY <1>0, <2>1, <3>1, <3>2, NewNodes
    <3>3. CASE q # p /\ Exists(d, q)
      <4>1. d2[q] = d[q]
        BY <2>1, <3>1, <3>3
      <4>2. d[q] = NewDir \/ (d[q] = b[q] /\ Exists(b, q))
        BY <3>1, <3>3, NewNodes DEF PartOf, Exists
      <4>3. d[q] = t[q]
        BY <1>1, <3>1, <4>2
      <4> QED
        BY <3>1, <4>1, <4>3, NewNodes
    <3> QED
      BY <3>2, <3>3
  <2>4. \A q \in Path : q \notin F => t[q] = b[q] /\ d2[q] = d[q]
    BY <1>0, <1>1, <2>1
  <2> HIDE DEF F
  <2>5. PartOf(d2, t)
    BY <1>0, <2>3, <2>4 DEF PartOf
  <2> QED
    BY <1>2, <1>5, <2>2, <2>3, <2>4, <2>5 DEF F, PartlyMakes
<1> QED
  BY <1>4, <1>5

PackedCut(j, i, b, t, d, d2, r) ==
    /\ IsDisk(t) /\ d2 = [p \in Path |-> d2[p]] /\ PartOf(d2, t) /\ IsMap(r.l)
    /\ j.cmds[i].op = "ENV" => t = b /\ d2 = d
    /\ (r.layer = None /\ t = b) \/ (IsLayer(r.layer) /\ Right(j, i, r.layer))

(***************************************************************************)
(* The layer of a command that is executed where the base is not unpacked. *)
(***************************************************************************)
LEMMA PackedLayer ==
    ASSUME NEW j \in Job, Plain(j), ~AlwaysUnpacks(j), NEW i \in 1 .. Len(j.cmds),
           j.cmds[i].op \in {"ENV", "WORKDIR"},
           NEW b, b = M(j, i - 1), IsDisk(b), NEW t, t = M(j, i),
           NEW d, d = [p \in Path |-> d[p]], PartOf(d, b), CanExecute(j, j.cmds[i], d),
           NEW e, NEW d2, d2 = Execute(j, j.cmds[i], d, e), NEW m, IsMap(m),
           NEW r, r = takeSnapshot(j, m, d2, FilesToSnapshot(j, j.cmds[i], d, d2),
                                   ShouldDetectDeletedFiles(j, j.cmds[i]))
    PROVE  PackedCut(j, i, b, t, d, d2, r)
<1> DEFINE cmd == j.cmds[i]
           p == cmd.dst[j.arg]
           f == FilesToSnapshot(j, cmd, d, d2)
<1>1. ~j.SingleSnapshot /\ ~ShouldDetectDeletedFiles(j, cmd)
  BY DEF Plain, ShouldDetectDeletedFiles
<1>2. t = Execute(j, cmd, b, Meaning[j][i - 1].env)
  BY MeaningSteps DEF M
<1>3. IsCommand(cmd, j.arg)
  BY CommandOf
<1>4. f = IF d = d2 THEN {} ELSE {p}
  <2>1. CASE cmd.op = "ENV"
    BY <2>1 DEF FilesToSnapshot, Execute
  <2>2. CASE cmd.op = "WORKDIR"
    BY <2>2 DEF FilesToSnapshot
  <2> QED
    BY <2>1, <2>2
<1>5. ASSUME cmd.op = "ENV" PROVE t = b /\ d2 = d
  BY <1>2, <1>5 DEF Execute
<1>6. ASSUME cmd.op = "WORKDIR"
      PROVE  /\ p \in Path
             /\ IsDisk(t) /\ d2 = [q \in Path |-> d2[q]] /\ PartOf(d2, t)
             /\ d2 = d => t = b
             /\ d2 # d => /\ \A q \in filesWithParentDirs({p}) :
                                 d2[q] = t[q] /\ t[q].kind = "dir"
                          /\ \A q \in Path : q \notin filesWithParentDirs({p}) => t[q] = b[q]
  <2>1. p \in Path /\ p # None
    BY <1>3, <1>6, NoneAssumption DEF IsCommand
  <2>2. t = (IF Exists(b, p) THEN b ELSE Put(b, p, NewDir))
        /\ d2 = (IF Exists(d, p) THEN d ELSE Put(d, p, NewDir))
    BY <1>2, <1>6 DEF Execute
  <2>3. CanPut(d, p) \/ d[p].kind = "dir"
    BY <2>1 DEF CanExecute
  <2>4. \A q \in filesWithParentDirs({p}) : t[q] = NewDir
    BY <1>6, JobCmds DEF Plain, M
  <2>5. d2 = d => Exists(d, p)
    <3>1. ~Exists(d, p) => d2[p] = NewDir
      BY <2>1, <2>2 DEF Put
    <3> QED
      BY <3>1, NewNodes DEF Exists
  <2> HIDE DEF p, cmd
  <2>6. /\ IsDisk(t) /\ d2 = [q \in Path |-> d2[q]] /\ PartOf(d2, t)
        /\ Exists(d, p) => t = b
        /\ d2 # d => /\ \A q \in filesWithParentDirs({p}) : d2[q] = t[q] /\ t[q].kind = "dir"
                     /\ \A q \in Path : q \notin filesWithParentDirs({p}) => t[q] = b[q]
    <3>1. PartlyMakes(p, b, t, d, d2)
      BY <2>1, <2>2, <2>3, <2>4, PackedWorkdir
    <3> QED
      BY <3>1 DEF PartlyMakes
  <2> QED
    BY <2>1, <2>5, <2>6
<1>7. /\ IsDisk(t) /\ d2 = [q \in Path |-> d2[q]] /\ PartOf(d2, t)
      /\ d2 = d => t = b
      /\ d2 # d => p \in Path /\ cmd.op = "WORKDIR"
  BY <1>5, <1>6
<1>8. f \in SUBSET Path /\ f # None
  BY <1>4, <1>7, NoneAssumption
<1>9. r = TakeSnapshot(m, d2, f, FALSE, j.ForceBuildMetadata)
  BY <1>1, <1>8 DEF takeSnapshot, ShouldDetectDeletedFiles
<1> HIDE DEF f
<1>10. Taken(m, d2, f, {}, j.ForceBuildMetadata, r)
  <2>1. Taken(m, d2, f, IF FALSE THEN GoneFrom(m, d2) ELSE {}, j.ForceBuildMetadata, r)
    BY <1>8, <1>9, TakenMap
  <2> QED
    BY <2>1
<1>11. IsMap(r.l)
  BY <1>10 DEF Taken
<1>12. CASE f = {} /\ ~j.ForceBuildMetadata
  <2>1. r.layer = None /\ t = b
    BY <1>4, <1>7, <1>10, <1>12 DEF Taken
  <2> QED
    BY <1>5, <1>7, <1>11, <2>1 DEF PackedCut
<1>13. CASE ~(f = {} /\ ~j.ForceBuildMetadata)
  <2>1. r.layer = writeToTar(d2, filesWithParentDirs(f), removeObsoleteWhiteouts({}))
    BY <1>10, <1>13 DEF Taken
  <2>2. /\ IsLayer(r.layer) /\ r.layer.adds = filesWithParentDirs(f)
        /\ r.layer.nodes = d2 /\ r.layer.whiteouts = {}
    BY <1>8, <2>1, TarOfFiles
  <2>3. b = [q \in Path |-> b[q]] /\ t = [q \in Path |-> t[q]]
    BY <1>7 DEF IsDisk
  <2>4. CASE d2 = d
    <3>1. f = {} /\ t = b
      BY <1>4, <1>7, <2>4
    <3>2. r.layer.adds = {}
      BY <2>2, <3>1 DEF filesWithParentDirs
    <3>3. ApplyLayer(b, r.layer) = t
      BY <2>2, <2>3, <3>1, <3>2, EmptyLayer
    <3> QED
      BY <1>5, <1>7, <1>11, <2>2, <3>2, <3>3 DEF Right, PackedCut
  <2>5. CASE d2 # d
    <3>1. f = {p} /\ p \in Path /\ cmd.op = "WORKDIR"
      BY <1>4, <1>7, <2>5
    <3>2. ASSUME NEW q \in Path PROVE ApplyLayer(b, r.layer)[q] = t[q]
      <4>1. ApplyLayer(b, r.layer)[q] =
              IF q \in r.layer.adds THEN r.layer.nodes[q]
              ELSE IF \/ \E w \in r.layer.whiteouts : HasPrefix(q, w)
                      \/ \E a \in r.layer.adds : Below(q, a) /\ r.layer.nodes[a].kind # "dir"
              THEN Absent ELSE b[q]
        BY DEF ApplyLayer
      <4>2. \A a \in filesWithParentDirs({p}) : d2[a] = t[a] /\ d2[a].kind = "dir"
        BY <1>6, <2>5, <3>1
      <4>3. q \notin filesWithParentDirs({p}) => t[q] = b[q]
        BY <1>6, <2>5, <3>1
      <4>4. ~ \E w \in r.layer.whiteouts : HasPrefix(q, w)
        BY <2>2
      <4>5. ~ \E a \in r.layer.adds : Below(q, a) /\ r.layer.nodes[a].kind # "dir"
        BY <2>2, <3>1, <4>2
      <4>6. ApplyLayer(b, r.layer)[q] = IF q \in r.layer.adds THEN r.layer.nodes[q] ELSE b[q]
        BY <4>1, <4>4, <4>5
      <4> QED
        BY <2>2, <3>1, <4>2, <4>3, <4>6
    <3>3. ApplyLayer(b, r.layer) = [q \in Path |-> ApplyLayer(b, r.layer)[q]]
      BY DEF ApplyLayer
    <3>4. ApplyLayer(b, r.layer) = t
      BY <2>3, <3>2, <3>3
    <3>5. Named(j, i) = {p}
      BY <3>1, NoneAssumption DEF Named
    <3>6. filesWithParentDirs({p}) \subseteq Touched(j, i)
      BY <3>5, TouchedIs DEF filesWithParentDirs
    <3> QED
      BY <1>5, <1>7, <1>11, <2>2, <3>1, <3>4, <3>6 DEF Right, PackedCut
  <2> QED
    BY <2>4, <2>5
<1> QED
  BY <1>12, <1>13

-----------------------------------------------------------------------------
(***************************************************************************)
(* The layers of the image.                                                *)
(***************************************************************************)
Listing(j, ls, i) == IsList(ls) /\ Chain(j, ls) /\ CaughtUp(j, ls, i)

Grown(j, ls, i) == IsList(ls) /\ Chain(j, ls) /\ Len(ls) # 0 /\ Upto(ls, Len(ls)) = i

(***************************************************************************)
(* A layer that goes from the last layer's file system to the one of its   *)
(* command is appended.                                                    *)
(***************************************************************************)
LEMMA AppendedLayer ==
    ASSUME NEW j \in Job, NEW ls, IsList(ls), Chain(j, ls), NEW i \in 1 .. Len(j.cmds),
           Upto(ls, Len(ls)) < i, NEW layer,
           ApplyLayer(M(j, Upto(ls, Len(ls))), layer) = M(j, i),
           ~j.SingleSnapshot /\ AllCopiesFiles => layer.adds \subseteq Touched(j, i),
           NEW ls2, ls2 = Append(ls, [cmd |-> i, layer |-> layer])
    PROVE  Grown(j, ls2, i)
<1> DEFINE x == [cmd |-> i, layer |-> layer]
<1>1. PICK S : ls \in Seq(S)
  BY DEF IsList
<1>2. ls \in Seq(S \cup {x}) /\ Len(ls) \in Nat
  BY <1>1
<1>3. x.cmd = i /\ x.layer = layer
  OBVIOUS
<1>4. x \in S \cup {x}
  OBVIOUS
<1> HIDE DEF x
<1>5. /\ Append(ls, x) \in Seq(S \cup {x}) /\ Len(Append(ls, x)) = Len(ls) + 1
      /\ \A n \in 1 .. Len(ls) : Append(ls, x)[n] = ls[n]
      /\ Append(ls, x)[Len(ls) + 1] = x
  BY <1>2, <1>4, AppendProperties
<1>6. ls2 = Append(ls, x)
  BY DEF x
<1>7. /\ ls2 \in Seq(S \cup {x}) /\ Len(ls2) = Len(ls) + 1
      /\ \A n \in 1 .. Len(ls) : ls2[n] = ls[n]
      /\ ls2[Len(ls) + 1] = x
  BY <1>5, <1>6
<1>8. \A n \in 0 .. Len(ls) : Upto(ls2, n) = Upto(ls, n)
  BY <1>2, <1>7 DEF Upto
<1>9. Upto(ls2, Len(ls2)) = i /\ Len(ls2) # 0
  BY <1>2, <1>3, <1>7 DEF Upto
<1>10. ASSUME NEW n \in 1 .. Len(ls2)
       PROVE  /\ ls2[n].cmd \in 1 .. Len(j.cmds) /\ Upto(ls2, n - 1) < ls2[n].cmd
              /\ ApplyLayer(M(j, Upto(ls2, n - 1)), ls2[n].layer) = M(j, ls2[n].cmd)
              /\ ~j.SingleSnapshot /\ AllCopiesFiles =>
                   ls2[n].layer.adds \subseteq Touched(j, ls2[n].cmd)
  <2>1. CASE n \in 1 .. Len(ls)
    <3>1. ls2[n] = ls[n] /\ n - 1 \in 0 .. Len(ls)
      BY <1>2, <1>7, <2>1
    <3>2. Upto(ls2, n - 1) = Upto(ls, n - 1)
      BY <1>8, <3>1
    <3> QED
      BY <2>1, <3>1, <3>2 DEF Chain
  <2>2. CASE n = Len(ls) + 1
    <3>1. ls2[n] = x /\ n - 1 = Len(ls)
      BY <1>2, <1>7, <2>2
    <3>2. Upto(ls2, n - 1) = Upto(ls, Len(ls))
      BY <1>2, <1>8, <3>1
    <3> QED
      BY <1>3, <3>1, <3>2
  <2>3. n \in 1 .. Len(ls) \/ n = Len(ls) + 1
    BY <1>2, <1>7
  <2> QED
    BY <2>1, <2>2, <2>3
<1>11. Chain(j, ls2)
  BY <1>10 DEF Chain
<1>12. IsList(ls2)
  BY <1>7 DEF IsList
<1> QED
  BY <1>9, <1>11, <1>12 DEF Grown

(***************************************************************************)
(* The commands without a layer after the last layer changed nothing.      *)
(***************************************************************************)
LEMMA LastLayer ==
    ASSUME NEW j \in Job, NEW ls, IsList(ls), Chain(j, ls)
    PROVE  Upto(ls, Len(ls)) \in 0 .. Len(j.cmds) /\ Len(ls) \in Nat
           /\ (Len(ls) = 0 <=> ls = << >>)
<1>1. PICK S : ls \in Seq(S)
  BY DEF IsList
<1>2. Len(ls) \in Nat /\ Len(j.cmds) \in Nat /\ (Len(ls) = 0 <=> ls = << >>)
  BY <1>1, JobCmds, EmptySeq
<1>3. CASE Len(ls) = 0
  BY <1>2, <1>3 DEF Upto
<1>4. CASE Len(ls) # 0
  BY <1>2, <1>4 DEF Upto, Chain
<1> QED
  BY <1>2, <1>3, <1>4

(***************************************************************************)
(* A command that changes nothing needs no layer.                          *)
(***************************************************************************)
LEMMA NoLayer ==
    ASSUME NEW j \in Job, ~j.SingleSnapshot, NEW i \in 1 .. Len(j.cmds), NEW ls,
           Listing(j, ls, i), M(j, i) = M(j, i - 1)
    PROVE  Listing(j, ls, i + 1)
<1> DEFINE u == Upto(ls, Len(ls))
<1>1. u \in Nat /\ u < i
  BY LastLayer DEF Listing, CaughtUp
<1>2. \A k \in u + 1 .. i - 1 : M(j, k) = M(j, u)
  BY DEF Listing, CaughtUp
<1> HIDE DEF u
<1>3. M(j, i - 1) = M(j, u)
  BY <1>1, <1>2
<1>4. \A k \in u + 1 .. i : M(j, k) = M(j, u)
  <2> TAKE k \in u + 1 .. i
  <2>1. CASE k = i
    BY <1>3, <2>1
  <2>2. CASE k # i
    BY <1>1, <1>2, <2>2
  <2> QED
    BY <2>1, <2>2
<1>5. u < i + 1 /\ i + 1 - 1 = i
  BY <1>1
<1> QED
  BY <1>4, <1>5 DEF Listing, CaughtUp, u

(***************************************************************************)
(* A layer for a command is appended to those of the commands before.      *)
(***************************************************************************)
LEMMA OneLayerMore ==
    ASSUME NEW j \in Job, ~j.SingleSnapshot, NEW i \in 1 .. Len(j.cmds), NEW ls,
           Listing(j, ls, i), NEW layer, Right(j, i, layer), NEW ls2,
           ls2 = Append(ls, [cmd |-> i, layer |-> layer])
    PROVE  Listing(j, ls2, i + 1) /\ Len(ls2) # 0 /\ Upto(ls2, Len(ls2)) = i
<1> DEFINE u == Upto(ls, Len(ls))
<1>1. u \in Nat /\ u < i /\ IsList(ls) /\ Chain(j, ls)
  BY LastLayer DEF Listing, CaughtUp
<1>2. \A k \in u + 1 .. i - 1 : M(j, k) = M(j, u)
  BY DEF Listing, CaughtUp
<1>3. M(j, i - 1) = M(j, u)
  <2> HIDE DEF u
  <2> QED
    BY <1>1, <1>2
<1>4. Upto(ls, Len(ls)) < i /\ ApplyLayer(M(j, Upto(ls, Len(ls))), layer) = M(j, i)
  BY <1>1, <1>3 DEF Right
<1>5. IsList(ls2) /\ Chain(j, ls2) /\ Len(ls2) # 0 /\ Upto(ls2, Len(ls2)) = i
  <2>1. ~j.SingleSnapshot /\ AllCopiesFiles => layer.adds \subseteq Touched(j, i)
    BY DEF Right
  <2> HIDE DEF u
  <2>2. IsList(ls) /\ Chain(j, ls)
    BY <1>1
  <2>3. Grown(j, ls2, i)
    BY <1>4, <2>1, <2>2, AppendedLayer
  <2> QED
    BY <2>3 DEF Grown
<1>6. CaughtUp(j, ls2, i + 1)
  BY <1>5 DEF CaughtUp
<1> QED
  BY <1>5, <1>6 DEF Listing

Extends(ls, ls2, i) == ls2 = ls \/ \E layer : ls2 = Append(ls, [cmd |-> i, layer |-> layer])

LayerOf(j, i, layer) ==
    (layer = None /\ M(j, i) = M(j, i - 1)) \/ (IsLayer(layer) /\ Right(j, i, layer))

(***************************************************************************)
(* saveSnapshotToImage after a command.                                    *)
(***************************************************************************)
LEMMA SavedSnapshot ==
    ASSUME NoneIsNoLayer, NEW j \in Job, ~j.SingleSnapshot, NEW i \in 1 .. Len(j.cmds), NEW ls,
           Listing(j, ls, i), IsDisk(M(j, i - 1)), NEW layer, LayerOf(j, i, layer), NEW ls2,
           ls2 = saveSnapshotToImage(j, ls, i, layer)
    PROVE  Listing(j, ls2, i + 1) /\ Extends(ls, ls2, i)
<1>1. CASE layer = None
  <2>1. M(j, i) = M(j, i - 1)
    BY <1>1 DEF LayerOf, NoneIsNoLayer
  <2>2. ls2 = ls
    BY <1>1 DEF saveSnapshotToImage
  <2> QED
    BY <2>1, <2>2, NoLayer DEF Extends
<1>2. CASE layer # None
  <2>1. Right(j, i, layer)
    BY <1>2 DEF LayerOf
  <2>2. CASE layer.adds = {} /\ layer.whiteouts = {} /\ ~j.ForceBuildMetadata
    <3>1. ls2 = ls
      BY <2>2 DEF saveSnapshotToImage
    <3>2. ApplyLayer(M(j, i - 1), layer) = M(j, i - 1)
      BY <2>2, EmptyLayer DEF IsDisk
    <3>3. M(j, i) = M(j, i - 1)
      BY <2>1, <3>2 DEF Right
    <3> QED
      BY <3>1, <3>3, NoLayer DEF Extends
  <2>3. CASE ~(layer.adds = {} /\ layer.whiteouts = {} /\ ~j.ForceBuildMetadata)
    <3>1. ls2 = Append(ls, [cmd |-> i, layer |-> layer])
      BY <1>2, <2>3 DEF saveSnapshotToImage, saveLayerToImage
    <3> QED
      BY <2>1, <3>1, OneLayerMore DEF Extends
  <2> QED
    BY <2>2, <2>3
<1> QED
  BY <1>1, <1>2

(***************************************************************************)
(* The layers that are found, and what follows from a miss.                *)
(***************************************************************************)
Found(j, c) ==
    /\ \A n \in 1 .. Len(j.cmds) :
         c[n] # None => j.Cache /\ ShouldCacheOutput(j, j.cmds[n]) /\ Right(j, n, c[n])
    /\ \A n, k \in 1 .. Len(j.cmds) : n < k /\ Missed(j, c, n) => c[k] = None

(***************************************************************************)
(* Where the base stays packed, only commands are executed that do not     *)
(* need it, and a job that always unpacks does.                            *)
(***************************************************************************)
LEMMA PackedJob ==
    ASSUME NEW j \in Job, NEW c, Found(j, c), ~Unpacked(j, c)
    PROVE  /\ ~AlwaysUnpacks(j)
           /\ \A i \in 1 .. Len(j.cmds) : c[i] = None => j.cmds[i].op \in {"ENV", "WORKDIR"}
<1>1. ~AlwaysUnpacks(j)
  BY JobCmds DEF AlwaysUnpacks, Unpacked, Found
<1>2. ASSUME NEW i \in 1 .. Len(j.cmds), c[i] = None
      PROVE  j.cmds[i].op \in {"ENV", "WORKDIR"}
  BY <1>2, CommandOf DEF Unpacked, RequiresUnpackedFS, IsCommand
<1> QED
  BY <1>1, <1>2

IsReady(j, c, i, d, m, m1, init, init2) ==
    /\ IsMap(m1) /\ init2 \in BOOLEAN
    /\ j.cmds[i].op = "RUN" /\ ~j.RunV2 => init2
    /\ j.SingleSnapshot => m1 = m /\ init
    /\ ~j.SingleSnapshot => Tracks(j, m1, init2, d)
    /\ init2 /\ ~j.SingleSnapshot => \A k \in 1 .. Len(j.cmds) : i <= k => c[k] = None

(***************************************************************************)
(* The scan before the first command that does not list its files: from    *)
(* then on no command is taken from the cache.                             *)
(***************************************************************************)
LEMMA ScanBefore ==
    ASSUME NEW j \in Job, Plain(j), NEW i \in 1 .. Len(j.cmds), NEW c, c[i] = None, Found(j, c),
           NEW d, NEW m, IsMap(m), NEW init \in BOOLEAN, Unpacked(j, c), OnDisk(j, c, i, d),
           Tracked(j, c, i, d, m, init),
           NEW scan, scan = (~init /\ ~ProvidesFilesToSnapshot(j, j.cmds[i])),
           NEW m1, m1 = IF scan THEN scanFullFilesystem(m, d).l ELSE m
    PROVE  IsReady(j, c, i, d, m, m1, init, init \/ scan)
<1>0. scan \in BOOLEAN
  OBVIOUS
<1>1. CASE ~scan
  <2>1. m1 = m
    BY <1>1
  <2>2. j.cmds[i].op = "RUN" /\ ~j.RunV2 => init
    BY <1>1 DEF ProvidesFilesToSnapshot
  <2>3. j.SingleSnapshot => init
    BY DEF Tracked
  <2>4. ~j.SingleSnapshot => Tracks(j, m, init, d)
    BY DEF Tracked
  <2>5. init /\ ~j.SingleSnapshot => \A k \in 1 .. Len(j.cmds) : i <= k => c[k] = None
    BY DEF Tracked
  <2>6. (init \/ scan) = init
    BY <1>1
  <2> QED
    BY <1>1, <2>1, <2>2, <2>3, <2>4, <2>5, <2>6 DEF IsReady
<1>2. CASE scan
  <2>1. ~init /\ j.cmds[i].op = "RUN" /\ ~j.RunV2 /\ ~j.SingleSnapshot
    BY <1>2 DEF ProvidesFilesToSnapshot, Tracked
  <2>2. IsTree(d)
    BY DEF OnDisk, IsDisk
  <2>3. PICK r : r = scanFullFilesystem(m, d)
    OBVIOUS
  <2>4. Scanned(m, d, r)
    BY <2>2, <2>3, ScannedMap
  <2>5. m1 = r.l
    BY <1>2, <2>3
  <2>6. IsMap(m1) /\ Records(m1, d) /\ Knows(m1, d, Path)
    BY <2>4, <2>5, FullHash DEF Scanned, Records, Knows
  <2>7. Tracks(j, m1, TRUE, d)
    BY <2>6 DEF Tracks, Knows, OutOfBase
  <2>8. ASSUME NEW k \in 1 .. Len(j.cmds), i <= k, c[k] # None PROVE FALSE
    <3>1. j.Cache /\ ShouldCacheOutput(j, j.cmds[k]) /\ i # k
      BY <2>8 DEF Found
    <3>2. ~ShouldCacheOutput(j, j.cmds[i])
      <4>1. i < k
        BY <2>8, <3>1, JobCmds
      <4> QED
        BY <2>8, <4>1 DEF Found, Missed
    <3>3. ~j.CacheRunLayers
      BY <2>1, <3>2 DEF ShouldCacheOutput
    <3>4. ~j.CacheCopyLayers
      BY <3>1, <3>3 DEF Plain
    <3> QED
      BY <3>1, <3>3, <3>4 DEF ShouldCacheOutput
  <2>9. (init \/ scan) = TRUE
    BY <1>2
  <2> QED
    BY <2>1, <2>6, <2>7, <2>8, <2>9 DEF IsReady
<1> QED
  BY <1>0, <1>1, <1>2

(***************************************************************************)
(* A command is executed in the second pass: the state before, the scan if *)
(* there is one, the file system after the command and the snapshot.       *)
(***************************************************************************)
Runs(j, c, i, d, m, init, ls, scan, m1, d2, snap) ==
    /\ Found(j, c) /\ c[i] = None
    /\ IsMap(m) /\ init \in BOOLEAN
    /\ OnDisk(j, c, i, d) /\ Tracked(j, c, i, d, m, init) /\ Listing(j, ls, i)
    /\ CanExecute(j, j.cmds[i], d)
    /\ scan = (~init /\ ~ProvidesFilesToSnapshot(j, j.cmds[i]))
    /\ m1 = IF scan THEN scanFullFilesystem(m, d).l ELSE m
    /\ d2 = Execute(j, j.cmds[i], d, Meaning[j][i - 1].env)
    /\ snap = takeSnapshot(j, m1, d2, FilesToSnapshot(j, j.cmds[i], d, d2),
                           ShouldDetectDeletedFiles(j, j.cmds[i]))

(***************************************************************************)
(* What is known after a step over a command.                              *)
(***************************************************************************)
Goes(j, c, i, d2, m2, init2, ls, ls2) ==
    /\ IsMap(m2)
    /\ OnDisk(j, c, i + 1, d2) /\ Tracked(j, c, i + 1, d2, m2, init2) /\ Listing(j, ls2, i + 1)
    /\ Extends(ls, ls2, i)

GoesOn(j, c, i, d2, m1, init2, ls, snap) ==
    /\ Goes(j, c, i, d2, IF shouldTakeSnapshot(j, i) THEN snap.l ELSE m1, init2, ls,
            IF shouldTakeSnapshot(j, i) THEN saveSnapshotToImage(j, ls, i, snap.layer) ELSE ls)
    /\ j.Cache => snap.layer = None \/ Right(j, i, snap.layer)

(***************************************************************************)
(* After the layer is cut: with it the image catches up with the file      *)
(* system, and without it nothing has changed.                             *)
(***************************************************************************)
LEMMA CutGoesOn ==
    ASSUME NoneIsNoLayer, NEW j \in Job, ~j.SingleSnapshot, NEW i \in 1 .. Len(j.cmds), NEW c,
           NEW ls, Listing(j, ls, i), IsDisk(M(j, i - 1)), NEW d2, OnDisk(j, c, i + 1, d2),
           NEW m1, IsMap(m1), NEW init2, NEW snap, IsMap(snap.l), LayerOf(j, i, snap.layer),
           Tracked(j, c, i + 1, d2, snap.l, init2),
           j.cmds[i].op = "ENV" => M(j, i) = M(j, i - 1) /\ Tracked(j, c, i + 1, d2, m1, init2)
    PROVE  GoesOn(j, c, i, d2, m1, init2, ls, snap)
<1>1. j.Cache => snap.layer = None \/ Right(j, i, snap.layer)
  BY DEF LayerOf
<1>2. CASE shouldTakeSnapshot(j, i)
  <2>1. PICK ls2 : ls2 = saveSnapshotToImage(j, ls, i, snap.layer)
    OBVIOUS
  <2>2. Listing(j, ls2, i + 1) /\ Extends(ls, ls2, i)
    BY <2>1, SavedSnapshot
  <2>3. Goes(j, c, i, d2, snap.l, init2, ls, ls2)
    BY <2>2 DEF Goes
  <2> QED
    BY <1>1, <1>2, <2>1, <2>3 DEF GoesOn
<1>3. CASE ~shouldTakeSnapshot(j, i)
  <2>1. j.cmds[i].op = "ENV"
    BY <1>3 DEF shouldTakeSnapshot, MetadataOnly
  <2>2. Listing(j, ls, i + 1) /\ Extends(ls, ls, i)
    BY <2>1, NoLayer DEF Extends
  <2>3. Goes(j, c, i, d2, m1, init2, ls, ls)
    BY <2>1, <2>2 DEF Goes
  <2> QED
    BY <1>1, <1>3, <2>3 DEF GoesOn
<1> QED
  BY <1>2, <1>3

(***************************************************************************)
(* On the unpacked base the commands do what the Dockerfile says.          *)
(***************************************************************************)
LEMMA UnpackedRun ==
    ASSUME NEW j \in Job, NEW i \in 1 .. Len(j.cmds), NEW c, Unpacked(j, c), NEW d, NEW m,
           NEW init, NEW ls, NEW scan, NEW m1, NEW d2, NEW snap,
           Runs(j, c, i, d, m, init, ls, scan, m1, d2, snap)
    PROVE  /\ d = M(j, i - 1) /\ d2 = M(j, i) /\ IsDisk(d) /\ Makes(j, i, d, d2)
           /\ Effect(j, j.cmds[i], d, d2) /\ OnDisk(j, c, i + 1, d2) /\ i + 1 - 1 = i
<1>1. d = M(j, i - 1) /\ IsDisk(d)
  BY DEF Runs, OnDisk
<1>2. d2 = M(j, i)
  BY <1>1, MeaningSteps DEF Runs, M
<1>3. Makes(j, i, d, d2)
  BY <1>1 DEF Makes, Runs
<1>4. Effect(j, j.cmds[i], d, d2)
  BY <1>3, Executed
<1>5. i + 1 - 1 = i
  OBVIOUS
<1>6. IsDisk(M(j, i + 1 - 1)) /\ d2 = M(j, i + 1 - 1)
  BY <1>2, <1>4, <1>5 DEF Effect
<1>7. OnDisk(j, c, i + 1, d2)
  BY <1>6 DEF OnDisk
<1> QED
  BY <1>1, <1>2, <1>3, <1>4, <1>5, <1>7

(***************************************************************************)
(* A command that is executed on the unpacked base.                        *)
(***************************************************************************)
LEMMA RunsUnpacked ==
    ASSUME NoneIsNoLayer, NEW j \in Job, Plain(j), ~j.SingleSnapshot, NEW i \in 1 .. Len(j.cmds),
           NEW c, Unpacked(j, c), NEW d, NEW m, NEW init, NEW ls, NEW scan, NEW m1, NEW d2,
           NEW snap, Runs(j, c, i, d, m, init, ls, scan, m1, d2, snap)
    PROVE  GoesOn(j, c, i, d2, m1, init \/ scan, ls, snap)
<1>1. /\ d = M(j, i - 1) /\ d2 = M(j, i) /\ IsDisk(d) /\ Makes(j, i, d, d2)
      /\ Effect(j, j.cmds[i], d, d2) /\ OnDisk(j, c, i + 1, d2) /\ i + 1 - 1 = i
  BY UnpackedRun
<1>2. /\ c[i] = None /\ Found(j, c) /\ IsMap(m) /\ init \in BOOLEAN /\ OnDisk(j, c, i, d)
      /\ Tracked(j, c, i, d, m, init)
      /\ scan = (~init /\ ~ProvidesFilesToSnapshot(j, j.cmds[i]))
      /\ m1 = IF scan THEN scanFullFilesystem(m, d).l ELSE m
      /\ snap = takeSnapshot(j, m1, d2, FilesToSnapshot(j, j.cmds[i], d, d2),
                             ShouldDetectDeletedFiles(j, j.cmds[i]))
      /\ Listing(j, ls, i)
  BY DEF Runs
<1>3. PICK init2 : init2 = (init \/ scan)
  OBVIOUS
<1>4. /\ IsMap(m1) /\ init2 \in BOOLEAN
      /\ j.cmds[i].op = "RUN" /\ ~j.RunV2 => init2
      /\ Tracks(j, m1, init2, d)
      /\ init2 => \A k \in 1 .. Len(j.cmds) : i <= k => c[k] = None
  <2>1. IsReady(j, c, i, d, m, m1, init, init \/ scan)
    BY <1>2, ScanBefore
  <2>2. IsReady(j, c, i, d, m, m1, init, init2)
    BY <1>3, <2>1
  <2> QED
    BY <2>2 DEF IsReady
<1>5. /\ IsMap(snap.l) /\ Tracks(j, snap.l, init2, d2)
      /\ (snap.layer = None /\ d2 = d) \/ (IsLayer(snap.layer) /\ Right(j, i, snap.layer))
  <2>1. Cut(j, i, d, d2, init2, snap)
    BY <1>1, <1>2, <1>4, CutLayer
  <2> QED
    BY <2>1 DEF Cut
<1>6. LayerOf(j, i, snap.layer)
  BY <1>1, <1>5 DEF LayerOf
<1>7. \A k \in 1 .. Len(j.cmds) : init2 /\ i + 1 <= k => c[k] = None
  BY <1>4, JobCmds
<1>8. Tracked(j, c, i + 1, d2, snap.l, init2)
  BY <1>5, <1>7 DEF Tracked
<1>9. j.cmds[i].op = "ENV" => M(j, i) = M(j, i - 1) /\ Tracked(j, c, i + 1, d2, m1, init2)
  <2> SUFFICES ASSUME j.cmds[i].op = "ENV"
               PROVE  M(j, i) = M(j, i - 1) /\ Tracked(j, c, i + 1, d2, m1, init2)
    OBVIOUS
  <2>1. d2 = d
    BY <1>1 DEF Effect
  <2>2. Tracks(j, m1, init2, d2)
    BY <1>4, <2>1
  <2> QED
    BY <1>1, <1>7, <2>1, <2>2 DEF Tracked
<1>10. IsDisk(M(j, i - 1))
  BY <1>1
<1>11. GoesOn(j, c, i, d2, m1, init2, ls, snap)
  BY <1>1, <1>2, <1>4, <1>5, <1>6, <1>8, <1>9, <1>10, CutGoesOn
<1> QED
  BY <1>3, <1>11

(***************************************************************************)
(* A command that is executed on parts of the image.                       *)
(***************************************************************************)
LEMMA RunsPacked ==
    ASSUME NoneIsNoLayer, NEW j \in Job, Plain(j), NEW i \in 1 .. Len(j.cmds),
           NEW c, ~Unpacked(j, c), NEW d, NEW m, NEW init, NEW ls, NEW scan, NEW m1, NEW d2,
           NEW snap, Runs(j, c, i, d, m, init, ls, scan, m1, d2, snap)
    PROVE  GoesOn(j, c, i, d2, m1, init \/ scan, ls, snap)
<1>1. /\ c[i] = None /\ Found(j, c) /\ IsMap(m) /\ init \in BOOLEAN /\ OnDisk(j, c, i, d)
      /\ Tracked(j, c, i, d, m, init) /\ Listing(j, ls, i) /\ CanExecute(j, j.cmds[i], d)
      /\ scan = (~init /\ ~ProvidesFilesToSnapshot(j, j.cmds[i]))
      /\ m1 = IF scan THEN scanFullFilesystem(m, d).l ELSE m
      /\ d2 = Execute(j, j.cmds[i], d, Meaning[j][i - 1].env)
      /\ snap = takeSnapshot(j, m1, d2, FilesToSnapshot(j, j.cmds[i], d, d2),
                             ShouldDetectDeletedFiles(j, j.cmds[i]))
  BY DEF Runs
<1>2. ~AlwaysUnpacks(j) /\ j.cmds[i].op \in {"ENV", "WORKDIR"}
  BY <1>1, PackedJob
<1>3. ~j.SingleSnapshot
  BY <1>2 DEF Plain
<1>4. ~scan /\ m1 = m /\ (init \/ scan) = init
  BY <1>1, <1>2 DEF ProvidesFilesToSnapshot
<1>5. PICK b : b = M(j, i - 1)
  OBVIOUS
<1>6. PICK t : t = M(j, i)
  OBVIOUS
<1>7. IsDisk(b) /\ d = [p \in Path |-> d[p]] /\ PartOf(d, b)
  BY <1>1, <1>5 DEF OnDisk
<1>8. PICK e : e = Meaning[j][i - 1].env
  OBVIOUS
<1>9. /\ IsDisk(t) /\ d2 = [p \in Path |-> d2[p]] /\ PartOf(d2, t) /\ IsMap(snap.l)
      /\ j.cmds[i].op = "ENV" => t = b /\ d2 = d
      /\ (snap.layer = None /\ t = b) \/ (IsLayer(snap.layer) /\ Right(j, i, snap.layer))
  <2>1. d2 = Execute(j, j.cmds[i], d, e)
    BY <1>1, <1>8
  <2>2. snap = takeSnapshot(j, m, d2, FilesToSnapshot(j, j.cmds[i], d, d2),
                             ShouldDetectDeletedFiles(j, j.cmds[i]))
    BY <1>1, <1>4
  <2>3. PackedCut(j, i, b, t, d, d2, snap)
    BY <1>1, <1>2, <1>5, <1>6, <1>7, <2>1, <2>2, PackedLayer
  <2> QED
    BY <2>3 DEF PackedCut
<1>10. LayerOf(j, i, snap.layer)
  BY <1>5, <1>6, <1>9 DEF LayerOf
<1>11. i + 1 - 1 = i
  OBVIOUS
<1>12. OnDisk(j, c, i + 1, d2)
  BY <1>6, <1>9, <1>11 DEF OnDisk
<1>13. \A k \in 1 .. Len(j.cmds) : init /\ i + 1 <= k => c[k] = None
  BY <1>1, <1>3, JobCmds DEF Tracked
<1>14. Tracked(j, c, i + 1, d2, snap.l, init) /\ Tracked(j, c, i + 1, d2, m1, init)
  BY <1>3, <1>13 DEF Tracked
<1>15. j.cmds[i].op = "ENV" => M(j, i) = M(j, i - 1)
  BY <1>5, <1>6, <1>9
<1>16. IsDisk(M(j, i - 1)) /\ IsMap(m1)
  BY <1>1, <1>4, <1>5, <1>7
<1>17. GoesOn(j, c, i, d2, m1, init, ls, snap)
  BY <1>1, <1>3, <1>9, <1>10, <1>12, <1>14, <1>15, <1>16, CutGoesOn
<1> QED
  BY <1>4, <1>17

(***************************************************************************)
(* The one layer of --single-snapshot goes from the base to the last       *)
(* command.                                                                *)
(***************************************************************************)
LEMMA OneSnapshot ==
    ASSUME NoneIsNoLayer, NEW j \in Job, Plain(j), j.SingleSnapshot, NEW i \in 1 .. Len(j.cmds),
           i = Len(j.cmds), NEW I, I = M(j, 0), IsDisk(I), NEW layer, IsLayer(layer),
           ApplyLayer(I, layer) = M(j, i), NEW ls2,
           ls2 = saveSnapshotToImage(j, << >>, i, layer)
    PROVE  Listing(j, ls2, i + 1) /\ Extends(<< >>, ls2, i)
<1>1. layer # None /\ ~j.ForceBuildMetadata
  BY DEF NoneIsNoLayer, Plain
<1>2. Len(j.cmds) \in Nat \ {0} /\ ~(i + 1 <= Len(j.cmds)) /\ i < i + 1 /\ 0 < i + 1 /\ 0 < i
  BY JobCmds
<1>3. PICK ls : ls = << >>
  OBVIOUS
<1>4. Len(ls) = 0 /\ Upto(ls, Len(ls)) = 0 /\ ls \in Seq({})
  BY <1>3 DEF Upto
<1>5. IsList(ls) /\ Chain(j, ls)
  BY <1>4 DEF IsList, Chain
<1>6. CASE layer.adds = {} /\ layer.whiteouts = {}
  <2>1. ls2 = ls
    BY <1>1, <1>3, <1>6 DEF saveSnapshotToImage
  <2>2. ApplyLayer(I, layer) = I
    BY <1>6, EmptyLayer DEF IsDisk
  <2>3. M(j, Len(j.cmds)) = M(j, 0)
    BY <2>2
  <2>4. CaughtUp(j, ls, i + 1)
    BY <1>2, <1>4, <2>3 DEF CaughtUp
  <2> QED
    BY <1>3, <1>5, <2>1, <2>4 DEF Listing, Extends
<1>7. CASE ~(layer.adds = {} /\ layer.whiteouts = {})
  <2>1. ls2 = Append(ls, [cmd |-> i, layer |-> layer])
    BY <1>1, <1>3, <1>7 DEF saveSnapshotToImage, saveLayerToImage
  <2>2. Upto(ls, Len(ls)) < i /\ ApplyLayer(M(j, Upto(ls, Len(ls))), layer) = M(j, i)
    BY <1>2, <1>4
  <2>3. Grown(j, ls2, i)
    BY <1>5, <2>1, <2>2, AppendedLayer
  <2>4. IsList(ls2) /\ Chain(j, ls2) /\ Upto(ls2, Len(ls2)) = i
    BY <2>3 DEF Grown
  <2>5. CaughtUp(j, ls2, i + 1)
    BY <1>2, <2>4 DEF CaughtUp
  <2> QED
    BY <1>3, <2>1, <2>4, <2>5 DEF Listing, Extends
<1> QED
  BY <1>6, <1>7

(***************************************************************************)
(* A command of a build with --single-snapshot.                            *)
(***************************************************************************)
LEMMA RunsSingle ==
    ASSUME NoneIsNoLayer, NEW j \in Job, Plain(j), j.SingleSnapshot, NEW i \in 1 .. Len(j.cmds),
           NEW c, Unpacked(j, c), NEW d, NEW m, NEW init, NEW ls, NEW scan, NEW m1, NEW d2,
           NEW snap, Runs(j, c, i, d, m, init, ls, scan, m1, d2, snap)
    PROVE  GoesOn(j, c, i, d2, m1, init \/ scan, ls, snap)
<1>1. /\ d2 = M(j, i) /\ Effect(j, j.cmds[i], d, d2) /\ OnDisk(j, c, i + 1, d2)
  BY UnpackedRun
<1>2. /\ IsMap(m) /\ init \in BOOLEAN /\ Tracked(j, c, i, d, m, init) /\ Listing(j, ls, i)
      /\ scan = (~init /\ ~ProvidesFilesToSnapshot(j, j.cmds[i]))
      /\ m1 = IF scan THEN scanFullFilesystem(m, d).l ELSE m
      /\ snap = takeSnapshot(j, m1, d2, FilesToSnapshot(j, j.cmds[i], d, d2),
                             ShouldDetectDeletedFiles(j, j.cmds[i]))
  BY DEF Runs
<1>3. init = TRUE /\ m1 = m /\ (init \/ scan) = TRUE
  BY <1>2 DEF Tracked
<1>4. /\ Len(j.cmds) \in Nat \ {0} /\ i <= Len(j.cmds) /\ ~j.Cache /\ ~j.ForceBuildMetadata
      /\ ls = << >> /\ IsList(ls) /\ Chain(j, ls)
  BY <1>2, JobCmds DEF Plain, Listing, CaughtUp
<1>5. PICK I : I = BaseTree[j.base]
  OBVIOUS
<1>6. IsDisk(I) /\ I = M(j, 0)
  BY <1>5, CommandOf, MeaningSteps DEF M
<1>7. Tracks(j, m, TRUE, I)
  BY <1>2, <1>3, <1>4, <1>5 DEF Tracked
<1>8. CASE i = Len(j.cmds)
  <2>1. shouldTakeSnapshot(j, i) /\ snap = scanFullFilesystem(m, d2)
    BY <1>2, <1>3, <1>8 DEF shouldTakeSnapshot, takeSnapshot
  <2>2. Records(m, I) /\ Knows(m, I, Path) /\ IsDisk(d2)
    BY <1>1, <1>7 DEF Tracks, Effect
  <2>3. CutsByScan(I, d2, m, snap)
    BY <1>2, <1>6, <2>1, <2>2, CutByScan
  <2>4. /\ IsMap(snap.l) /\ Records(snap.l, d2) /\ Knows(snap.l, d2, Path)
        /\ IsLayer(snap.layer) /\ ApplyLayer(I, snap.layer) = d2
    BY <2>3 DEF CutsByScan
  <2>5. PICK ls2 : ls2 = saveSnapshotToImage(j, ls, i, snap.layer)
    OBVIOUS
  <2>6. Listing(j, ls2, i + 1) /\ Extends(ls, ls2, i)
    <3>1. ApplyLayer(I, snap.layer) = M(j, i)
      BY <1>1, <2>4
    <3>2. ls2 = saveSnapshotToImage(j, << >>, i, snap.layer)
      BY <1>4, <2>5
    <3>3. Listing(j, ls2, i + 1) /\ Extends(<< >>, ls2, i)
      BY <1>6, <1>8, <2>4, <3>1, <3>2, OneSnapshot
    <3> QED
      BY <1>4, <3>3
  <2>7. Tracks(j, snap.l, TRUE, d2)
    BY <2>4 DEF Tracks, Knows, OutOfBase
  <2>8. Tracked(j, c, i + 1, d2, snap.l, TRUE)
    <3>1. ~(i + 1 <= Len(j.cmds))
      BY <1>4, <1>8
    <3> QED
      BY <2>7, <3>1 DEF Tracked
  <2>9. Goes(j, c, i, d2, snap.l, TRUE, ls, ls2)
    BY <1>1, <2>4, <2>6, <2>8 DEF Goes
  <2> QED
    BY <1>3, <1>4, <2>1, <2>5, <2>9 DEF GoesOn
<1>9. CASE i # Len(j.cmds)
  <2>1. ~shouldTakeSnapshot(j, i) /\ i + 1 <= Len(j.cmds) /\ 0 < i + 1
    BY <1>4, <1>9 DEF shouldTakeSnapshot
  <2>2. Tracked(j, c, i + 1, d2, m, TRUE)
    BY <1>5, <1>7, <2>1 DEF Tracked
  <2>3. Upto(ls, Len(ls)) = 0
    BY <1>4 DEF Upto
  <2>4. Listing(j, ls, i + 1)
    BY <1>4, <2>1, <2>3 DEF Listing, CaughtUp
  <2>5. Goes(j, c, i, d2, m, TRUE, ls, ls)
    BY <1>1, <1>2, <2>2, <2>4 DEF Goes, Extends
  <2> QED
    BY <1>3, <1>4, <2>1, <2>5 DEF GoesOn
<1> QED
  BY <1>8, <1>9

(***************************************************************************)
(* A command that is executed, whatever the flags.                         *)
(***************************************************************************)
LEMMA RunsOn ==
    ASSUME NoneIsNoLayer, NEW j \in Job, Plain(j), NEW i \in 1 .. Len(j.cmds),
           NEW c, NEW d, NEW m, NEW init, NEW ls, NEW scan, NEW m1, NEW d2,
           NEW snap, Runs(j, c, i, d, m, init, ls, scan, m1, d2, snap)
    PROVE  GoesOn(j, c, i, d2, m1, init \/ scan, ls, snap)
<1>1. CASE ~Unpacked(j, c)
  BY <1>1, RunsPacked
<1>2. CASE Unpacked(j, c) /\ j.SingleSnapshot
  BY <1>2, RunsSingle
<1>3. CASE Unpacked(j, c) /\ ~j.SingleSnapshot
  BY <1>3, RunsUnpacked
<1> QED
  BY <1>1, <1>2, <1>3

(***************************************************************************)
(* A command that is replaced by its layer.  Nothing was scanned before.   *)
(***************************************************************************)
LEMMA TakesCached ==
    ASSUME NEW j \in Job, Plain(j), NEW i \in 1 .. Len(j.cmds), NEW c, c[i] # None, Found(j, c),
           NEW d, NEW m, IsMap(m), NEW init \in BOOLEAN, NEW ls, OnDisk(j, c, i, d),
           Tracked(j, c, i, d, m, init), Listing(j, ls, i),
           NEW d2, d2 = ApplyLayer(d, c[i]), NEW ls2,
           ls2 = IF shouldTakeSnapshot(j, i) THEN saveLayerToImage(ls, i, c[i]) ELSE ls
    PROVE  Goes(j, c, i, d2, m, init, ls, ls2)
<1>1. j.Cache /\ Right(j, i, c[i])
  BY DEF Found
<1>2. ~j.SingleSnapshot /\ shouldTakeSnapshot(j, i)
  BY <1>1 DEF Plain, shouldTakeSnapshot
<1>3. ls2 = Append(ls, [cmd |-> i, layer |-> c[i]])
  BY <1>2 DEF saveLayerToImage
<1>4. Listing(j, ls2, i + 1) /\ Extends(ls, ls2, i)
  BY <1>1, <1>2, <1>3, OneLayerMore DEF Extends
<1>5. ~init
  <2>1. i <= i /\ i \in 1 .. Len(j.cmds)
    OBVIOUS
  <2> QED
    BY <1>2, <2>1 DEF Tracked
<1>6. Tracked(j, c, i + 1, d2, m, init)
  BY <1>1, <1>2, <1>5 DEF Tracked, Tracks
<1>7. IsDisk(M(j, i)) /\ ApplyLayer(M(j, i - 1), c[i]) = M(j, i) /\ i + 1 - 1 = i
  BY <1>1 DEF Right
<1>8. OnDisk(j, c, i + 1, d2)
  <2>1. CASE Unpacked(j, c)
    <3>1. d = M(j, i - 1)
      BY <2>1 DEF OnDisk
    <3>2. IsDisk(M(j, i + 1 - 1)) /\ d2 = M(j, i + 1 - 1)
      BY <1>7, <3>1
    <3> QED
      BY <2>1, <3>2 DEF OnDisk
  <2>2. CASE ~Unpacked(j, c)
    <3>1. PartOf(d, M(j, i - 1))
      BY <2>2 DEF OnDisk
    <3>2. IsTree(M(j, i))
      BY <1>7 DEF IsDisk
    <3>3. PartOf(d2, M(j, i)) /\ d2 = [p \in Path |-> d2[p]]
      BY <1>7, <3>1, <3>2, PartOfLayer
    <3>4. IsDisk(M(j, i + 1 - 1)) /\ PartOf(d2, M(j, i + 1 - 1)) /\ d2 = [p \in Path |-> d2[p]]
      BY <1>7, <3>3
    <3> QED
      BY <2>2, <3>4 DEF OnDisk
  <2> QED
    BY <2>1, <2>2
<1> QED
  BY <1>4, <1>6, <1>8 DEF Goes

-----------------------------------------------------------------------------
(***************************************************************************)
(* The passes of a build, step by step.                                    *)
(***************************************************************************)

(***************************************************************************)
(* A layer that is right for one command is right for all with its key.    *)
(***************************************************************************)
LEMMA RightUnderKey ==
    ASSUME KeysTell(Job), NEW j \in Job, NEW i \in 1 .. Len(j.cmds), j.Cache,
           ShouldCacheOutput(j, j.cmds[i]), NEW layer, Right(j, i, layer)
    PROVE  RightFor(Meaning[j][i].key, layer)
<1> SUFFICES ASSUME NEW k \in Job, NEW n \in 1 .. Len(k.cmds), k.Cache,
                    ShouldCacheOutput(k, k.cmds[n]), Meaning[k][n].key = Meaning[j][i].key
             PROVE  Right(k, n, layer)
  BY DEF RightFor
<1>1. i \in DOMAIN j.cmds /\ n \in DOMAIN k.cmds
  BY JobCmds
<1>2. /\ Meaning[j][i - 1].fs = Meaning[k][n - 1].fs
      /\ Meaning[j][i].fs = Meaning[k][n].fs
      /\ Named(j, i) = Named(k, n)
  BY <1>1 DEF KeysTell
<1>3. Touched(j, i) = Touched(k, n)
  BY <1>2 DEF Touched
<1> QED
  BY <1>2, <1>3 DEF Right, M

Answers(j, i, c, stop, layer, c2, stop2) ==
    /\ stop \in BOOLEAN /\ DOMAIN c = 1 .. Len(j.cmds)
    /\ layer # None => ~stop /\ j.Cache /\ ShouldCacheOutput(j, j.cmds[i]) /\ Right(j, i, layer)
    /\ c2 = [c EXCEPT ![i] = layer]
    /\ stop2 = (stop \/ (looksUp(j, j.cmds[i], stop) /\ layer = None))

(***************************************************************************)
(* One lookup of the first pass.                                           *)
(***************************************************************************)
LEMMA LookedUp ==
    ASSUME NEW j \in Job, NEW i \in 1 .. Len(j.cmds), NEW c, NEW stop,
           Stopped(j, c, TRUE, i, stop), NEW layer, NEW c2, NEW stop2,
           Answers(j, i, c, stop, layer, c2, stop2)
    PROVE  Stopped(j, c2, TRUE, i + 1, stop2)
<1>0. /\ stop \in BOOLEAN /\ DOMAIN c = 1 .. Len(j.cmds)
      /\ layer # None => ~stop /\ j.Cache /\ ShouldCacheOutput(j, j.cmds[i]) /\ Right(j, i, layer)
      /\ c2 = [c EXCEPT ![i] = layer]
      /\ stop2 = (stop \/ (looksUp(j, j.cmds[i], stop) /\ layer = None))
  BY DEF Answers
<1>1. \A n \in 1 .. Len(j.cmds) : c2[n] = IF n = i THEN layer ELSE c[n]
  BY <1>0
<1>2. /\ \A n \in 1 .. Len(j.cmds) : c[n] # None => j.Cache /\ Right(j, n, c[n])
      /\ \A n, k \in 1 .. Len(j.cmds) : n < k /\ Missed(j, c, n) /\ n < i => c[k] = None
      /\ \A n \in 1 .. Len(j.cmds) : i <= n => c[n] = None
      /\ \A n \in 1 .. Len(j.cmds) : n < i /\ Missed(j, c, n) => stop
  BY DEF Stopped
<1>3. Len(j.cmds) \in Nat
  BY JobCmds
<1>4. \A n \in 1 .. Len(j.cmds) : n # i => (Missed(j, c2, n) <=> Missed(j, c, n))
  BY <1>1 DEF Missed
<1>5. \A n \in 1 .. Len(j.cmds) : c2[n] # None => j.Cache /\ Right(j, n, c2[n])
  BY <1>0, <1>1, <1>2
<1>6. \A n \in 1 .. Len(j.cmds) : n < i + 1 /\ Missed(j, c2, n) => stop2
  <2> SUFFICES ASSUME NEW n \in 1 .. Len(j.cmds), n < i + 1, Missed(j, c2, n) PROVE stop2
    OBVIOUS
  <2>1. CASE n = i
    BY <1>0, <1>1, <2>1 DEF Missed, looksUp
  <2>2. CASE n # i
    <3>1. n < i
      BY <1>3, <2>2
    <3> QED
      BY <1>0, <1>2, <1>4, <2>2, <3>1
  <2> QED
    BY <2>1, <2>2
<1>7. \A n \in 1 .. Len(j.cmds) : i + 1 <= n => c2[n] = None
  <2> TAKE n \in 1 .. Len(j.cmds)
  <2>1. i + 1 <= n => i <= n /\ n # i
    BY <1>3
  <2> QED
    BY <1>1, <1>2, <2>1
<1>8. \A n, k \in 1 .. Len(j.cmds) : n < k /\ Missed(j, c2, n) /\ n < i + 1 => c2[k] = None
  <2> SUFFICES ASSUME NEW n \in 1 .. Len(j.cmds), NEW k \in 1 .. Len(j.cmds),
                      n < k, Missed(j, c2, n), n < i + 1
               PROVE  c2[k] = None
    OBVIOUS
  <2>1. CASE i + 1 <= k
    BY <1>7, <2>1
  <2>2. CASE ~(i + 1 <= k)
    <3>1. n # i /\ n < i
      BY <1>3, <2>2
    <3>2. Missed(j, c, n)
      BY <1>4, <3>1
    <3>3. stop /\ c[k] = None
      BY <1>2, <3>1, <3>2
    <3> QED
      BY <1>0, <1>1, <3>3
  <2> QED
    BY <2>1, <2>2
<1> QED
  BY <1>5, <1>6, <1>7, <1>8 DEF Stopped

(***************************************************************************)
(* The end of the first pass, which only builds with a cache make.         *)
(***************************************************************************)
LEMMA PassEnds ==
    ASSUME NEW j \in Job, NEW i \in Nat, NEW c, NEW stop,
           j.Cache => i > Len(j.cmds), Stopped(j, c, TRUE, i, stop), NEW i2, NEW stop2
    PROVE  Stopped(j, c, FALSE, i2, stop2)
<1>1. Len(j.cmds) \in Nat
  BY JobCmds
<1>2. \A n \in 1 .. Len(j.cmds) : c[n] # None => j.Cache /\ Right(j, n, c[n])
  BY DEF Stopped
<1>3. \A n, k \in 1 .. Len(j.cmds) : n < k /\ Missed(j, c, n) => c[k] = None
  <2> SUFFICES ASSUME NEW n \in 1 .. Len(j.cmds), NEW k \in 1 .. Len(j.cmds), n < k,
                      Missed(j, c, n), c[k] # None
               PROVE  FALSE
    OBVIOUS
  <2>1. n < i
    BY <1>1, <1>2
  <2> QED
    BY <2>1 DEF Stopped
<1> QED
  BY <1>2, <1>3 DEF Stopped

(***************************************************************************)
(* Once the first pass is over, what is known of the layers that it found. *)
(***************************************************************************)
LEMMA FoundLayers ==
    ASSUME NEW j \in Job, NEW c, NEW i, NEW stop, Stopped(j, c, FALSE, i, stop),
           \A n \in 1 .. Len(j.cmds) : c[n] # None => ShouldCacheOutput(j, j.cmds[n])
    PROVE  Found(j, c)
BY DEF Stopped, Found

(***************************************************************************)
(* The base is unpacked, or not.                                           *)
(***************************************************************************)
LEMMA BaseOnDisk ==
    ASSUME NEW j \in Job, Plain(j), NEW c, Found(j, c), NEW m, IsMap(m), Fresh(m), NEW d,
           d = IF Unpacked(j, c) THEN BaseTree[j.base] ELSE EmptyTree,
           NEW m2, m2 = IF j.SingleSnapshot THEN scanFullFilesystem(m, d).l ELSE m
    PROVE  /\ IsMap(m2) /\ OnDisk(j, c, 1, d)
           /\ Tracked(j, c, 1, d, m2, j.SingleSnapshot)
           /\ CaughtUp(j, << >>, 1)
<1>1. Len(j.cmds) \in Nat \ {0} /\ 1 <= Len(j.cmds)
  BY JobCmds
<1>2. PICK I : I = BaseTree[j.base]
  OBVIOUS
<1>3. IsDisk(I) /\ I = M(j, 1 - 1)
  BY <1>1, <1>2, CommandOf, MeaningSteps DEF M
<1>4. OnDisk(j, c, 1, d)
  <2>1. ~Unpacked(j, c) => d = [p \in Path |-> d[p]] /\ PartOf(d, I)
    BY PathAssumption DEF EmptyTree, PartOf
  <2> QED
    BY <1>2, <1>3, <2>1 DEF OnDisk
<1>5. CaughtUp(j, << >>, 1)
  <2>1. Upto(<< >>, Len(<< >>)) = 0
    BY DEF Upto
  <2>2. \A k \in 0 + 1 .. 1 - 1 : FALSE
    OBVIOUS
  <2> QED
    BY <1>1, <2>1, <2>2 DEF CaughtUp
<1>6. CASE j.SingleSnapshot
  <2>1. Unpacked(j, c) /\ d = I
    BY <1>2, <1>6, PackedJob DEF Plain
  <2>2. PICK r : r = scanFullFilesystem(m, I)
    OBVIOUS
  <2>3. Scanned(m, I, r)
    BY <1>3, <2>2, ScannedMap DEF IsDisk
  <2>4. m2 = r.l
    BY <1>6, <2>1, <2>2
  <2>5. IsMap(m2) /\ Records(m2, I) /\ Knows(m2, I, Path)
    BY <2>3, <2>4, FullHash DEF Scanned, Records, Knows
  <2>6. Tracks(j, m2, TRUE, I)
    BY <2>5 DEF Tracks, Knows, OutOfBase
  <2>7. Tracked(j, c, 1, d, m2, j.SingleSnapshot)
    BY <1>1, <1>2, <1>6, <2>6 DEF Tracked, Tracks
  <2> QED
    BY <1>4, <1>5, <2>5, <2>7
<1>7. CASE ~j.SingleSnapshot
  <2>1. m2 = m
    BY <1>7
  <2>2. Records(m, I) /\ Knows(m, I, OutOfBase(j))
    BY <1>2 DEF Records, Knows, Fresh, OutOfBase
  <2>3. Unpacked(j, c) => d = I
    BY <1>2
  <2>4. Tracked(j, c, 1, d, m, j.SingleSnapshot)
    BY <1>7, <2>2, <2>3 DEF Tracked, Tracks
  <2> QED
    BY <1>4, <1>5, <2>1, <2>4
<1> QED
  BY <1>6, <1>7

(***************************************************************************)
(* At the end of the second pass the image has caught up.                  *)
(***************************************************************************)
LEMMA AllTaken ==
    ASSUME NEW j \in Job, NEW ls, IsList(ls), Chain(j, ls), CaughtUp(j, ls, Len(j.cmds) + 1)
    PROVE  M(j, Len(j.cmds)) = M(j, Upto(ls, Len(ls)))
<1>1. PICK u : u = Upto(ls, Len(ls))
  OBVIOUS
<1>2. u \in 0 .. Len(j.cmds) /\ Len(j.cmds) \in Nat /\ Len(j.cmds) + 1 - 1 = Len(j.cmds)
      /\ ~(Len(j.cmds) + 1 <= Len(j.cmds))
  BY <1>1, LastLayer, JobCmds
<1>3. CASE j.SingleSnapshot
  BY <1>2, <1>3 DEF CaughtUp
<1>4. CASE ~j.SingleSnapshot
  <2>1. \A k \in u + 1 .. Len(j.cmds) : M(j, k) = M(j, u)
    BY <1>1, <1>2, <1>4 DEF CaughtUp
  <2>2. u = Len(j.cmds) \/ Len(j.cmds) \in u + 1 .. Len(j.cmds)
    BY <1>2
  <2> QED
    BY <1>1, <2>1, <2>2
<1> QED
  BY <1>3, <1>4

(***************************************************************************)
(* The hypotheses of the theorems: files are compared by their contents    *)
(* (--snapshot-mode=full), the jobs are plain, and the texts of commands   *)
(* tell what they do.                                                      *)
(***************************************************************************)
Sound ==
    /\ SnapshotModes \subseteq {"full"} /\ NoneIsNoLayer
    /\ TextsTell(Job) /\ \A j \in Job : Plain(j)

(***************************************************************************)
(* It is enough to look at the builder that takes the step.                *)
(***************************************************************************)
Aside(b) ==
    /\ job' = job
    /\ \A c \in Builder \ {b} :
         /\ pc'[c] = pc[c] /\ index'[c] = index[c] /\ stopCache'[c] = stopCache[c]
         /\ cached'[c] = cached[c] /\ fs'[c] = fs[c] /\ l'[c] = l[c]
         /\ initSnapshotTaken'[c] = initSnapshotTaken[c] /\ layers'[c] = layers[c]

(***************************************************************************)
(* The builders aside keep what is known of them.                          *)
(***************************************************************************)
LEMMA OneBuild ==
    ASSUME BInv, NEW b \in Builder, IInv', Shapes', RightLayers', Aside(b), Builds(b)'
    PROVE  BInv'
<1> SUFFICES ASSUME NEW c \in Builder, c # b PROVE Builds(c)'
  BY DEF BInv
<1>1. Builds(c)
  BY DEF BInv
<1>2. /\ job'[c] = job[c] /\ pc'[c] = pc[c] /\ index'[c] = index[c]
      /\ stopCache'[c] = stopCache[c] /\ cached'[c] = cached[c] /\ fs'[c] = fs[c]
      /\ l'[c] = l[c] /\ initSnapshotTaken'[c] = initSnapshotTaken[c]
      /\ layers'[c] = layers[c]
  BY DEF Aside
<1> QED
  BY <1>1, <1>2, Zenon DEF Builds

(***************************************************************************)
(* A build at the start.                                                   *)
(***************************************************************************)
LEMMA InitBInv ==
    ASSUME Sound, Init
    PROVE  BInv
<1>1. IInv
  BY InitIInv
<1>2. Shapes
  BY DEF Init, Shapes
<1>3. RightLayers
  BY DEF Init, RightLayers
<1>4. ASSUME NEW b \in Builder PROVE Builds(b)
  <2>1. job[b] \in Job /\ Len(job[b].cmds) \in Nat /\ DOMAIN job[b].cmds = 1 .. Len(job[b].cmds)
    BY JobCmds DEF Init
  <2>2. PICK m : m = l[b]
    OBVIOUS
  <2>3. m = NewLayeredMap("full")
    BY <2>2 DEF Init, Sound
  <2>4. m \in Maps({NoHash}) /\ ~m.hasLayer /\ m.currentImage = EmptyMap
    BY <2>3 DEF NewLayeredMap, Maps, EmptyMap
  <2>5. IsMap(m) /\ Fresh(m)
    BY <2>4 DEF IsMap, Fresh, getCurrentImage, EmptyMap
  <2>6. << >> \in Seq({}) /\ Len(<< >>) = 0
    OBVIOUS
  <2>7. IsList(<< >>) /\ Chain(job[b], << >>)
    BY <2>6 DEF IsList, Chain
  <2>8. \A n \in 1 .. Len(job[b].cmds) : cached[b][n] = None
    BY <2>1 DEF Init
  <2>9. Stopped(job[b], cached[b], TRUE, 1, FALSE)
    BY <2>1, <2>8 DEF Stopped
  <2>10. pc[b] = "optimize" /\ index[b] = 1 /\ stopCache[b] = FALSE /\ layers[b] = << >>
    BY DEF Init
  <2> QED
    BY <2>2, <2>5, <2>7, <2>9, <2>10 DEF Builds, Build
<1> QED
  BY <1>1, <1>2, <1>3, <1>4 DEF BInv

(***************************************************************************)
(* A layer that optimize finds is right.                                   *)
(***************************************************************************)
LEMMA OptimizeBuild ==
    ASSUME Sound, BInv, NEW b \in Builder, optimize(b)
    PROVE  Shapes' /\ RightLayers' /\ Aside(b) /\ Builds(b)'
<1>1. PICK j : j = job[b]
  OBVIOUS
<1>2. PICK i : i = index[b]
  OBVIOUS
<1>3. PICK k : k = Meaning[j][i].key
  OBVIOUS
<1>4. PICK stop : stop = stopCache[b]
  OBVIOUS
<1>5. /\ j \in Job /\ i \in 1 .. Len(j.cmds) /\ j.Cache /\ pc[b] = "optimize"
      /\ k = populateCompositeKey(compositeKey[b], j, j.cmds[i], env[b])
      /\ stop \in BOOLEAN
  BY <1>1, <1>2, <1>3, <1>4, AtCommand DEF optimize, BInv, Shapes
<1>6. PICK image \in IF looksUp(j, j.cmds[i], stop) THEN RetrieveLayer(k) ELSE {None} :
          /\ cached' = [cached EXCEPT ![b][i] = image]
          /\ stopCache' = [stopCache EXCEPT
                ![b] = stop \/ (looksUp(j, j.cmds[i], stop) /\ image = None)]
  BY <1>1, <1>2, <1>4, <1>5 DEF optimize
<1>7. /\ index' = [index EXCEPT ![b] = i + 1]
      /\ UNCHANGED <<job, pc, fs, l, initSnapshotTaken, layers, pushes, registry>>
  BY <1>2 DEF optimize
<1>8. PICK stop2 : stop2 = (stop \/ (looksUp(j, j.cmds[i], stop) /\ image = None))
  OBVIOUS
<1>9. stop2 \in BOOLEAN /\ stopCache' = [stopCache EXCEPT ![b] = stop2]
  BY <1>5, <1>6, <1>8
<1>10. /\ DOMAIN stopCache = Builder /\ DOMAIN cached = Builder /\ DOMAIN index = Builder
       /\ DOMAIN cached[b] = 1 .. Len(j.cmds) /\ stopCache \in [Builder -> BOOLEAN]
  BY <1>1 DEF BInv, IInv, Types, Shapes, Replaced
<1>11. Shapes'
  BY <1>7, <1>9, <1>10 DEF BInv, Shapes
<1>12. RightLayers'
  BY <1>7 DEF BInv, RightLayers
<1>13. Aside(b)
  BY <1>6, <1>7, <1>9, <1>10 DEF Aside
<1>14. image # None => ~stop /\ ShouldCacheOutput(j, j.cmds[i]) /\ Right(j, i, image)
  <2> SUFFICES ASSUME image # None
               PROVE  ~stop /\ ShouldCacheOutput(j, j.cmds[i]) /\ Right(j, i, image)
    OBVIOUS
  <2>1. looksUp(j, j.cmds[i], stop) /\ image \in RetrieveLayer(k)
    BY <1>6
  <2>2. ~stop /\ ShouldCacheOutput(j, j.cmds[i]) /\ k \in DOMAIN registry /\ image = registry[k]
    BY <2>1 DEF looksUp, RetrieveLayer
  <2>3. RightFor(k, image)
    BY <2>2 DEF BInv, RightLayers
  <2> QED
    BY <1>3, <1>5, <2>2, <2>3 DEF RightFor
<1>15. /\ IsList(layers[b]) /\ IsMap(l[b]) /\ Chain(j, layers[b]) /\ Fresh(l[b])
       /\ layers[b] = << >> /\ Stopped(j, cached[b], TRUE, i, stop)
  <2>1. Builds(b)
    BY DEF BInv
  <2> QED
    BY <1>1, <1>2, <1>4, <1>5, <2>1 DEF Builds, Build
<1>16. PICK c2 : c2 = [cached[b] EXCEPT ![i] = image]
  OBVIOUS
<1>17. Stopped(j, c2, TRUE, i + 1, stop2)
  <2>1. PICK c : c = cached[b]
    OBVIOUS
  <2>2. Stopped(j, c, TRUE, i, stop)
    BY <1>15, <2>1
  <2>3. Answers(j, i, c, stop, image, c2, stop2)
    BY <1>5, <1>8, <1>10, <1>14, <1>16, <2>1 DEF Answers
  <2> QED
    BY <1>5, <2>2, <2>3, LookedUp
<1>18. /\ cached'[b] = c2 /\ stopCache'[b] = stop2 /\ index'[b] = i + 1 /\ pc'[b] = "optimize"
       /\ job'[b] = j /\ fs'[b] = fs[b] /\ l'[b] = l[b] /\ layers'[b] = layers[b]
       /\ initSnapshotTaken'[b] = initSnapshotTaken[b]
  BY <1>1, <1>5, <1>6, <1>7, <1>9, <1>10, <1>16
<1>19. Build(j, "optimize", i + 1, stop2, c2, fs[b], l[b], initSnapshotTaken[b], layers[b])
  BY <1>15, <1>17 DEF Build
<1>20. Builds(b)'
  BY <1>18, <1>19, Zenon DEF Builds
<1> QED
  BY <1>11, <1>12, <1>13, <1>20

(***************************************************************************)
(* The base is unpacked.                                                   *)
(***************************************************************************)
LEMMA UnpackBuild ==
    ASSUME Sound, BInv, NEW b \in Builder, unpack(b)
    PROVE  Shapes' /\ RightLayers' /\ Aside(b) /\ Builds(b)'
<1>1. PICK j : j = job[b]
  OBVIOUS
<1>2. PICK c : c = cached[b]
  OBVIOUS
<1>3. PICK d : d = IF Unpacked(j, c) THEN BaseTree[j.base] ELSE EmptyTree
  OBVIOUS
<1>4. PICK m2 : m2 = IF j.SingleSnapshot THEN scanFullFilesystem(l[b], d).l ELSE l[b]
  OBVIOUS
<1>5. /\ j \in Job /\ DOMAIN j.cmds = 1 .. Len(j.cmds) /\ Plain(j) /\ index[b] \in Nat
      /\ j.SingleSnapshot \in BOOLEAN
  BY <1>1, AtCommand, JobAssumption DEF BInv, Sound
<1>6. /\ pc[b] = "optimize" /\ (j.Cache => index[b] > Len(j.cmds))
      /\ pc' = [pc EXCEPT ![b] = "build"] /\ index' = [index EXCEPT ![b] = 1]
      /\ initSnapshotTaken' = [initSnapshotTaken EXCEPT ![b] = j.SingleSnapshot]
      /\ UNCHANGED <<job, stopCache, cached, layers, pushes, registry>>
  BY <1>1 DEF unpack
<1>7. fs' = [fs EXCEPT ![b] = d]
  BY <1>1, <1>2, <1>3, <1>5 DEF unpack, Unpacked
<1>8. l' = [l EXCEPT ![b] = m2]
  BY <1>1, <1>2, <1>3, <1>4, <1>5 DEF unpack, Unpacked
<1>9. /\ DOMAIN pc = Builder /\ DOMAIN index = Builder /\ DOMAIN fs = Builder
      /\ DOMAIN l = Builder /\ initSnapshotTaken \in [Builder -> BOOLEAN]
  BY DEF BInv, IInv, Types, Shapes
<1>10. Shapes'
  BY <1>5, <1>6, <1>7, <1>8, <1>9 DEF BInv, Shapes
<1>11. RightLayers'
  BY <1>6 DEF BInv, RightLayers
<1>12. Aside(b)
  BY <1>6, <1>7, <1>8, <1>9 DEF Aside
<1>13. /\ IsList(layers[b]) /\ IsMap(l[b]) /\ Chain(j, layers[b]) /\ Fresh(l[b])
       /\ layers[b] = << >> /\ Stopped(j, c, TRUE, index[b], stopCache[b])
  <2>1. Builds(b)
    BY DEF BInv
  <2> QED
    BY <1>1, <1>2, <1>6, <2>1 DEF Builds, Build
<1>14. Stopped(j, c, FALSE, 1, stopCache[b])
  BY <1>5, <1>6, <1>13, PassEnds
<1>15. \A n \in 1 .. Len(j.cmds) : c[n] # None => ShouldCacheOutput(j, j.cmds[n])
  BY <1>1, <1>2 DEF BInv, IInv, Replaced
<1>16. Found(j, c)
  BY <1>5, <1>14, <1>15, FoundLayers
<1>17. /\ IsMap(m2) /\ OnDisk(j, c, 1, d) /\ Tracked(j, c, 1, d, m2, j.SingleSnapshot)
       /\ CaughtUp(j, << >>, 1)
  BY <1>3, <1>4, <1>5, <1>13, <1>16, BaseOnDisk
<1>18. /\ cached'[b] = c /\ stopCache'[b] = stopCache[b] /\ index'[b] = 1 /\ pc'[b] = "build"
       /\ job'[b] = j /\ fs'[b] = d /\ l'[b] = m2 /\ layers'[b] = layers[b]
       /\ initSnapshotTaken'[b] = j.SingleSnapshot
  BY <1>1, <1>2, <1>6, <1>7, <1>8, <1>9
<1>19. Build(j, "build", 1, stopCache[b], c, d, m2, j.SingleSnapshot, layers[b])
  BY <1>13, <1>14, <1>17 DEF Build
<1>20. Builds(b)'
  BY <1>18, <1>19, Zenon DEF Builds
<1> QED
  BY <1>10, <1>11, <1>12, <1>20

(***************************************************************************)
(* The second pass is past a command.                                      *)
(***************************************************************************)
LEMMA GoneOn ==
    ASSUME NEW j \in Job, NEW c, NEW i, NEW stop, Stopped(j, c, FALSE, i, stop), NEW d2, NEW m2,
           NEW init2, NEW ls, NEW ls2, Goes(j, c, i, d2, m2, init2, ls, ls2)
    PROVE  Build(j, "build", i + 1, stop, c, d2, m2, init2, ls2)
<1>1. Stopped(j, c, FALSE, i + 1, stop)
  BY DEF Stopped
<1> QED
  BY <1>1 DEF Goes, Listing, Build

(***************************************************************************)
(* A builder in the second pass.                                           *)
(***************************************************************************)
LEMMA AtBuild ==
    ASSUME Sound, BInv, NEW b \in Builder, pc[b] = "build"
    PROVE  /\ job[b] \in Job /\ Plain(job[b])
           /\ IsMap(l[b]) /\ initSnapshotTaken[b] \in BOOLEAN
           /\ Stopped(job[b], cached[b], FALSE, index[b], stopCache[b])
           /\ Found(job[b], cached[b])
           /\ OnDisk(job[b], cached[b], index[b], fs[b])
           /\ Tracked(job[b], cached[b], index[b], fs[b], l[b], initSnapshotTaken[b])
           /\ Listing(job[b], layers[b], index[b])
<1>1. Builds(b) /\ job[b] \in Job /\ initSnapshotTaken[b] \in BOOLEAN /\ Plain(job[b])
  BY DEF BInv, IInv, Types, Shapes, Sound
<1>2. /\ IsMap(l[b])
      /\ Stopped(job[b], cached[b], FALSE, index[b], stopCache[b])
      /\ OnDisk(job[b], cached[b], index[b], fs[b])
      /\ Tracked(job[b], cached[b], index[b], fs[b], l[b], initSnapshotTaken[b])
      /\ Listing(job[b], layers[b], index[b])
  BY <1>1 DEF Builds, Build, Listing
<1>3. \A n \in 1 .. Len(job[b].cmds) :
        cached[b][n] # None => ShouldCacheOutput(job[b], job[b].cmds[n])
  BY DEF BInv, IInv, Replaced
<1>4. Found(job[b], cached[b])
  BY <1>1, <1>2, <1>3, FoundLayers
<1> QED
  BY <1>1, <1>2, <1>4

(***************************************************************************)
(* What a step of the second pass over a command does to its builder.      *)
(***************************************************************************)
Moves(b) ==
    /\ pc[b] = "build" /\ index[b] \in 1 .. Len(job[b].cmds)
    /\ UNCHANGED <<job, pc>>
    /\ Goes(job[b], cached[b], index[b], fs'[b], l'[b], initSnapshotTaken'[b],
            layers[b], layers'[b])

(***************************************************************************)
(* A command is replaced by its layer.                                     *)
(***************************************************************************)
LEMMA CachedBuild ==
    ASSUME Sound, BInv, NEW b \in Builder, buildCached(b)
    PROVE  Shapes' /\ RightLayers' /\ Aside(b) /\ Builds(b)' /\ Moves(b)
<1>1. PICK j : j = job[b]
  OBVIOUS
<1>2. PICK i : i = index[b]
  OBVIOUS
<1>3. PICK c : c = cached[b]
  OBVIOUS
<1>4. PICK d2 : d2 = ApplyLayer(fs[b], c[i])
  OBVIOUS
<1>5. PICK ls : ls = layers[b]
  OBVIOUS
<1>6. PICK ls2 : ls2 = IF shouldTakeSnapshot(j, i) THEN saveLayerToImage(ls, i, c[i]) ELSE ls
  OBVIOUS
<1>7. /\ pc[b] = "build" /\ i \in 1 .. Len(j.cmds) /\ c[i] # None
      /\ fs' = [fs EXCEPT ![b] = d2] /\ index' = [index EXCEPT ![b] = i + 1]
      /\ UNCHANGED <<job, pc, stopCache, cached, l, initSnapshotTaken, pushes, registry>>
  BY <1>1, <1>2, <1>3, <1>4, AtCommand DEF buildCached, ExecuteCached, BInv
<1>8. /\ DOMAIN fs = Builder /\ DOMAIN index = Builder /\ DOMAIN layers = Builder
      /\ DOMAIN layers' = Builder /\ layers'[b] = ls2
      /\ \A a \in Builder \ {b} : layers'[a] = layers[a]
  BY <1>1, <1>2, <1>3, <1>5, <1>6 DEF BInv, IInv, Types, Shapes, buildCached
<1>9. Shapes'
  BY <1>7, <1>8 DEF BInv, Shapes
<1>10. RightLayers'
  BY <1>7 DEF BInv, RightLayers
<1>11. Aside(b)
  BY <1>7, <1>8 DEF Aside
<1>12. /\ j \in Job /\ Plain(j) /\ IsMap(l[b]) /\ initSnapshotTaken[b] \in BOOLEAN
       /\ Stopped(j, c, FALSE, i, stopCache[b]) /\ Found(j, c) /\ OnDisk(j, c, i, fs[b])
       /\ Tracked(j, c, i, fs[b], l[b], initSnapshotTaken[b]) /\ Listing(j, ls, i)
  BY <1>1, <1>2, <1>3, <1>5, <1>7, AtBuild
<1>13. Goes(j, c, i, d2, l[b], initSnapshotTaken[b], ls, ls2)
  BY <1>4, <1>6, <1>7, <1>12, TakesCached
<1>14. Build(j, "build", i + 1, stopCache[b], c, d2, l[b], initSnapshotTaken[b], ls2)
  BY <1>12, <1>13, GoneOn
<1>15. /\ cached'[b] = c /\ stopCache'[b] = stopCache[b] /\ index'[b] = i + 1
       /\ pc'[b] = "build" /\ job'[b] = j /\ fs'[b] = d2 /\ l'[b] = l[b] /\ layers'[b] = ls2
       /\ initSnapshotTaken'[b] = initSnapshotTaken[b]
  BY <1>1, <1>3, <1>7, <1>8
<1>16. Builds(b)'
  BY <1>14, <1>15, Zenon DEF Builds
<1>17. Moves(b)
  BY <1>1, <1>2, <1>3, <1>5, <1>7, <1>13, <1>15, Zenon DEF Moves
<1> QED
  BY <1>9, <1>10, <1>11, <1>16, <1>17

(***************************************************************************)
(* A command is executed.                                                  *)
(***************************************************************************)
LEMMA CommandBuild ==
    ASSUME Sound, BInv, NEW b \in Builder, buildCommand(b)
    PROVE  Shapes' /\ RightLayers' /\ Aside(b) /\ Builds(b)' /\ Moves(b)
<1>1. PICK j : j = job[b]
  OBVIOUS
<1>2. PICK i : i = index[b]
  OBVIOUS
<1>3. PICK c : c = cached[b]
  OBVIOUS
<1>4. PICK d : d = fs[b]
  OBVIOUS
<1>5. PICK ls : ls = layers[b]
  OBVIOUS
<1>6. PICK m : m = l[b]
  OBVIOUS
<1>7. PICK init : init = initSnapshotTaken[b]
  OBVIOUS
<1>8. PICK scan : scan = (~init /\ ~ProvidesFilesToSnapshot(j, j.cmds[i]))
  OBVIOUS
<1>9. PICK m1 : m1 = IF scan THEN scanFullFilesystem(m, d).l ELSE m
  OBVIOUS
<1>10. PICK d2 : d2 = Execute(j, j.cmds[i], d, env[b])
  OBVIOUS
<1>11. PICK snap : snap = takeSnapshot(j, m1, d2, FilesToSnapshot(j, j.cmds[i], d, d2),
                                       ShouldDetectDeletedFiles(j, j.cmds[i]))
  OBVIOUS
<1>12. PICK key : key = IF j.Cache
                        THEN populateCompositeKey(compositeKey[b], j, j.cmds[i], env[b])
                        ELSE compositeKey[b]
  OBVIOUS
<1>13. /\ pc[b] = "build" /\ i \in 1 .. Len(j.cmds) /\ c[i] = None
       /\ CanExecute(j, j.cmds[i], d)
       /\ UNCHANGED <<job, pc, stopCache, cached, registry>>
       /\ index' = [index EXCEPT ![b] = i + 1]
  BY <1>1, <1>2, <1>3, <1>4, AtCommand DEF buildCommand, BInv
<1>14. /\ fs' = [fs EXCEPT ![b] = d2]
       /\ initSnapshotTaken' = [initSnapshotTaken EXCEPT ![b] = init \/ scan]
  BY <1>1, <1>2, <1>4, <1>7, <1>8, <1>10 DEF buildCommand
<1>15. IF shouldTakeSnapshot(j, i)
       THEN /\ l' = [l EXCEPT ![b] = snap.l]
            /\ layers' = [layers EXCEPT ![b] = saveSnapshotToImage(j, ls, i, snap.layer)]
            /\ pushes' = IF pushesLayer(j, j.cmds[i])
                         THEN [pushes EXCEPT
                                 ![b] = pushes[b] \cup {[key |-> key, layer |-> snap.layer]}]
                         ELSE pushes
       ELSE l' = [l EXCEPT ![b] = m1] /\ UNCHANGED <<layers, pushes>>
  BY <1>1, <1>2, <1>4, <1>5, <1>6, <1>7, <1>8, <1>9, <1>10, <1>11, <1>12 DEF buildCommand
<1>16. PICK m2 : m2 = IF shouldTakeSnapshot(j, i) THEN snap.l ELSE m1
  OBVIOUS
<1>17. PICK ls2 : ls2 = IF shouldTakeSnapshot(j, i)
                        THEN saveSnapshotToImage(j, ls, i, snap.layer) ELSE ls
  OBVIOUS
<1>18. /\ DOMAIN fs = Builder /\ DOMAIN l = Builder /\ DOMAIN layers = Builder
       /\ DOMAIN index = Builder /\ DOMAIN pushes = Builder
       /\ initSnapshotTaken \in [Builder -> BOOLEAN]
  BY DEF BInv, IInv, Types, Shapes
<1>19. /\ DOMAIN l' = Builder /\ l'[b] = m2 /\ DOMAIN layers' = Builder /\ layers'[b] = ls2
       /\ \A a \in Builder \ {b} : l'[a] = l[a] /\ layers'[a] = layers[a]
  BY <1>5, <1>15, <1>16, <1>17, <1>18
<1>20. /\ j \in Job /\ Plain(j) /\ IsMap(m) /\ init \in BOOLEAN
       /\ Stopped(j, c, FALSE, i, stopCache[b]) /\ Found(j, c) /\ OnDisk(j, c, i, d)
       /\ Tracked(j, c, i, d, m, init) /\ Listing(j, ls, i)
  BY <1>1, <1>2, <1>3, <1>4, <1>5, <1>6, <1>7, <1>13, AtBuild
<1>21. env[b] = Meaning[j][i - 1].env
  BY <1>1, <1>2 DEF BInv, IInv, Walk
<1>22. Runs(j, c, i, d, m, init, ls, scan, m1, d2, snap)
  BY <1>8, <1>9, <1>10, <1>11, <1>13, <1>20, <1>21 DEF Runs
<1>23. GoesOn(j, c, i, d2, m1, init \/ scan, ls, snap)
  BY <1>13, <1>20, <1>22, RunsOn DEF Sound
<1>24. PICK init2 : init2 = (init \/ scan)
  OBVIOUS
<1>25. /\ Goes(j, c, i, d2, m2, init2, ls, ls2) /\ init2 \in BOOLEAN
       /\ j.Cache => snap.layer = None \/ Right(j, i, snap.layer)
  <2>1. GoesOn(j, c, i, d2, m1, init2, ls, snap)
    BY <1>23, <1>24
  <2> QED
    BY <1>16, <1>17, <1>24, <2>1 DEF GoesOn
<1>26. Shapes'
  BY <1>13, <1>14, <1>18, <1>19, <1>24, <1>25 DEF BInv, Shapes
<1>27. Aside(b)
  BY <1>13, <1>14, <1>18, <1>19 DEF Aside
<1>28. Build(j, "build", i + 1, stopCache[b], c, d2, m2, init2, ls2)
  BY <1>20, <1>25, GoneOn
<1>29. /\ cached'[b] = c /\ stopCache'[b] = stopCache[b] /\ index'[b] = i + 1
       /\ pc'[b] = "build" /\ job'[b] = j /\ fs'[b] = d2 /\ l'[b] = m2 /\ layers'[b] = ls2
       /\ initSnapshotTaken'[b] = init2
  BY <1>1, <1>3, <1>13, <1>14, <1>18, <1>19, <1>24
<1>30. Builds(b)'
  BY <1>28, <1>29, Zenon DEF Builds
<1>31. Moves(b)
  BY <1>1, <1>2, <1>3, <1>5, <1>13, <1>25, <1>29, Zenon DEF Moves
<1>32. RightLayers'
  <2>1. ASSUME NEW a \in Builder, NEW e \in pushes'[a], e.layer # None
        PROVE  RightFor(e.key, e.layer)
    <3>1. CASE e \in pushes[a]
      BY <2>1, <3>1 DEF BInv, RightLayers
    <3>2. CASE e \notin pushes[a]
      <4>1. e = [key |-> key, layer |-> snap.layer] /\ pushesLayer(j, j.cmds[i])
        BY <1>15, <1>18, <2>1, <3>2
      <4>2. e.key = key /\ e.layer = snap.layer /\ j.Cache /\ ShouldCacheOutput(j, j.cmds[i])
        BY <4>1 DEF pushesLayer
      <4>3. Right(j, i, snap.layer)
        BY <1>25, <2>1, <4>2
      <4>4. key = Meaning[j][i].key
        BY <1>1, <1>2, <1>12, <1>13, <4>2, AtCommand DEF BInv
      <4>5. RightFor(Meaning[j][i].key, snap.layer)
        BY <1>13, <1>20, <4>2, <4>3, RightUnderKey, KeysTellCommands DEF Sound
      <4> QED
        BY <4>2, <4>4, <4>5
    <3> QED
      BY <3>1, <3>2
  <2>2. \A k \in DOMAIN registry' : RightFor(k, registry'[k])
    BY <1>13 DEF BInv, RightLayers
  <2> QED
    BY <2>1, <2>2 DEF RightLayers
<1> QED
  BY <1>26, <1>27, <1>30, <1>31, <1>32

(***************************************************************************)
(* A build that fails leaves the image as it is.                           *)
(***************************************************************************)
LEMMA FailsBuild ==
    ASSUME Sound, BInv, NEW b \in Builder, commandFails(b)
    PROVE  Shapes' /\ RightLayers' /\ Aside(b) /\ Builds(b)'
<1>1. /\ pc' = [pc EXCEPT ![b] = "failed"]
      /\ pushes' = [pushes EXCEPT ![b] = {}]
      /\ UNCHANGED <<job, index, stopCache, cached, fs, l, initSnapshotTaken, layers, registry>>
      /\ \/ pc[b] = "optimize" /\ (job[b].Cache => index[b] > Len(job[b].cmds))
         \/ pc[b] = "build"
  BY DEF commandFails
<1>2. DOMAIN pc = Builder /\ DOMAIN pushes = Builder /\ job[b] \in Job /\ index[b] \in Nat
  BY DEF BInv, IInv, Types
<1>3. Shapes' /\ Aside(b) /\ pc'[b] = "failed"
  BY <1>1, <1>2 DEF BInv, Shapes, Aside
<1>4. RightLayers'
  <2>1. \A a \in Builder : pushes'[a] \subseteq pushes[a]
    BY <1>1, <1>2
  <2> QED
    BY <1>1, <2>1 DEF BInv, RightLayers
<1>5. Build(job[b], "failed", index[b], stopCache[b], cached[b], fs[b], l[b],
            initSnapshotTaken[b], layers[b])
  <2>1. Builds(b)
    BY DEF BInv
  <2>2. /\ IsList(layers[b]) /\ IsMap(l[b]) /\ Chain(job[b], layers[b])
        /\ Stopped(job[b], cached[b], pc[b] = "optimize", index[b], stopCache[b])
    BY <2>1 DEF Builds, Build
  <2>3. Stopped(job[b], cached[b], FALSE, index[b], stopCache[b])
    <3>1. CASE pc[b] = "build"
      BY <2>2, <3>1
    <3>2. CASE pc[b] = "optimize" /\ (job[b].Cache => index[b] > Len(job[b].cmds))
      <4>1. Stopped(job[b], cached[b], TRUE, index[b], stopCache[b])
        BY <2>2, <3>2
      <4> QED
        BY <1>2, <3>2, <4>1, PassEnds
    <3> QED
      BY <1>1, <3>1, <3>2
  <2> QED
    BY <2>2, <2>3 DEF Build
<1>6. Builds(b)'
  BY <1>1, <1>3, <1>5 DEF Builds
<1> QED
  BY <1>3, <1>4, <1>6

(***************************************************************************)
(* A build that ends has an image with all that the commands made.         *)
(***************************************************************************)
LEMMA WaitBuild ==
    ASSUME Sound, BInv, NEW b \in Builder, wait(b)
    PROVE  Shapes' /\ RightLayers' /\ Aside(b) /\ Builds(b)'
<1>1. /\ pc' = [pc EXCEPT ![b] = "done"] /\ pc[b] = "build"
      /\ index[b] > Len(job[b].cmds)
      /\ UNCHANGED <<job, index, stopCache, cached, fs, l, initSnapshotTaken, layers,
                     pushes, registry>>
  BY DEF wait
<1>2. /\ DOMAIN pc = Builder /\ job[b] \in Job /\ Len(job[b].cmds) \in Nat
      /\ index[b] = Len(job[b].cmds) + 1
  BY <1>1, AtCommand DEF BInv, IInv, Types
<1>3. Shapes' /\ Aside(b) /\ pc'[b] = "done"
  BY <1>1, <1>2 DEF BInv, Shapes, Aside
<1>4. RightLayers'
  BY <1>1 DEF BInv, RightLayers
<1>5. Build(job[b], "done", index[b], stopCache[b], cached[b], fs[b], l[b],
            initSnapshotTaken[b], layers[b])
  <2>1. Builds(b)
    BY DEF BInv
  <2>2. /\ IsList(layers[b]) /\ IsMap(l[b]) /\ Chain(job[b], layers[b])
        /\ Stopped(job[b], cached[b], FALSE, index[b], stopCache[b])
        /\ CaughtUp(job[b], layers[b], index[b])
    BY <1>1, <2>1 DEF Builds, Build
  <2>3. CaughtUp(job[b], layers[b], Len(job[b].cmds) + 1)
    BY <1>2, <2>2
  <2>4. M(job[b], Len(job[b].cmds)) = M(job[b], Upto(layers[b], Len(layers[b])))
    BY <1>2, <2>2, <2>3, AllTaken
  <2> QED
    BY <2>2, <2>4 DEF Build
<1>6. Builds(b)'
  BY <1>1, <1>3, <1>5 DEF Builds
<1> QED
  BY <1>3, <1>4, <1>6

(***************************************************************************)
(* A push that ends.                                                       *)
(***************************************************************************)
LEMMA PushBuild ==
    ASSUME Sound, BInv, NEW b \in Builder, NEW e \in pushes[b], pushLayerToCache(b, e)
    PROVE  Shapes' /\ RightLayers' /\ Aside(b) /\ Builds(b)'
<1>1. /\ pushes' = [pushes EXCEPT ![b] = pushes[b] \ {e}]
      /\ UNCHANGED <<job, pc, index, stopCache, cached, fs, l, initSnapshotTaken, layers>>
      /\ \/ /\ e.layer # None
            /\ registry' = [k \in DOMAIN registry \cup {e.key} |->
                              IF k = e.key THEN e.layer ELSE registry[k]]
         \/ registry' = registry
  BY DEF pushLayerToCache
<1>2. Shapes' /\ Aside(b)
  BY <1>1 DEF BInv, Shapes, Aside
<1>3. RightLayers'
  <2>1. \A a \in Builder : pushes'[a] \subseteq pushes[a]
    BY <1>1 DEF BInv, IInv, Types
  <2>2. \A k \in DOMAIN registry' : RightFor(k, registry'[k])
    BY <1>1 DEF BInv, RightLayers
  <2> QED
    BY <2>1, <2>2 DEF BInv, RightLayers
<1>4. Builds(b)'
  <2>1. Builds(b)
    BY DEF BInv
  <2> QED
    BY <1>1, <2>1 DEF Builds
<1> QED
  BY <1>2, <1>3, <1>4

(***************************************************************************)
(* Every step keeps the invariant.                                         *)
(***************************************************************************)
LEMMA NextBInv ==
    ASSUME Sound, BInv, [Next]_vars
    PROVE  BInv'
<1>1. IInv'
  BY NextIInv DEF BInv
<1>2. CASE UNCHANGED vars
  <2>1. Shapes' /\ RightLayers'
    BY <1>2 DEF vars, BInv, Shapes, RightLayers
  <2>2. ASSUME NEW b \in Builder PROVE Builds(b)'
    BY <1>2 DEF vars, BInv, Builds
  <2> QED
    BY <1>1, <2>1, <2>2 DEF BInv
<1>3. ASSUME NEW b \in Builder, optimize(b) PROVE BInv'
  BY <1>1, <1>3, OptimizeBuild, OneBuild
<1>4. ASSUME NEW b \in Builder, build(b) PROVE BInv'
  <2>1. Shapes' /\ RightLayers' /\ Aside(b) /\ Builds(b)'
    BY <1>4, UnpackBuild, CachedBuild, FailsBuild, CommandBuild, WaitBuild DEF build
  <2> QED
    BY <1>1, <2>1, OneBuild
<1>5. ASSUME NEW b \in Builder, NEW e \in pushes[b], pushLayerToCache(b, e) PROVE BInv'
  BY <1>1, <1>5, PushBuild, OneBuild
<1> QED
  BY <1>2, <1>3, <1>4, <1>5 DEF Next

-----------------------------------------------------------------------------
(***************************************************************************)
(* For any number of builders and any plain jobs whose keys tell commands  *)
(* apart: a layer in the cache, laid over what the commands before its own *)
(* make, gives what executing the command would (optimize and              *)
(* pushLayerToCache).                                                      *)
(***************************************************************************)
THEOREM CacheIsRight ==
    ASSUME Sound
    PROVE  Spec => []CachedLayersAreRight
<1>1. Init => BInv
  BY InitBInv
<1>2. BInv /\ [Next]_vars => BInv'
  BY NextBInv
<1>3. BInv => CachedLayersAreRight
  <2> SUFFICES ASSUME BInv, NEW j \in Job, NEW n \in DOMAIN j.cmds, j.Cache,
                      ShouldCacheOutput(j, j.cmds[n]), Meaning[j][n].key \in DOMAIN registry
               PROVE  ApplyLayer(Meaning[j][n - 1].fs, registry[Meaning[j][n].key])
                        = Meaning[j][n].fs
    BY DEF CachedLayersAreRight
  <2>1. n \in 1 .. Len(j.cmds)
    BY JobCmds
  <2>2. RightFor(Meaning[j][n].key, registry[Meaning[j][n].key])
    BY DEF BInv, RightLayers
  <2>3. Right(j, n, registry[Meaning[j][n].key])
    BY <2>1, <2>2 DEF RightFor
  <2> QED
    BY <2>3 DEF Right, M
<1> QED
  BY <1>1, <1>2, <1>3, PTL DEF Spec

(***************************************************************************)
(* For the same jobs, if none has a COPY that copies nothing: the layer of *)
(* a command holds what the command touches and the directories above      *)
(* (takeSnapshot with the files that the command lists, or after the scan  *)
(* before a RUN).                                                          *)
(***************************************************************************)
THEOREM LayersAreSmall ==
    ASSUME Sound, \A j \in Job : CopiesFiles(j)
    PROVE  Spec => []LayersHoldOnlyChanges
<1>1. Init => BInv
  BY InitBInv
<1>2. BInv /\ [Next]_vars => BInv'
  BY NextBInv
<1>3. BInv => LayersHoldOnlyChanges
  <2> SUFFICES ASSUME BInv, NEW b \in Builder, ~job[b].SingleSnapshot,
                      NEW n \in DOMAIN layers[b]
               PROVE  layers[b][n].layer.adds \subseteq Touched(job[b], layers[b][n].cmd)
    BY DEF LayersHoldOnlyChanges
  <2>1. IsList(layers[b]) /\ Chain(job[b], layers[b])
    BY DEF BInv, Builds, Build
  <2>2. n \in 1 .. Len(layers[b])
    BY <2>1 DEF IsList
  <2> QED
    BY <2>1, <2>2 DEF Chain, AllCopiesFiles
<1> QED
  BY <1>1, <1>2, <1>3, PTL DEF Spec

-----------------------------------------------------------------------------
(***************************************************************************)
(* The refinement.  The layers of an image, laid over the base one after   *)
(* the other, make what the Dockerfile says up to the command of the last. *)
(***************************************************************************)
Laid(j, ls, img) ==
    img = [n \in 0 .. Len(ls) |-> IF n = 0 THEN BaseTree[j.base]
                                  ELSE ApplyLayer(img[n - 1], ls[n].layer)]

(***************************************************************************)
(* Only one function lays the layers: take the first place where it would  *)
(* not be what the Dockerfile says.                                        *)
(***************************************************************************)
LEMMA LaidIs ==
    ASSUME NEW j \in Job, NEW ls, IsList(ls), Chain(j, ls), NEW img, Laid(j, ls, img)
    PROVE  img[Len(ls)] = M(j, Upto(ls, Len(ls)))
<1>1. Len(ls) \in Nat
  BY DEF IsList
<1>2. \A n \in 0 .. Len(ls) : img[n] = IF n = 0 THEN BaseTree[j.base]
                                       ELSE ApplyLayer(img[n - 1], ls[n].layer)
  BY DEF Laid
<1> SUFFICES ASSUME img[Len(ls)] # M(j, Upto(ls, Len(ls))) PROVE FALSE
  OBVIOUS
<1> DEFINE T == {n \in Nat : n <= Len(ls) /\ img[n] # M(j, Upto(ls, n))}
<1>3. PICK i \in T : \A h \in T : ~(<<h, i>> \in OpToRel(<, Nat))
  <2>1. T \subseteq Nat /\ T # {}
    BY <1>1
  <2> HIDE DEF T
  <2> QED
    BY <2>1, NatLessThanWellFounded, WFMin
<1>4. i \in Nat /\ i <= Len(ls) /\ img[i] # M(j, Upto(ls, i))
  OBVIOUS
<1>5. i # 0
  <2>1. img[0] = BaseTree[j.base]
    BY <1>1, <1>2
  <2>2. M(j, Upto(ls, 0)) = BaseTree[j.base]
    BY MeaningSteps DEF M, Upto
  <2> QED
    BY <1>4, <2>1, <2>2
<1>6. img[i - 1] = M(j, Upto(ls, i - 1))
  <2>1. i - 1 \in Nat /\ i - 1 < i /\ i - 1 <= Len(ls)
    BY <1>1, <1>4, <1>5
  <2>2. <<i - 1, i>> \in OpToRel(<, Nat)
    BY <1>4, <2>1 DEF OpToRel
  <2> QED
    BY <1>3, <2>1, <2>2
<1>7. i \in 1 .. Len(ls) /\ i \in 0 .. Len(ls)
  BY <1>1, <1>4, <1>5
<1>8. img[i] = ApplyLayer(M(j, Upto(ls, i - 1)), ls[i].layer)
  BY <1>2, <1>5, <1>6, <1>7
<1>9. ApplyLayer(M(j, Upto(ls, i - 1)), ls[i].layer) = M(j, ls[i].cmd) /\ Upto(ls, i) = ls[i].cmd
  BY <1>5, <1>7 DEF Chain, Upto
<1> QED
  BY <1>4, <1>8, <1>9

(***************************************************************************)
(* There is such a function, and ImageOf is its last value.                *)
(***************************************************************************)
LEMMA ImageIs ==
    ASSUME NEW j \in Job, NEW ls, IsList(ls), Chain(j, ls)
    PROVE  ImageOf(j, ls) = M(j, Upto(ls, Len(ls)))
<1>1. Len(ls) \in Nat
  BY DEF IsList
<1> DEFINE img == [n \in 0 .. Len(ls) |-> M(j, Upto(ls, n))]
<1>2. ASSUME NEW n \in 0 .. Len(ls)
      PROVE  img[n] = IF n = 0 THEN BaseTree[j.base] ELSE ApplyLayer(img[n - 1], ls[n].layer)
  <2>1. CASE n = 0
    BY <2>1, MeaningSteps DEF M, Upto
  <2>2. CASE n # 0
    <3>1. n \in 1 .. Len(ls) /\ n - 1 \in 0 .. Len(ls)
      BY <1>1, <2>2
    <3>2. img[n - 1] = M(j, Upto(ls, n - 1)) /\ img[n] = M(j, Upto(ls, n))
      BY <3>1
    <3>3. ApplyLayer(M(j, Upto(ls, n - 1)), ls[n].layer) = M(j, Upto(ls, n))
      BY <2>2, <3>1 DEF Chain, Upto
    <3> QED
      BY <2>2, <3>2, <3>3
  <2> QED
    BY <2>1, <2>2
<1>3. Laid(j, ls, img)
  BY <1>2 DEF Laid
<1> HIDE DEF img
<1>4. \E f : Laid(j, ls, f)
  BY <1>3
<1>5. PICK f : f = CHOOSE g : Laid(j, ls, g)
  OBVIOUS
<1>6. Laid(j, ls, f)
  BY <1>4, <1>5
<1>7. ImageOf(j, ls) = f[Len(ls)]
  BY <1>5, Zenon DEF ImageOf, Laid
<1> QED
  BY <1>6, <1>7, LaidIs

(***************************************************************************)
(* What the state of the builders is for StageBuild.                       *)
(***************************************************************************)
TakenIn ==
    [b \in Builder |-> IF pc[b] = "done" THEN Len(job[b].cmds)
                       ELSE IF layers[b] = << >> THEN 0
                       ELSE layers[b][Len(layers[b])].cmd]

Images == [b \in Builder |-> ImageOf(job[b], layers[b])]

StatusOf(at) == IF at \in {"done", "failed"} THEN at ELSE "building"

Statuses == [b \in Builder |-> IF pc[b] \in {"done", "failed"} THEN pc[b] ELSE "building"]

(***************************************************************************)
(* A builder that is not done has taken in the commands up to its last     *)
(* layer, and they have made its image.                                    *)
(***************************************************************************)
StageOfLayers ==
    \A b \in Builder :
        /\ pc[b] # "done" => TakenIn[b] = Upto(layers[b], Len(layers[b]))
        /\ Images[b] = M(job[b], Upto(layers[b], Len(layers[b])))

(***************************************************************************)
(* That holds for every builder.                                           *)
(***************************************************************************)
LEMMA StageOf == BInv => StageOfLayers
<1> SUFFICES ASSUME BInv, NEW b \in Builder
             PROVE  /\ pc[b] # "done" => TakenIn[b] = Upto(layers[b], Len(layers[b]))
                    /\ Images[b] = M(job[b], Upto(layers[b], Len(layers[b])))
  BY DEF StageOfLayers
<1>1. IsList(layers[b]) /\ Chain(job[b], layers[b]) /\ job[b] \in Job
  BY DEF BInv, IInv, Types, Builds, Build
<1>2. Len(layers[b]) = 0 <=> layers[b] = << >>
  BY <1>1, LastLayer
<1>3. pc[b] # "done" => TakenIn[b] = Upto(layers[b], Len(layers[b]))
  BY <1>2 DEF TakenIn, Upto
<1>4. ImageOf(job[b], layers[b]) = M(job[b], Upto(layers[b], Len(layers[b])))
  BY <1>1, ImageIs
<1> QED
  BY <1>3, <1>4 DEF Images

(***************************************************************************)
(* The builders begin as StageBuild does.                                  *)
(***************************************************************************)
LEMMA InitStage ==
    ASSUME Sound, Init
    PROVE  Stage!Init
<1>1. BInv
  BY InitBInv
<1>2. ASSUME NEW b \in Builder
      PROVE  pc[b] = "optimize" /\ layers[b] = << >> /\ Upto(layers[b], Len(layers[b])) = 0
  BY <1>2 DEF Init, Upto
<1>3. TakenIn = [b \in Builder |-> 0]
  BY <1>2 DEF TakenIn
<1>4. Statuses = [b \in Builder |-> "building"]
  BY <1>2 DEF Statuses
<1>5. Images = [b \in Builder |-> Meaning[job[b]][0].fs]
  <2>1. \A b \in Builder : Images[b] = Meaning[job[b]][0].fs
    BY <1>1, <1>2, StageOf DEF StageOfLayers, M
  <2> QED
    BY <2>1 DEF Images
<1>6. job \in [Builder -> Job]
  BY DEF Init
<1> QED
  BY <1>3, <1>4, <1>5, <1>6 DEF Stage!Init, TakenIn, Statuses, Images

(***************************************************************************)
(* Steps that change no layers and end no build.                           *)
(***************************************************************************)
LEMMA StageStutters ==
    ASSUME job' = job,
           \A c \in Builder : layers'[c] = layers[c] /\ StatusOf(pc'[c]) = StatusOf(pc[c])
    PROVE  UNCHANGED Stage!vars
<1>1. \A c \in Builder : pc'[c] = "done" <=> pc[c] = "done"
  BY DEF StatusOf
<1>2. TakenIn' = TakenIn
  BY <1>1 DEF TakenIn
<1>3. Images' = Images
  BY DEF Images
<1>4. Statuses' = Statuses
  BY DEF Statuses, StatusOf
<1> QED
  BY <1>2, <1>3, <1>4 DEF Stage!vars, TakenIn, Images, Statuses

AppendsFor(j, i, u, ls2) ==
    /\ Upto(ls2, Len(ls2)) = i /\ i \in u + 1 .. Len(j.cmds)
    /\ IF j.SingleSnapshot THEN i = Len(j.cmds)
       ELSE \A k \in u + 1 .. i - 1 : M(j, k) = M(j, u)

(***************************************************************************)
(* A step over a command that appends a layer: it is one for the command,  *)
(* and the commands that are passed over have changed nothing.             *)
(***************************************************************************)
LEMMA Appends ==
    ASSUME NEW j \in Job, NEW c, NEW i \in 1 .. Len(j.cmds), NEW d2, NEW m2, NEW init2,
           NEW ls, Listing(j, ls, i), NEW ls2, ls2 # ls, Goes(j, c, i, d2, m2, init2, ls, ls2),
           NEW u, u = Upto(ls, Len(ls))
    PROVE  AppendsFor(j, i, u, ls2)
<1>1. u \in Nat /\ u < i /\ Len(j.cmds) \in Nat
  BY LastLayer, JobCmds DEF Listing, CaughtUp
<1>2. PICK layer : ls2 = Append(ls, [cmd |-> i, layer |-> layer])
  BY DEF Goes, Extends
<1>3. PICK S : ls \in Seq(S)
  BY DEF Listing, IsList
<1> DEFINE x == [cmd |-> i, layer |-> layer]
<1>4. x \in S \cup {x} /\ x.cmd = i /\ ls \in Seq(S \cup {x}) /\ Len(ls) \in Nat
  BY <1>3
<1> HIDE DEF x
<1>5. ls2 = Append(ls, x)
  BY <1>2 DEF x
<1>6. Len(ls2) = Len(ls) + 1 /\ ls2[Len(ls) + 1] = x
  BY <1>4, <1>5, AppendProperties
<1>7. Upto(ls2, Len(ls2)) = i /\ ls2 # << >>
  BY <1>4, <1>6 DEF Upto
<1>8. j.SingleSnapshot => i = Len(j.cmds)
  <2>1. j.SingleSnapshot /\ i + 1 <= Len(j.cmds) => ls2 = << >>
    BY DEF Goes, Listing, CaughtUp
  <2> QED
    BY <1>1, <1>7, <2>1
<1>9. ~j.SingleSnapshot => \A k \in u + 1 .. i - 1 : M(j, k) = M(j, u)
  BY DEF Listing, CaughtUp
<1> QED
  BY <1>1, <1>7, <1>8, <1>9 DEF AppendsFor

(***************************************************************************)
(* A layer that is appended is a step of StageBuild.                       *)
(***************************************************************************)
LEMMA AppendStage ==
    ASSUME Sound, BInv, BInv', NEW b \in Builder, Moves(b), Aside(b), layers'[b] # layers[b]
    PROVE  Stage!Next
<1>1. PICK j : j = job[b]
  OBVIOUS
<1>2. PICK i : i = index[b]
  OBVIOUS
<1>3. PICK u : u = Upto(layers[b], Len(layers[b]))
  OBVIOUS
<1>4. /\ pc[b] = "build" /\ i \in 1 .. Len(j.cmds) /\ job' = job /\ pc' = pc /\ j \in Job
      /\ Goes(j, cached[b], i, fs'[b], l'[b], initSnapshotTaken'[b], layers[b], layers'[b])
      /\ Listing(j, layers[b], i)
  BY <1>1, <1>2, AtBuild DEF Moves
<1>5. /\ Upto(layers'[b], Len(layers'[b])) = i /\ i \in u + 1 .. Len(j.cmds)
      /\ IF j.SingleSnapshot THEN i = Len(j.cmds)
         ELSE \A k \in u + 1 .. i - 1 : M(j, k) = M(j, u)
  <2>1. AppendsFor(j, i, u, layers'[b])
    BY <1>3, <1>4, Appends
  <2> QED
    BY <2>1 DEF AppendsFor
<1>6. /\ TakenIn[b] = u
      /\ TakenIn'[b] = i /\ Images'[b] = M(j, i)
  <2>1. TakenIn[b] = u
    BY <1>3, <1>4, StageOf DEF StageOfLayers
  <2>2. pc'[b] # "done" /\ job'[b] = j
    BY <1>1, <1>4
  <2>3. /\ pc'[b] # "done" => TakenIn'[b] = Upto(layers'[b], Len(layers'[b]))
        /\ Images'[b] = M(job'[b], Upto(layers'[b], Len(layers'[b])))
    <3>1. BInv' => StageOfLayers'
      BY StageOf, PTL
    <3> QED
      BY <3>1 DEF StageOfLayers
  <2> QED
    BY <1>5, <2>1, <2>2, <2>3
<1>7. \A c \in Builder \ {b} : TakenIn'[c] = TakenIn[c] /\ Images'[c] = Images[c]
  BY <1>4 DEF Aside, TakenIn, Images
<1>8. TakenIn' = [TakenIn EXCEPT ![b] = i]
  <2>1. TakenIn = [c \in Builder |-> TakenIn[c]] /\ TakenIn' = [c \in Builder |-> TakenIn'[c]]
    BY DEF TakenIn
  <2> QED
    BY <1>6, <1>7, <2>1
<1>9. Images' = [Images EXCEPT ![b] = M(j, i)]
  <2>1. Images = [c \in Builder |-> Images[c]] /\ Images' = [c \in Builder |-> Images'[c]]
    BY DEF Images
  <2> QED
    BY <1>6, <1>7, <2>1
<1>10. Statuses' = Statuses /\ Statuses[b] = "building"
  BY <1>4 DEF Statuses
<1>11. \E n \in TakenIn[b] + 1 .. Len(job[b].cmds) :
          /\ Statuses[b] = "building"
          /\ IF job[b].SingleSnapshot THEN n = Len(job[b].cmds)
             ELSE \A k \in TakenIn[b] + 1 .. n - 1 :
                     Meaning[job[b]][k].fs = Meaning[job[b]][TakenIn[b]].fs
          /\ TakenIn' = [TakenIn EXCEPT ![b] = n]
          /\ Images' = [Images EXCEPT ![b] = Meaning[job[b]][n].fs]
          /\ UNCHANGED <<job, Statuses>>
  BY <1>1, <1>4, <1>5, <1>6, <1>8, <1>9, <1>10 DEF M
<1>12. Stage!appendLayer(b)
  BY <1>11 DEF Stage!appendLayer, TakenIn, Images, Statuses
<1> QED
  BY <1>12 DEF Stage!Next

(***************************************************************************)
(* The end of a build.                                                     *)
(***************************************************************************)
LEMMA WaitStage ==
    ASSUME Sound, BInv, BInv', NEW b \in Builder, wait(b)
    PROVE  Stage!Next
<1>1. /\ pc[b] = "build" /\ pc' = [pc EXCEPT ![b] = "done"] /\ UNCHANGED <<job, layers>>
  BY DEF wait
<1>2. DOMAIN pc = Builder
  BY DEF BInv, IInv, Types
<1>3. pc'[b] = "done" /\ \A c \in Builder \ {b} : pc'[c] = pc[c]
  BY <1>1, <1>2
<1>4. Images[b] = Meaning[job[b]][Len(job[b].cmds)].fs
  <2>1. Builds(b)'
    BY DEF BInv
  <2>2. M(job[b], Len(job[b].cmds)) = M(job[b], Upto(layers[b], Len(layers[b])))
    BY <1>1, <1>3, <2>1 DEF Builds, Build
  <2> QED
    BY <2>2, StageOf DEF StageOfLayers, M
<1>5. TakenIn' = [TakenIn EXCEPT ![b] = Len(job[b].cmds)]
  BY <1>1, <1>3 DEF TakenIn
<1>6. Statuses' = [Statuses EXCEPT ![b] = "done"] /\ Statuses[b] = "building"
  BY <1>1, <1>3 DEF Statuses
<1>7. Images' = Images
  BY <1>1 DEF Images
<1>8. Stage!finish(b)
  BY <1>1, <1>4, <1>5, <1>6, <1>7 DEF Stage!finish, TakenIn, Images, Statuses
<1> QED
  BY <1>8 DEF Stage!Next

(***************************************************************************)
(* A build that fails.                                                     *)
(***************************************************************************)
LEMMA FailStage ==
    ASSUME BInv, NEW b \in Builder, commandFails(b)
    PROVE  Stage!Next
<1>1. /\ pc[b] \in {"optimize", "build"} /\ pc' = [pc EXCEPT ![b] = "failed"]
      /\ UNCHANGED <<job, layers>>
  BY DEF commandFails
<1>2. DOMAIN pc = Builder
  BY DEF BInv, IInv, Types
<1>3. pc'[b] = "failed" /\ \A c \in Builder \ {b} : pc'[c] = pc[c]
  BY <1>1, <1>2
<1>4. TakenIn' = TakenIn
  BY <1>1, <1>3 DEF TakenIn
<1>5. Statuses' = [Statuses EXCEPT ![b] = "failed"] /\ Statuses[b] = "building"
  BY <1>1, <1>3 DEF Statuses
<1>6. Images' = Images
  BY <1>1 DEF Images
<1>7. Stage!fail(b)
  BY <1>1, <1>4, <1>5, <1>6 DEF Stage!fail, TakenIn, Images, Statuses
<1> QED
  BY <1>7 DEF Stage!Next

(***************************************************************************)
(* Every step of the builders is one of StageBuild, or changes nothing of  *)
(* it.                                                                     *)
(***************************************************************************)
LEMMA NextStage ==
    ASSUME Sound, BInv, BInv', [Next]_vars
    PROVE  [Stage!Next]_(Stage!vars)
<1>1. CASE UNCHANGED vars
  <2>1. job' = job /\ layers' = layers /\ pc' = pc
    BY <1>1 DEF vars
  <2> QED
    BY <2>1, StageStutters
<1>2. DOMAIN pc = Builder
  BY DEF BInv, IInv, Types
<1>3. ASSUME NEW b \in Builder, optimize(b) PROVE UNCHANGED Stage!vars
  <2>1. job' = job /\ layers' = layers /\ pc' = pc
    BY <1>3 DEF optimize
  <2> QED
    BY <2>1, StageStutters
<1>4. ASSUME NEW b \in Builder, unpack(b) PROVE UNCHANGED Stage!vars
  <2>1. job' = job /\ layers' = layers /\ pc[b] = "optimize" /\ pc' = [pc EXCEPT ![b] = "build"]
    BY <1>4 DEF unpack
  <2>2. \A c \in Builder : StatusOf(pc'[c]) = StatusOf(pc[c])
    BY <1>2, <2>1 DEF StatusOf
  <2> QED
    BY <2>1, <2>2, StageStutters
<1>5. ASSUME NEW b \in Builder, Moves(b), Aside(b) PROVE [Stage!Next]_(Stage!vars)
  <2>1. CASE layers'[b] = layers[b]
    <3>1. job' = job /\ pc' = pc /\ \A c \in Builder : layers'[c] = layers[c]
      BY <1>5, <2>1 DEF Moves, Aside
    <3> QED
      BY <3>1, StageStutters
  <2>2. CASE layers'[b] # layers[b]
    BY <1>5, <2>2, AppendStage
  <2> QED
    BY <2>1, <2>2
<1>6. ASSUME NEW b \in Builder, buildCached(b) \/ buildCommand(b)
      PROVE  [Stage!Next]_(Stage!vars)
  BY <1>5, <1>6, CachedBuild, CommandBuild
<1>7. ASSUME NEW b \in Builder, NEW e \in pushes[b], pushLayerToCache(b, e)
      PROVE  UNCHANGED Stage!vars
  <2>1. job' = job /\ layers' = layers /\ pc' = pc
    BY <1>7 DEF pushLayerToCache
  <2> QED
    BY <2>1, StageStutters
<1> QED
  BY <1>1, <1>3, <1>4, <1>6, <1>7, WaitStage, FailStage DEF Next, build

(***************************************************************************)
(* For any number of builders and any plain jobs whose keys tell commands  *)
(* apart, whatever they find in the cache and whichever commands fail: the *)
(* builders implement the module StageBuild.  The image goes through the   *)
(* file systems that the Dockerfile's commands make, a layer for each that *)
(* changes something, and ends with the last (stageBuilder.build).         *)
(***************************************************************************)
THEOREM BuildersMakeTheImage ==
    ASSUME Sound
    PROVE  Spec => ImageIsMeant
<1>1. Init => BInv /\ Stage!Init
  BY InitBInv, InitStage
<1>2. BInv /\ [Next]_vars => BInv'
  BY NextBInv
<1>3. BInv /\ BInv' /\ [Next]_vars => [Stage!Next]_(Stage!vars)
  BY NextStage
<1> QED
  BY <1>1, <1>2, <1>3, PTL DEF Spec, ImageIsMeant, Stage!Spec

=============================================================================

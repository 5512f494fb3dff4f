-------------------------- MODULE Geofences_proof --------------------------
(***************************************************************************)
(* For any clients, fences, hardware ids and bounds.                       *)
(***************************************************************************)
EXTENDS Geofences, FiniteSetTheorems, FunctionTheorems, SequenceTheorems, TLAPS

-----------------------------------------------------------------------------
(* What the operators return *)

LEMMA TailFacts ==
  ASSUME NEW S, NEW s \in Seq(S), s # << >>
  PROVE  /\ Tail(s) \in Seq(S) /\ Head(s) = s[1] /\ s[1] \in S /\ 1 \in DOMAIN s
         /\ DOMAIN s \subseteq Nat /\ \A n \in DOMAIN s : n = 1 \/ n > 1
         /\ \A n \in DOMAIN Tail(s) : n \in Nat /\ n + 1 \in DOMAIN s /\ n + 1 > 1 /\ Tail(s)[n] = s[n + 1]
         /\ \A n \in DOMAIN s : n > 1 => n - 1 \in DOMAIN Tail(s) /\ s[n] = Tail(s)[n - 1]
  OBVIOUS

LEMMA AppendFacts ==
  ASSUME NEW S, NEW s \in Seq(S), NEW x \in S
  PROVE  /\ Append(s, x) \in Seq(S) /\ DOMAIN Append(s, x) = DOMAIN s \cup {Len(s) + 1}
         /\ DOMAIN s \subseteq Nat /\ Len(s) \in Nat /\ Append(s, x)[Len(s) + 1] = x
         /\ \A n \in DOMAIN s : n \in Nat /\ n < Len(s) + 1 /\ Append(s, x)[n] = s[n]
  OBVIOUS

LEMMA ConcatFacts ==
  ASSUME NEW S, NEW s \in Seq(S), NEW t \in Seq(S)
  PROVE  /\ s \o t \in Seq(S) /\ DOMAIN s \subseteq Nat /\ Len(s) \in Nat
         /\ DOMAIN s \subseteq DOMAIN (s \o t)
         /\ \A n \in DOMAIN s : n \in Nat /\ (s \o t)[n] = s[n]
         /\ \A n \in DOMAIN t : n \in Nat /\ n > 0 /\ n + Len(s) \in DOMAIN (s \o t) /\ (s \o t)[n + Len(s)] = t[n]
         /\ \A n \in DOMAIN (s \o t) : n \in Nat /\ (n \in DOMAIN s \/ (n - Len(s) \in DOMAIN t /\ n > Len(s)))
  OBVIOUS

\* The members of a finite set of numbers, each once, in their order.
LEMMA AscendingFacts ==
  ASSUME NEW S, S \subseteq Int, IsFiniteSet(S)
  PROVE  /\ Ascending(S) \in Seq(S) /\ Len(Ascending(S)) = Cardinality(S)
         /\ \A i \in S : \E n \in DOMAIN Ascending(S) : Ascending(S)[n] = i
         /\ \A m, n \in DOMAIN Ascending(S) : m < n => Ascending(S)[m] < Ascending(S)[n]
  <1> DEFINE N == Cardinality(S)
             upTo(i) == {j \in S : j <= i}
             rank == [i \in S |-> Cardinality(upTo(i))]
  <1>1. N \in Nat
    BY FS_CardinalityType
  <1>2. ASSUME NEW i \in S
        PROVE  IsFiniteSet(upTo(i)) /\ rank[i] \in 1 .. N
    <2>1. /\ IsFiniteSet(upTo(i)) /\ Cardinality(upTo(i)) \in Nat /\ Cardinality(upTo(i)) <= N
          /\ Cardinality({i}) = 1 /\ IsFiniteSet({i})
      BY FS_Subset, FS_CardinalityType, FS_Singleton
    <2>2. {i} \subseteq upTo(i)
      OBVIOUS
    <2>3. 1 <= Cardinality(upTo(i))
      BY <2>1, <2>2, FS_Subset
    <2> QED BY <1>1, <2>1, <2>3
  <1>3. ASSUME NEW i \in S, NEW j \in S, i < j
        PROVE  rank[i] < rank[j]
    <2>0. i \in Int /\ j \in Int
      OBVIOUS
    <2>1. upTo(i) \subseteq upTo(j) /\ j \in upTo(j) /\ j \notin upTo(i)
      <3>1. \A k \in S : k \in Int
        OBVIOUS
      <3>2. upTo(i) \subseteq upTo(j)
        <4>1. \A k \in S : k <= i => k <= j
          BY <1>3, <2>0, <3>1
        <4> QED BY <4>1
      <3> QED BY <1>3, <2>0, <3>2
    <2>2. upTo(i) # upTo(j) /\ IsFiniteSet(upTo(j)) /\ IsFiniteSet(upTo(i))
      BY <1>2, <2>1
    <2> HIDE DEF upTo
    <2>3. Cardinality(upTo(i)) <= Cardinality(upTo(j)) /\ Cardinality(upTo(i)) # Cardinality(upTo(j))
      BY <2>1, <2>2, FS_Subset
    <2> QED BY <1>2, <2>3
  <1>4. rank \in Injection(S, 1 .. N)
    <2>1. rank \in [S -> 1 .. N]
      BY <1>2
    <2>2. /\ \A i, j \in S : i < j => rank[i] < rank[j]
          /\ \A i \in S : rank[i] \in 1 .. N
      BY <1>2, <1>3
    <2> HIDE DEF rank, upTo, N
    <2>3. \A i, j \in S : rank[i] = rank[j] => i = j
      BY <1>1, <2>2
    <2> QED BY <2>1, <2>3 DEF Injection, IsInjective
  <1>5. rank \in Surjection(S, 1 .. N)
    <2>1. IsFiniteSet(1 .. N) /\ Cardinality(1 .. N) = N
      BY <1>1, FS_Interval
    <2> HIDE DEF rank, N
    <2>2. Cardinality(S) = Cardinality(1 .. N)
      BY <2>1 DEF N
    <2> QED BY <1>4, <2>1, <2>2, FS_Injection
  <1>6. \A i \in S : rank[i] \in 1 .. N /\ rank[i] = Cardinality(upTo(i))
    BY <1>2
  <1>7. \A n \in 1 .. N : \E i \in S : Cardinality(upTo(i)) = n
    <2> HIDE DEF rank, N, upTo
    <2>1. \A n \in 1 .. N : \E i \in S : rank[i] = n
      BY <1>5 DEF Surjection
    <2> QED BY <1>6, <2>1
  <1>8. DOMAIN Ascending(S) = 1 .. N
    BY DEF Ascending
  <1>9. \A n \in 1 .. N : Ascending(S)[n] \in S /\ rank[Ascending(S)[n]] = n
    <2>1. \A n \in 1 .. N : Ascending(S)[n] = CHOOSE i \in S : Cardinality(upTo(i)) = n
      BY DEF Ascending
    <2>2. \A n \in 1 .. N : Ascending(S)[n] \in S /\ Cardinality(upTo(Ascending(S)[n])) = n
      BY <1>7, <2>1
    <2> QED BY <1>6, <2>2
  <1> HIDE DEF rank, N
  <1>10. Ascending(S) \in Seq(S) /\ Len(Ascending(S)) = N
    <2> DEFINE v(n) == CHOOSE i \in S : Cardinality({j \in S : j <= i}) = n
    <2>1. Ascending(S) = [n \in 1 .. N |-> v(n)]
      BY DEF Ascending, N
    <2> HIDE DEF v
    <2>2. \A n \in 1 .. N : v(n) \in S
      BY <1>9, <2>1
    <2> QED BY <1>1, <2>1, <2>2
  <1>11. \A i, j \in S : rank[i] = rank[j] => i = j
    BY <1>4 DEF Injection, IsInjective
  <1>12. \A i \in S : Ascending(S)[rank[i]] = i
    BY <1>6, <1>9, <1>11
  <1>13. ASSUME NEW m \in 1 .. N, NEW n \in 1 .. N, m < n
         PROVE  Ascending(S)[m] < Ascending(S)[n]
    <2> DEFINE a == Ascending(S)[m]
               b == Ascending(S)[n]
    <2>1. a \in S /\ b \in S /\ rank[a] = m /\ rank[b] = n
      BY <1>9
    <2>2. a \in Int /\ b \in Int /\ m \in Int /\ n \in Int
      <3>1. a \in Int /\ b \in Int
        BY <2>1
      <3> QED BY <1>1, <3>1
    <2>3. b < a => rank[b] < rank[a]
      BY <1>3, <2>1
    <2> HIDE DEF a, b
    <2>4. a < b
      BY <1>13, <2>1, <2>2, <2>3
    <2> QED BY <2>4 DEF a, b
  <1> QED BY <1>6, <1>8, <1>10, <1>12, <1>13 DEF N

-----------------------------------------------------------------------------
(* Types *)

\* An item of a command: its batch and its place in it.
Item(B, b, i) == b \in DOMAIN B /\ i \in DOMAIN B[b].ids

BatchesTyped ==
  /\ batches \in Seq(Commands) /\ Len(batches) <= MaxCommands
  /\ \A b \in DOMAIN batches :
       /\ Len(batches[b].ids) \in 1 .. MaxBatch
       /\ DOMAIN batches[b].ids \subseteq DOMAIN batches[b].masks
       /\ DOMAIN batches[b].errs = DOMAIN batches[b].ids
       /\ batches[b].cmd \in {"add", "modify"} => \A i \in Items(b) : batches[b].masks[i] \in Masks

\* A message names what there is: its handler looks nothing up in vain.
Proper(B, m) ==
  /\ m \in Messages
  /\ m.k = "command" => m.batch \in DOMAIN B
  /\ m.k \in {"turn", "done"} => Item(B, m.batch, m.item)
  /\ m.k = "done" /\ (m.ok \/ B[m.batch].cmd # "add") => m.hw \in HwIds
  /\ m.k = "removeClient" => m.client \in Clients
  /\ m.k = "swept" => m.hw \in HwIds
  /\ m.k = "restored" => m.fence \in Fence /\ (m.ok => m.hw \in HwIds)
  /\ m.k = "breach" => m.hw \in HwIds /\ m.fence.id \in Ids

\* What a request is for, and who made it.
ForItem(B, c) == /\ c.reply.k = "done" /\ Item(B, c.reply.batch, c.reply.item)
                 /\ c.op = B[c.reply.batch].cmd
                 /\ c.fence = Watching(B[c.reply.batch].ids[c.reply.item],
                                       B[c.reply.batch].masks[c.reply.item])
ForSweep(c)   == c.op = "remove" /\ c.reply = [Blank EXCEPT !.k = "swept"]
ForRestart(c) == /\ c.op = "add" /\ c.reply.k = "restored" /\ c.reply.fence \in Fence
                 /\ c.fence = Watching(c.reply.fence.id, c.reply.fence.mask)
ForPause(c)   == c.op = "pause" /\ c.reply = Blank

ProperCall(B, c) ==
  /\ c \in Calls
  /\ c.op = "turn" => c.reply.k = "turn" /\ Item(B, c.reply.batch, c.reply.item)
  /\ c.op = "open" => c.reply = Blank
  /\ c.op \in Cmds => ForItem(B, c) \/ ForSweep(c) \/ ForRestart(c) \/ ForPause(c)
  /\ c.op \in Cmds \ {"add"} => c.hw \in HwIds

MsgTyped  == msgQ \in Seq(Messages) /\ \A n \in DOMAIN msgQ : Proper(batches, msgQ[n])
ApiTyped  == apiQ \in Seq(Calls) /\ \A n \in DOMAIN apiQ : ProperCall(batches, apiQ[n])
RequestsTyped == requests \in [Clients -> Seq(DOMAIN batches)]
ClientsTyped ==
  /\ live \in [Clients -> BOOLEAN]
  /\ dict \in [Ids -> Masks \cup {NoMask}]
  /\ owner \in [Ids -> Clients \cup {NoClient}]
  /\ nextId \in 1 .. MaxFences + 1
  /\ \A id \in Ids : dict[id] # NoMask \/ owner[id] # NoClient => id < nextId
MapsTyped ==
  /\ geofences \in [HwIds -> Fence \cup {NoFence}]
  /\ geofenceIds \in [Ids -> HwIds \cup {0}]
ModemTyped ==
  /\ link \in BOOLEAN
  /\ modem \in [HwIds -> Fence \cup {NoFence}]
  /\ usedHw \in SUBSET HwIds
RestTyped ==
  /\ clientData \in SUBSET Clients
  /\ happened \in SUBSET Events
  /\ delivered \in SUBSET [client : Clients, told : Ids, meant : Ids]

Typed == /\ BatchesTyped /\ MsgTyped /\ ApiTyped /\ RequestsTyped /\ ClientsTyped
         /\ MapsTyped /\ ModemTyped /\ RestTyped

\* Commands are added, and keep what they ask for.
Grows == /\ DOMAIN batches \subseteq DOMAIN batches'
         /\ \A b \in DOMAIN batches :
              /\ batches'[b].cmd = batches[b].cmd /\ batches'[b].client = batches[b].client
              /\ batches'[b].ids = batches[b].ids /\ batches'[b].masks = batches[b].masks

LEMMA TypedTypeOK ==
  ASSUME Typed
  PROVE  TypeOK
  <1>1. RequestsTyped => requests \in [Clients -> Seq(1 .. MaxCommands)]
    <2>1. DOMAIN batches \subseteq 1 .. MaxCommands
      BY ConstantsAssumption DEF Typed, BatchesTyped
    <2>2. Seq(DOMAIN batches) \subseteq Seq(1 .. MaxCommands)
      BY <2>1, SeqMonotonic
    <2> QED BY <2>2 DEF RequestsTyped
  <1> QED BY <1>1 DEF Typed, TypeOK, BatchesTyped, MsgTyped, ApiTyped, ClientsTyped, MapsTyped,
             ModemTyped, RestTyped

LEMMA GrownMessage ==
  ASSUME Grows, NEW m, Proper(batches, m)
  PROVE  Proper(batches', m)
  BY DEF Grows, Proper, Item

LEMMA GrownCall ==
  ASSUME Grows, NEW c, ProperCall(batches, c)
  PROVE  ProperCall(batches', c)
  BY DEF Grows, ProperCall, ForItem, ForSweep, ForRestart, ForPause, Item

LEMMA SameGrows ==
  ASSUME UNCHANGED batches
  PROVE  Grows
  BY DEF Grows

LEMMA MsgKept ==
  ASSUME MsgTyped, Grows
  PROVE  /\ UNCHANGED msgQ => MsgTyped'
         /\ msgQ # << >> => Proper(batches, msg) /\ (msgQ' = Tail(msgQ) => MsgTyped')
         /\ \A m : Proper(batches', m) /\ msgQ' = Append(msgQ, m) => MsgTyped'
  <1>1. \A n \in DOMAIN msgQ : Proper(batches', msgQ[n])
    BY GrownMessage DEF MsgTyped
  <1>2. UNCHANGED msgQ => MsgTyped'
    BY <1>1 DEF MsgTyped
  <1>3. ASSUME msgQ # << >>
        PROVE  Proper(batches, msg) /\ (msgQ' = Tail(msgQ) => MsgTyped')
    <2>1. /\ msg = msgQ[1] /\ 1 \in DOMAIN msgQ /\ Tail(msgQ) \in Seq(Messages)
          /\ \A n \in DOMAIN Tail(msgQ) : n + 1 \in DOMAIN msgQ /\ Tail(msgQ)[n] = msgQ[n + 1]
      BY <1>3, TailFacts DEF MsgTyped, msg
    <2> QED BY <1>1, <2>1 DEF MsgTyped
  <1>4. ASSUME NEW m, Proper(batches', m), msgQ' = Append(msgQ, m)
        PROVE  MsgTyped'
    <2>1. m \in Messages
      BY <1>4 DEF Proper
    <2> QED BY <1>1, <1>4, <2>1, AppendFacts DEF MsgTyped
  <1> QED BY <1>2, <1>3, <1>4

LEMMA MsgProper ==
  ASSUME MsgTyped, msgQ # << >>
  PROVE  Proper(batches, msg)
  BY TailFacts DEF MsgTyped, msg

LEMMA ApiKept ==
  ASSUME ApiTyped, Grows
  PROVE  /\ UNCHANGED apiQ => ApiTyped'
         /\ apiQ # << >> => ProperCall(batches, Head(apiQ)) /\ (apiQ' = Tail(apiQ) => ApiTyped')
  <1>1. \A n \in DOMAIN apiQ : ProperCall(batches', apiQ[n])
    BY GrownCall DEF ApiTyped
  <1>2. UNCHANGED apiQ => ApiTyped'
    BY <1>1 DEF ApiTyped
  <1>3. ASSUME apiQ # << >>
        PROVE  ProperCall(batches, Head(apiQ)) /\ (apiQ' = Tail(apiQ) => ApiTyped')
    <2>1. /\ Head(apiQ) = apiQ[1] /\ 1 \in DOMAIN apiQ /\ Tail(apiQ) \in Seq(Calls)
          /\ \A n \in DOMAIN Tail(apiQ) : n + 1 \in DOMAIN apiQ /\ Tail(apiQ)[n] = apiQ[n + 1]
      BY <1>3, TailFacts DEF ApiTyped
    <2> QED BY <1>1, <2>1 DEF ApiTyped
  <1> QED BY <1>2, <1>3

LEMMA ApiRequested ==
  ASSUME ApiTyped, Grows, NEW s, s \in Seq(Calls), \A n \in DOMAIN s : ProperCall(batches', s[n]), Request(s)
  PROVE  ApiTyped'
  <1>1. \A n \in DOMAIN apiQ : ProperCall(batches', apiQ[n])
    BY GrownCall DEF ApiTyped
  <1> QED BY <1>1, ConcatFacts DEF ApiTyped, Request

LEMMA ExceptFacts ==
  ASSUME NEW S, NEW s \in Seq(S), NEW i \in DOMAIN s, NEW x \in S
  PROVE  /\ [s EXCEPT ![i] = x] \in Seq(S) /\ Len([s EXCEPT ![i] = x]) = Len(s)
         /\ DOMAIN [s EXCEPT ![i] = x] = DOMAIN s /\ [s EXCEPT ![i] = x][i] = x
         /\ \A j \in DOMAIN s : j # i => [s EXCEPT ![i] = x][j] = s[j]
  OBVIOUS

\* What a step may change of a command: its errors and its answers.
SameCommand(d, r) == /\ d \in Commands /\ d.cmd = r.cmd /\ d.client = r.client /\ d.ids = r.ids
                     /\ d.masks = r.masks /\ DOMAIN d.errs = DOMAIN r.errs

LEMMA SameTransitive ==
  ASSUME NEW d, NEW e, NEW f, SameCommand(f, e), SameCommand(e, d)
  PROVE  SameCommand(f, d)
  BY DEF SameCommand

LEMMA CommandChanges ==
  ASSUME NEW r \in Commands
  PROVE  /\ SameCommand(r, r) /\ r.errs \in Seq(Errors) /\ r.client \in Clients
         /\ \A w \in Seq(Errors) : DOMAIN w = DOMAIN r.errs =>
              /\ SameCommand([r EXCEPT !.errs = w], r)
              /\ SameCommand([r EXCEPT !.errs = w, !.freed = TRUE], r)
         /\ SameCommand([r EXCEPT !.told = @ + 1], r)
         /\ \A b \in 0 .. MaxCommands : SameCommand([r EXCEPT !.heard = b], r)
  <1>1. /\ r.cmd \in Cmds /\ r.client \in Clients /\ r.ids \in Seq(Ids)
        /\ r.masks \in Seq(Masks \cup {NoMask}) /\ r.errs \in Seq(Errors)
        /\ r.freed \in BOOLEAN /\ r.told \in Nat /\ r.heard \in 0 .. MaxCommands
    BY DEF Commands
  <1>2. SameCommand(r, r)
    BY DEF SameCommand
  <1>3. ASSUME NEW w \in Seq(Errors), DOMAIN w = DOMAIN r.errs
        PROVE  SameCommand([r EXCEPT !.errs = w], r)
    BY <1>1, <1>3 DEF Commands, SameCommand
  <1>4. ASSUME NEW w \in Seq(Errors), DOMAIN w = DOMAIN r.errs
        PROVE  SameCommand([r EXCEPT !.errs = w, !.freed = TRUE], r)
    BY <1>1, <1>4 DEF Commands, SameCommand
  <1>5. SameCommand([r EXCEPT !.told = @ + 1], r)
    <2>1. r.told + 1 \in Nat
      BY <1>1
    <2> QED BY <1>1, <2>1 DEF Commands, SameCommand
  <1>6. ASSUME NEW b \in 0 .. MaxCommands
        PROVE  SameCommand([r EXCEPT !.heard = b], r)
    BY <1>1 DEF Commands, SameCommand
  <1> QED BY <1>1, <1>2, <1>3, <1>4, <1>5, <1>6

LEMMA CommandChanged ==
  ASSUME NEW B \in Seq(Commands), NEW b \in DOMAIN B, NEW r, SameCommand(r, B[b])
  PROVE  /\ [B EXCEPT ![b] = r] \in Seq(Commands) /\ DOMAIN [B EXCEPT ![b] = r] = DOMAIN B
         /\ Len([B EXCEPT ![b] = r]) = Len(B)
         /\ [B EXCEPT ![b] = r][b] = r
         /\ \A a \in DOMAIN B : a # b => [B EXCEPT ![b] = r][a] = B[a]
         /\ \A a \in DOMAIN B : SameCommand([B EXCEPT ![b] = r][a], B[a])
  <1>1. r \in Commands
    BY DEF SameCommand
  <1>2. \A a \in DOMAIN B : B[a] \in Commands
    OBVIOUS
  <1>3. \A a \in DOMAIN B : SameCommand(B[a], B[a])
    BY <1>2, CommandChanges
  <1> QED BY <1>1, <1>3, ExceptFacts

\* The errors and answers of a batch.
LEMMA AnswerTyped ==
  ASSUME BatchesTyped, RequestsTyped, NEW b, NEW i, Item(batches, b, i), NEW err \in Errors,
         AnswerIfLast(b, i, err) \/ Store(b, i, err)
  PROVE  BatchesTyped' /\ RequestsTyped' /\ Grows
  <1> DEFINE w == Written(b, i, err)
  <1>1. /\ batches \in Seq(Commands) /\ b \in DOMAIN batches /\ batches[b] \in Commands
        /\ i \in DOMAIN batches[b].errs /\ b \in 0 .. MaxCommands
    <2>1. batches \in Seq(Commands) /\ Len(batches) <= MaxCommands /\ b \in DOMAIN batches
      BY DEF Item, BatchesTyped
    <2>2. b \in 0 .. MaxCommands /\ batches[b] \in Commands
      BY <2>1, ConstantsAssumption
    <2>3. i \in DOMAIN batches[b].errs
      BY DEF Item, BatchesTyped
    <2> QED BY <2>1, <2>2, <2>3
  <1>2. w \in Seq(Errors) /\ DOMAIN w = DOMAIN batches[b].errs
    <2>1. batches[b].errs \in Seq(Errors)
      BY <1>1, CommandChanges
    <2> QED BY <1>1, <2>1, ExceptFacts DEF Written
  <1> HIDE DEF w
  <1>3. SUFFICES /\ batches' \in Seq(Commands) /\ DOMAIN batches' = DOMAIN batches
                 /\ Len(batches') = Len(batches) /\ requests' \in [Clients -> Seq(DOMAIN batches)]
                 /\ \A a \in DOMAIN batches : SameCommand(batches'[a], batches[a])
    BY DEF BatchesTyped, RequestsTyped, Grows, Items, SameCommand
  <1>4. CASE Store(b, i, err)
    <2> DEFINE r == [batches[b] EXCEPT !.errs = w]
    <2>1. batches' = [batches EXCEPT ![b] = r] /\ UNCHANGED requests
      BY <1>1, <1>4 DEF Store, w
    <2>2. SameCommand(r, batches[b])
      BY <1>1, <1>2, CommandChanges
    <2> HIDE DEF r
    <2>3. /\ batches' \in Seq(Commands) /\ DOMAIN batches' = DOMAIN batches
          /\ Len(batches') = Len(batches)
          /\ \A a \in DOMAIN batches : SameCommand(batches'[a], batches[a])
      BY <1>1, <2>1, <2>2, CommandChanged
    <2> QED BY <2>1, <2>3 DEF RequestsTyped
  <1>5. CASE Answer(b, w)
    <2> DEFINE c == batches[b].client
               r == [batches[b] EXCEPT !.errs = w, !.freed = TRUE]
               d == [batches EXCEPT ![b] = r]
               s == [d[b] EXCEPT !.told = @ + 1]
               e == [d EXCEPT ![b] = s]
               h == Head(requests[c])
               t == [e[h] EXCEPT !.heard = b]
    <2>1. \/ batches' = d /\ UNCHANGED requests
          \/ requests[c] = << >> /\ batches' = e /\ UNCHANGED requests
          \/ /\ requests[c] # << >> /\ requests' = [requests EXCEPT ![c] = Tail(@)]
             /\ batches' = [e EXCEPT ![h] = t]
      <3>1. d = [batches EXCEPT ![b].errs = w, ![b].freed = TRUE]
        BY <1>1
      <3>2. e = [d EXCEPT ![b].told = @ + 1]
        BY <1>1
      <3> HIDE DEF d
      <3>3. [e EXCEPT ![h] = t] = [d EXCEPT ![b].told = @ + 1, ![h].heard = b]
        BY <1>1
      <3> QED BY <1>5, <3>1, <3>2, <3>3 DEF Answer
    <2>2. c \in Clients /\ SameCommand(r, batches[b])
      BY <1>1, <1>2, CommandChanges
    <2>3. /\ d \in Seq(Commands) /\ DOMAIN d = DOMAIN batches /\ Len(d) = Len(batches)
          /\ \A a \in DOMAIN batches : SameCommand(d[a], batches[a])
      BY <1>1, <2>2, CommandChanged
    <2> HIDE DEF c, r, d
    <2>4. d[b] \in Commands
      BY <1>1, <2>3
    <2>5. SameCommand(s, d[b])
      BY <2>4, CommandChanges
    <2> HIDE DEF s
    <2>6. /\ e \in Seq(Commands) /\ DOMAIN e = DOMAIN batches /\ Len(e) = Len(batches)
          /\ \A a \in DOMAIN batches : SameCommand(e[a], d[a])
      BY <1>1, <2>3, <2>5, CommandChanged
    <2> HIDE DEF e
    <2>7. ASSUME requests[c] # << >>
          PROVE  h \in DOMAIN e /\ [requests EXCEPT ![c] = Tail(@)] \in [Clients -> Seq(DOMAIN batches)]
      BY <2>2, <2>6, <2>7, TailFacts DEF RequestsTyped
    <2> DEFINE f == [e EXCEPT ![h] = t]
    <2>8. ASSUME requests[c] # << >>
          PROVE  /\ f \in Seq(Commands) /\ DOMAIN f = DOMAIN batches /\ Len(f) = Len(batches)
                 /\ \A a \in DOMAIN batches : SameCommand(f[a], e[a])
      <3>1. h \in DOMAIN e /\ e[h] \in Commands
        BY <2>6, <2>7, <2>8
      <3>2. SameCommand(t, e[h])
        BY <1>1, <3>1, CommandChanges
      <3> HIDE DEF t, h
      <3> QED BY <2>6, <3>1, <3>2, CommandChanged
    <2>9. /\ \A a \in DOMAIN batches : SameCommand(e[a], batches[a])
          /\ requests[c] # << >> => \A a \in DOMAIN batches : SameCommand(f[a], batches[a])
      BY <2>3, <2>6, <2>8, SameTransitive
    <2>10. batches' = d \/ batches' = e \/ (batches' = f /\ requests[c] # << >>)
      BY <2>1
    <2>11. requests' \in [Clients -> Seq(DOMAIN batches)]
      BY <2>1, <2>7 DEF RequestsTyped
    <2> HIDE DEF f
    <2> QED BY <2>3, <2>6, <2>8, <2>9, <2>10, <2>11
  <1> QED BY <1>4, <1>5 DEF AnswerIfLast, w

LEMMA BlankTyped ==
  /\ Blank \in Messages /\ Blank.k = "ignore" /\ NoFence \in Described
  /\ 0 \in 0 .. MaxCommands /\ 0 \in 0 .. MaxBatch
  <1>1. NoFence \in Described
    BY DEF NoFence, NoMask, Described
  <1>2. 0 \in 0 .. MaxCommands /\ 0 \in 0 .. MaxBatch
    BY ConstantsAssumption
  <1> QED BY <1>1, <1>2 DEF Blank, Messages, Kinds

LEMMA OfTyped ==
  ASSUME NEW k \in Kinds, NEW b \in 1 .. MaxCommands, NEW i \in 0 .. MaxBatch
  PROVE  /\ Of(k, b, i) \in Messages /\ Of(k, b, i).k = k /\ Of(k, b, i).batch = b
         /\ Of(k, b, i).item = i /\ Of(k, b, i).hw = 0 /\ Of(k, b, i).ok
  <1>1. 1 .. MaxCommands \subseteq 0 .. MaxCommands
    BY ConstantsAssumption
  <1> QED BY <1>1, BlankTyped DEF Of, Blank, Messages

LEMMA RemoveClientTyped ==
  ASSUME NEW c \in Clients
  PROVE  LET m == [Blank EXCEPT !.k = "removeClient", !.client = c]
         IN  m \in Messages /\ m.k = "removeClient" /\ m.client = c
  BY BlankTyped DEF Blank, Messages, Kinds

\* The fences that a client knows, in the order it names them.
LEMMA TranslatedFacts ==
  ASSUME NEW ids \in Seq(Ids)
  PROVE  /\ Translated(ids) \in Seq(Ids) /\ Len(Translated(ids)) <= Len(ids)
         /\ \A n \in DOMAIN Translated(ids) :
              \E i \in DOMAIN ids : Translated(ids)[n] = ids[i] /\ Known(ids[i])
         /\ (\A i, j \in DOMAIN ids : i < j => ids[i] < ids[j]) =>
              \A m, n \in DOMAIN Translated(ids) : m < n => Translated(ids)[m] < Translated(ids)[n]
  <1> DEFINE S == {i \in DOMAIN ids : Known(ids[i])}
             kept == Ascending(S)
             l == Len(ids)
  <1>1. DOMAIN ids = 1 .. l /\ l \in Nat /\ S \subseteq DOMAIN ids /\ S \subseteq 1 .. l
    OBVIOUS
  <1> HIDE DEF S, l
  <1>2. IsFiniteSet(1 .. l) /\ Cardinality(1 .. l) = l
    BY <1>1, FS_Interval
  <1>3. IsFiniteSet(S) /\ Cardinality(S) <= l /\ S \subseteq Int
    <2>1. S \subseteq Int
      BY <1>1
    <2> QED BY <1>1, <1>2, <2>1, FS_Subset
  <1>4. /\ kept \in Seq(S) /\ Len(kept) = Cardinality(S)
        /\ \A m, n \in DOMAIN kept : m < n => kept[m] < kept[n]
    BY <1>3, AscendingFacts
  <1>5. Translated(ids) = [n \in DOMAIN kept |-> ids[kept[n]]]
    BY DEF Translated, S
  <1> HIDE DEF kept
  <1>6. /\ \A n \in DOMAIN kept : kept[n] \in S /\ kept[n] \in DOMAIN ids
        /\ DOMAIN kept = 1 .. Len(kept) /\ Len(kept) \in Nat
    BY <1>1, <1>4
  <1>7. \A n \in DOMAIN kept : ids[kept[n]] \in Ids /\ Known(ids[kept[n]])
    BY <1>6 DEF S
  <1>8. Translated(ids) \in Seq(Ids) /\ Len(Translated(ids)) = Len(kept)
    BY <1>5, <1>6, <1>7
  <1> QED BY <1>3, <1>4, <1>5, <1>6, <1>7, <1>8 DEF l

LEMMA IssueTyped ==
  ASSUME Typed, NEW k \in Cmds, NEW c \in Clients, NEW ids \in Seq(Ids), Len(ids) \in 1 .. MaxBatch,
         NEW masks \in Seq(Masks \cup {NoMask}), DOMAIN ids \subseteq DOMAIN masks,
         k \in {"add", "modify"} => \A i \in DOMAIN ids : masks[i] \in Masks,
         Issue(k, c, ids, masks)
  PROVE  BatchesTyped' /\ MsgTyped' /\ ApiTyped' /\ RequestsTyped' /\ Grows
  <1> DEFINE b == Len(batches) + 1
             d == Batch(k, c, ids, masks)
             m == Of("command", b, 0)
  <1>1. /\ batches \in Seq(Commands) /\ Len(batches) \in Nat /\ b \in 1 .. MaxCommands
        /\ batches' = Append(batches, d) /\ msgQ' = Append(msgQ, m) /\ UNCHANGED apiQ
        /\ requests' = [requests EXCEPT ![c] = Append(@, b)]
    BY ConstantsAssumption DEF Issue, Post, Typed, BatchesTyped
  <1>2. [i \in DOMAIN ids |-> "unset"] \in Seq(Errors)
    BY DEF Errors
  <1>3. /\ d \in Commands /\ d.cmd = k /\ d.client = c /\ d.ids = ids /\ d.masks = masks
        /\ DOMAIN d.errs = DOMAIN ids
    BY <1>2, ConstantsAssumption DEF Batch, Commands
  <1> HIDE DEF d
  <1>4. /\ batches' \in Seq(Commands) /\ DOMAIN batches' = DOMAIN batches \cup {b} /\ b \notin DOMAIN batches
        /\ batches'[b] = d /\ \A a \in DOMAIN batches : batches'[a] = batches[a]
        /\ Len(batches') = b
    BY <1>1, <1>3, AppendFacts
  <1>5. BatchesTyped'
    BY <1>1, <1>3, <1>4 DEF BatchesTyped, Typed, Items
  <1>6. Grows
    BY <1>4 DEF Grows
  <1>7. RequestsTyped'
    <2>1. Seq(DOMAIN batches) \subseteq Seq(DOMAIN batches')
      BY <1>4, SeqMonotonic
    <2>2. requests \in [Clients -> Seq(DOMAIN batches')] /\ b \in DOMAIN batches'
      BY <1>4, <2>1 DEF RequestsTyped, Typed
    <2> HIDE DEF b
    <2>3. Append(requests[c], b) \in Seq(DOMAIN batches')
      BY <2>2
    <2> QED BY <1>1, <2>2, <2>3 DEF RequestsTyped
  <1>8. Proper(batches', m)
    <2>1. m \in Messages /\ m.k = "command" /\ m.batch = b
      <3>1. 0 \in 0 .. MaxBatch
        BY ConstantsAssumption
      <3>2. "command" \in Kinds
        BY DEF Kinds
      <3> QED BY <1>1, <3>1, <3>2, OfTyped
    <2> HIDE DEF m
    <2> QED BY <1>4, <2>1 DEF Proper
  <1> QED BY <1>1, <1>5, <1>6, <1>7, <1>8, MsgKept, ApiKept DEF Typed

LEMMA NewMaskTyped ==
  ASSUME dict \in [Ids -> Masks \cup {NoMask}], NEW ids, NEW masks, DOMAIN ids \subseteq DOMAIN masks,
         \A i \in DOMAIN masks : masks[i] \in Masks \cup {NoMask}
  PROVE  [id \in Ids |-> NewMask(ids, masks, id)] \in [Ids -> Masks \cup {NoMask}]
  <1> SUFFICES ASSUME NEW id \in Ids
               PROVE  NewMask(ids, masks, id) \in Masks \cup {NoMask}
    OBVIOUS
  <1>1. CASE \E i \in DOMAIN ids : ids[i] = id /\ Known(id)
    <2> DEFINE i == CHOOSE i \in DOMAIN ids : ids[i] = id
    <2>1. i \in DOMAIN ids
      BY <1>1
    <2>2. NewMask(ids, masks, id) = masks[i]
      BY <1>1 DEF NewMask
    <2> HIDE DEF i
    <2> QED BY <2>1, <2>2
  <1>2. CASE ~ \E i \in DOMAIN ids : ids[i] = id /\ Known(id)
    BY <1>2 DEF NewMask
  <1> QED BY <1>1, <1>2

\* A command a client has sent: on fences of its own it knows, or on new ones.
Issued(k, c, ids, masks) ==
  /\ Issue(k, c, ids, masks)
  /\ k \in Cmds
  /\ ids \in Seq(Ids) /\ Len(ids) \in 1 .. MaxBatch
  /\ masks \in Seq(Masks \cup {NoMask}) /\ DOMAIN ids \subseteq DOMAIN masks
  /\ k \in {"add", "modify"} => \A i \in DOMAIN ids : masks[i] \in Masks
  /\ \A i, j \in DOMAIN ids : i < j => ids[i] < ids[j]
  /\ \A i \in DOMAIN ids : /\ owner'[ids[i]] = c /\ ids[i] < nextId'
                           /\ k = "add" => ids[i] >= nextId
                           /\ k # "add" => ids[i] < nextId /\ Known(ids[i])
                           /\ k = "remove" => dict'[ids[i]] = NoMask
  /\ nextId <= nextId'
  /\ \A id \in Ids : id < nextId => owner'[id] = owner[id] /\ (~ Known(id) => dict'[id] = NoMask)

LEMMA AddIssued ==
  ASSUME Typed, NEW c \in Clients, NEW n \in Sizes, NEW masks \in Choices(n, AddMasks), AddGeofences(c, masks)
  PROVE  ClientsTyped' /\ \E k, ids, m : Issued(k, c, ids, m)
  <1> DEFINE ids == [i \in DOMAIN masks |-> nextId + i - 1]
             new == {ids[i] : i \in DOMAIN ids}
  <1>1. /\ n \in Nat /\ n >= 1 /\ n <= MaxBatch /\ DOMAIN masks = 1 .. n /\ Len(masks) = n
        /\ masks \in Seq(Masks \cup {NoMask}) /\ \A i \in 1 .. n : masks[i] \in Masks
    BY ConstantsAssumption DEF Sizes, Choices, Masks
  <1>2. /\ nextId \in Nat /\ nextId >= 1 /\ nextId + n - 1 \in Ids /\ nextId + n - 1 <= MaxFences
        /\ MaxFences \in Nat
    BY <1>1, ConstantsAssumption DEF AddGeofences, Ids, Typed, ClientsTyped
  <1>3. \A i \in 1 .. n : nextId + i - 1 \in Ids
    BY <1>1, <1>2 DEF Ids
  <1>4. ids \in Seq(Ids) /\ Len(ids) = n /\ DOMAIN ids = 1 .. n
    BY <1>1, <1>3
  <1>5. /\ owner' = [id \in Ids |-> IF id \in new THEN c ELSE owner[id]]
        /\ dict' = [id \in Ids |-> IF id \in new THEN masks[id - nextId + 1] ELSE dict[id]]
        /\ nextId' = nextId + n /\ UNCHANGED live /\ Issue("add", c, ids, masks)
    BY <1>1 DEF AddGeofences, Issue
  <1>6. /\ \A id \in new : id - nextId + 1 \in 1 .. n /\ id >= nextId /\ id < nextId + n
        /\ \A i \in 1 .. n : ids[i] \in new
        /\ \A i, j \in 1 .. n : i < j => ids[i] < ids[j]
    BY <1>1, <1>2, <1>4
  <1> HIDE DEF ids, new
  <1>7. owner' \in [Ids -> Clients \cup {NoClient}] /\ dict' \in [Ids -> Masks \cup {NoMask}]
    BY <1>1, <1>5, <1>6 DEF Typed, ClientsTyped
  <1>8. nextId' \in 1 .. MaxFences + 1 /\ nextId <= nextId'
    BY <1>1, <1>2, <1>5
  <1>9. \A id \in Ids : dict'[id] # NoMask \/ owner'[id] # NoClient => id < nextId'
    <2>1. \A id \in Ids : id < nextId => id < nextId + n
      BY <1>1, <1>2 DEF Ids
    <2> QED BY <1>5, <1>6, <2>1 DEF Typed, ClientsTyped
  <1>10. ClientsTyped'
    BY <1>5, <1>7, <1>8, <1>9 DEF Typed, ClientsTyped
  <1>11. \A id \in Ids : id < nextId => id \notin new
    BY <1>2, <1>6 DEF Ids
  <1>12. Issued("add", c, ids, masks)
    BY <1>1, <1>4, <1>5, <1>6, <1>8, <1>11 DEF Issued, Cmds, Known
  <1> QED BY <1>10, <1>12

LEMMA NewMaskUnknown ==
  ASSUME NEW ids, NEW news, NEW id, ~ Known(id)
  PROVE  NewMask(ids, news, id) = NoMask
  BY DEF NewMask, Known

LEMMA ChangeIssued ==
  ASSUME Typed, NEW c \in Clients, NEW ids \in Named(c), NEW k \in Cmds \ {"add"}, NEW masks, NEW news,
         Change(k, c, ids, masks),
         masks \in [1 .. Len(ids) -> Masks] \/ (k # "modify" /\ masks = Nothing(ids)),
         news \in [1 .. Len(ids) -> Masks] \/ news = Nothing(ids),
         k = "remove" => news = Nothing(ids),
         dict' = [id \in Ids |-> NewMask(ids, news, id)] \/ (k # "remove" /\ UNCHANGED dict)
  PROVE  ClientsTyped' /\ \E j, sent, m : Issued(j, c, sent, m)
  <1> DEFINE sent == Translated(ids)
  <1>1. /\ ids \in Seq(Ids) /\ Len(ids) \in Nat /\ DOMAIN ids = 1 .. Len(ids) /\ Len(ids) <= MaxBatch
        /\ \A i \in DOMAIN ids : owner[ids[i]] = c
        /\ \A i, j \in DOMAIN ids : i < j => ids[i] < ids[j]
    BY ConstantsAssumption DEF Named, Sizes
  <1>2. /\ sent \in Seq(Ids) /\ Len(sent) <= Len(ids) /\ Len(sent) \in Nat
        /\ DOMAIN sent = 1 .. Len(sent)
        /\ \A m \in DOMAIN sent : \E i \in DOMAIN ids : sent[m] = ids[i] /\ Known(ids[i])
        /\ \A m, n \in DOMAIN sent : m < n => sent[m] < sent[n]
    <2>1. /\ sent \in Seq(Ids) /\ Len(sent) <= Len(ids)
          /\ \A m \in DOMAIN sent : \E i \in DOMAIN ids : sent[m] = ids[i] /\ Known(ids[i])
      BY <1>1, TranslatedFacts
    <2>2. \A m, n \in DOMAIN sent : m < n => sent[m] < sent[n]
      BY <1>1, TranslatedFacts
    <2> HIDE DEF sent
    <2> QED BY <2>1, <2>2
  <1>3. sent # << >> /\ Issue(k, c, sent, masks) /\ UNCHANGED <<owner, nextId>>
    BY DEF Change
  <1>4. DOMAIN Nothing(ids) = 1 .. Len(ids) /\ \A i \in 1 .. Len(ids) : Nothing(ids)[i] = NoMask
    BY <1>1 DEF Nothing
  <1>5. masks \in Seq(Masks \cup {NoMask}) /\ DOMAIN masks = 1 .. Len(ids)
    <2>1. CASE masks \in [1 .. Len(ids) -> Masks]
      BY <1>1, <2>1
    <2>2. CASE masks = Nothing(ids)
      BY <1>1, <2>2 DEF Nothing
    <2> QED BY <2>1, <2>2
  <1>6. k = "modify" => \A i \in 1 .. Len(ids) : masks[i] \in Masks
    OBVIOUS
  <1> HIDE DEF sent
  <1>7. Len(sent) \in 1 .. MaxBatch /\ DOMAIN sent \subseteq DOMAIN masks
    <2>1. Len(sent) # 0
      BY <1>2, <1>3
    <2> QED BY <1>1, <1>2, <1>5, <2>1, ConstantsAssumption
  <1>8. dict' \in [Ids -> Masks \cup {NoMask}]
    <2>1. DOMAIN ids \subseteq DOMAIN news /\ \A i \in DOMAIN news : news[i] \in Masks \cup {NoMask}
      BY <1>1, <1>4
    <2>2. [id \in Ids |-> NewMask(ids, news, id)] \in [Ids -> Masks \cup {NoMask}]
      BY <2>1, NewMaskTyped DEF Typed, ClientsTyped
    <2> QED BY <2>2 DEF Typed, ClientsTyped
  <1>9. \A id \in Ids : ~ Known(id) => dict'[id] = NoMask
    BY NewMaskUnknown DEF Known
  <1>10. ClientsTyped'
    BY <1>3, <1>8, <1>9 DEF Typed, ClientsTyped, Issue, Known
  <1>11. \A m \in DOMAIN sent : /\ sent[m] \in Ids /\ owner[sent[m]] = c /\ Known(sent[m]) /\ sent[m] < nextId
                                /\ \E i \in DOMAIN ids : sent[m] = ids[i]
    BY <1>1, <1>2 DEF Typed, ClientsTyped, Known
  <1>12. k = "remove" => \A m \in DOMAIN sent : dict'[sent[m]] = NoMask
    <2> SUFFICES ASSUME k = "remove", NEW m \in DOMAIN sent
                 PROVE  NewMask(ids, Nothing(ids), sent[m]) = NoMask
      BY <1>11
    <2> DEFINE i == CHOOSE i \in DOMAIN ids : ids[i] = sent[m]
    <2>1. i \in DOMAIN ids /\ Nothing(ids)[i] = NoMask
      BY <1>1, <1>4, <1>11
    <2> QED BY <1>11, <2>1 DEF NewMask
  <1>13. nextId <= nextId'
    BY <1>3 DEF Typed, ClientsTyped
  <1>14. Issued(k, c, sent, masks)
    BY <1>2, <1>3, <1>5, <1>6, <1>7, <1>9, <1>11, <1>12, <1>13 DEF Issued, Known
  <1> QED BY <1>10, <1>14

LEMMA ClientActs ==
  ASSUME Typed, ClientStep
  PROVE  /\ ClientsTyped'
         /\ \E c \in Clients : Destroy(c) \/ \E k, ids, masks : Issued(k, c, ids, masks)
  <1>1. PICK c \in Clients :
          \/ \E n \in Sizes : \E masks \in Choices(n, AddMasks) : AddGeofences(c, masks)
          \/ \E ids \in Named(c) :
               \/ RemoveGeofences(c, ids)
               \/ PauseGeofences(c, ids)
               \/ \E masks \in Choices(Len(ids), AddMasks) : ResumeGeofences(c, ids, masks)
               \/ \E masks \in Choices(Len(ids), ModifyMasks) : ModifyGeofences(c, ids, masks)
          \/ Destroy(c)
    BY DEF ClientStep
  <1>2. AddMasks \subseteq Masks /\ ModifyMasks \subseteq Masks
    BY DEF Masks
  <1>3. ASSUME NEW ids \in Named(c),
               \/ RemoveGeofences(c, ids)
               \/ PauseGeofences(c, ids)
               \/ \E masks \in Choices(Len(ids), AddMasks) : ResumeGeofences(c, ids, masks)
               \/ \E masks \in Choices(Len(ids), ModifyMasks) : ModifyGeofences(c, ids, masks)
        PROVE  ClientsTyped' /\ \E k, sent, masks : Issued(k, c, sent, masks)
    <2>1. CASE RemoveGeofences(c, ids)
      <3>1. /\ "remove" \in Cmds \ {"add"} /\ Change("remove", c, ids, Nothing(ids))
            /\ dict' = [id \in Ids |-> NewMask(ids, Nothing(ids), id)]
        BY <2>1 DEF RemoveGeofences, Cmds
      <3> QED BY <3>1, ChangeIssued
    <2>2. CASE PauseGeofences(c, ids)
      <3>1. /\ "pause" \in Cmds \ {"add"} /\ Change("pause", c, ids, Nothing(ids)) /\ UNCHANGED dict
        BY <2>2 DEF PauseGeofences, Cmds
      <3> QED BY <3>1, ChangeIssued
    <2>3. ASSUME NEW masks \in Choices(Len(ids), AddMasks), ResumeGeofences(c, ids, masks)
          PROVE  ClientsTyped' /\ \E k, sent, m : Issued(k, c, sent, m)
      <3>1. /\ "resume" \in Cmds \ {"add"} /\ Change("resume", c, ids, Nothing(ids))
            /\ dict' = [id \in Ids |-> NewMask(ids, masks, id)] /\ masks \in [1 .. Len(ids) -> Masks]
        BY <1>2, <2>3 DEF ResumeGeofences, Cmds, Choices
      <3> QED BY <3>1, ChangeIssued
    <2>4. ASSUME NEW masks \in Choices(Len(ids), ModifyMasks), ModifyGeofences(c, ids, masks)
          PROVE  ClientsTyped' /\ \E k, sent, m : Issued(k, c, sent, m)
      <3>1. /\ "modify" \in Cmds \ {"add"} /\ Change("modify", c, ids, masks)
            /\ dict' = [id \in Ids |-> NewMask(ids, masks, id)] /\ masks \in [1 .. Len(ids) -> Masks]
        BY <1>2, <2>4 DEF ModifyGeofences, Cmds, Choices
      <3> QED BY <3>1, ChangeIssued
    <2> QED BY <1>3, <2>1, <2>2, <2>3, <2>4
  <1>4. CASE Destroy(c)
    <2>1. ClientsTyped'
      BY <1>4 DEF Destroy, Typed, ClientsTyped
    <2> QED BY <1>4, <2>1
  <1> QED BY <1>1, <1>3, <1>4, AddIssued

LEMMA ClientsTypedStep ==
  ASSUME Typed, ClientStep
  PROVE  Typed' /\ Grows
  <1>1. ClientsTyped'
    BY ClientActs
  <1>2. ASSUME NEW c \in Clients, NEW k, NEW ids, NEW masks, Issued(k, c, ids, masks)
        PROVE  Typed' /\ Grows
    <2>1. BatchesTyped' /\ MsgTyped' /\ ApiTyped' /\ RequestsTyped' /\ Grows
      BY <1>2, IssueTyped DEF Issued
    <2>2. UNCHANGED <<live, clientData, mapVars, modemVars, happened, delivered>>
      BY <1>2 DEF Issued, Issue
    <2> QED BY <1>1, <2>1, <2>2 DEF Typed, MapsTyped, ModemTyped, RestTyped, mapVars, modemVars
  <1>3. ASSUME NEW c \in Clients, Destroy(c)
        PROVE  Typed' /\ Grows
    <2> USE DEF Typed
    <2> DEFINE m == [Blank EXCEPT !.k = "removeClient", !.client = c]
    <2>1. /\ requests' = [requests EXCEPT ![c] = << >>] /\ msgQ' = Append(msgQ, m)
          /\ UNCHANGED <<clientData, mapVars, batches, apiQ, modemVars, delivered>>
      BY <1>3 DEF Destroy, Post
    <2>2. happened' \in SUBSET Events
      BY <1>3 DEF Destroy, Happens, RestTyped, Events
    <2>3. Proper(batches', m)
      <3>1. m \in Messages /\ m.k = "removeClient" /\ m.client = c
        BY RemoveClientTyped
      <3> HIDE DEF m
      <3> QED BY <3>1 DEF Proper
    <2>4. MsgTyped' /\ ApiTyped' /\ Grows
      BY <2>1, <2>3, SameGrows, MsgKept, ApiKept
    <2>5. requests' \in [Clients -> Seq(DOMAIN batches)]
      BY <2>1 DEF RequestsTyped
    <2> QED BY <1>1, <2>1, <2>2, <2>4, <2>5 DEF BatchesTyped, Items, RequestsTyped, MapsTyped,
            ModemTyped, RestTyped, mapVars, modemVars
  <1> QED BY <1>2, <1>3, ClientActs

\* What the handlers do to the maps.
LEMMA MapChanges ==
  ASSUME MapsTyped, NEW hw \in HwIds
  PROVE  /\ \A id \in Ids, mask \in Masks : SaveItem(id, hw, mask) => MapsTyped'
         /\ RemoveItem(hw) => MapsTyped'
         /\ \A paused \in BOOLEAN : SetPaused(hw, paused) => MapsTyped'
         /\ \A mask \in Masks : SetMask(hw, mask) => MapsTyped'
         /\ UNCHANGED mapVars => MapsTyped'
  <1>1. ASSUME NEW id \in Ids, NEW mask \in Masks, SaveItem(id, hw, mask)
        PROVE  MapsTyped'
    BY <1>1 DEF MapsTyped, SaveItem, Watching, Fence
  <1>2. ASSUME RemoveItem(hw)
        PROVE  MapsTyped'
    BY <1>2 DEF MapsTyped, RemoveItem, mapVars
  <1>3. ASSUME NEW paused \in BOOLEAN, SetPaused(hw, paused)
        PROVE  MapsTyped'
    BY <1>3 DEF MapsTyped, SetPaused, Fence
  <1>4. ASSUME NEW mask \in Masks, SetMask(hw, mask)
        PROVE  MapsTyped'
    BY <1>4 DEF MapsTyped, SetMask, Fence
  <1>5. UNCHANGED mapVars => MapsTyped'
    BY DEF MapsTyped, mapVars
  <1> QED BY <1>1, <1>2, <1>3, <1>4, <1>5

\* A call for the item of a command.
LEMMA ItemFacts ==
  ASSUME BatchesTyped, NEW b, NEW i, Item(batches, b, i)
  PROVE  /\ b \in 1 .. MaxCommands /\ i \in 1 .. MaxBatch /\ i \in 1 .. Len(batches[b].ids)
         /\ batches[b].ids[i] \in Ids /\ batches[b].cmd \in Cmds /\ batches[b].client \in Clients
         /\ batches[b].masks[i] \in Masks \cup {NoMask}
         /\ batches[b].cmd \in {"add", "modify"} => batches[b].masks[i] \in Masks
         /\ Watching(batches[b].ids[i], batches[b].masks[i]) \in Described
         /\ batches[b].cmd \in {"add", "modify"}
              => Watching(batches[b].ids[i], batches[b].masks[i]) \in Fence
  <1> DEFINE r == batches[b]
  <1>1. /\ b \in DOMAIN batches /\ batches \in Seq(Commands) /\ r \in Commands /\ Len(batches) <= MaxCommands
        /\ i \in DOMAIN r.ids /\ Len(r.ids) <= MaxBatch /\ DOMAIN r.ids \subseteq DOMAIN r.masks
        /\ r.cmd \in {"add", "modify"} => r.masks[i] \in Masks
    BY DEF Item, BatchesTyped, Items
  <1>2. b \in 1 .. MaxCommands
    BY <1>1, ConstantsAssumption
  <1> HIDE DEF r
  <1>3. /\ r.cmd \in Cmds /\ r.client \in Clients /\ r.ids \in Seq(Ids)
        /\ r.masks \in Seq(Masks \cup {NoMask})
    BY <1>1 DEF Commands
  <1>4. r.ids[i] \in Ids /\ r.masks[i] \in Masks \cup {NoMask} /\ i \in 1 .. Len(r.ids)
    BY <1>1, <1>3
  <1>5. i \in 1 .. MaxBatch
    BY <1>1, <1>3, ConstantsAssumption
  <1>6. \A id \in Ids, mask \in Masks \cup {NoMask} :
          Watching(id, mask) \in Described /\ (mask \in Masks => Watching(id, mask) \in Fence)
    BY ConstantsAssumption DEF Watching, Described, Fence, NoMask
  <1> QED BY <1>1, <1>2, <1>3, <1>4, <1>5, <1>6 DEF r

LEMMA AskTyped ==
  ASSUME Typed, Grows, NEW b, NEW i, Item(batches, b, i), NEW hw \in HwIds \cup {0},
         batches[b].cmd # "add" => hw \in HwIds,
         Request(<<Call(batches[b].cmd, hw, Watching(batches[b].ids[i], batches[b].masks[i]),
                        Of("done", b, i))>>)
  PROVE  ApiTyped'
  <1> DEFINE f == Watching(batches[b].ids[i], batches[b].masks[i])
             r == Of("done", b, i)
             c == Call(batches[b].cmd, hw, f, r)
  <1>1. /\ b \in 1 .. MaxCommands /\ i \in 1 .. MaxBatch /\ i \in 0 .. MaxBatch
        /\ batches[b].cmd \in Cmds /\ f \in Described
    BY ItemFacts, ConstantsAssumption DEF Typed
  <1>2. r \in Messages /\ r.k = "done" /\ r.batch = b /\ r.item = i
    <2>1. "done" \in Kinds
      BY DEF Kinds
    <2> QED BY <1>1, <2>1, OfTyped
  <1> HIDE DEF r, f
  <1>3. c \in Calls /\ c.op = batches[b].cmd /\ c.hw = hw /\ c.fence = f /\ c.reply = r
    BY <1>1, <1>2 DEF Calls, Call, Ops
  <1> HIDE DEF c
  <1>4. ForItem(batches, c)
    BY <1>2, <1>3 DEF ForItem, f
  <1>5. c.op \notin {"turn", "open"}
    BY <1>1, <1>3 DEF Cmds
  <1>6. ProperCall(batches, c)
    BY <1>3, <1>4, <1>5 DEF ProperCall
  <1>7. ProperCall(batches', c)
    BY <1>6, GrownCall
  <1>8. Request(<<c>>)
    BY DEF c, f, r
  <1>9. <<c>> \in Seq(Calls) /\ \A n \in DOMAIN <<c>> : ProperCall(batches', <<c>>[n])
    BY <1>3, <1>7
  <1> QED BY <1>8, <1>9, ApiRequested DEF Typed

LEMMA DisturbTyped ==
  ASSUME Typed, AdapterKeeps, UNCHANGED clientData
  PROVE  ClientsTyped' /\ ModemTyped' /\ clientData' \in SUBSET Clients /\ happened' \in SUBSET Events
  BY DEF Typed, AdapterKeeps, ClientsTyped, ModemTyped, RestTyped, modemVars

LEMMA TurnsTyped ==
  ASSUME Typed, AddTurn \/ FoundTurn \/ UnknownTurn
  PROVE  Typed' /\ Grows
  <1> DEFINE b == msg.batch
             i == msg.item
  <1>1. /\ msgQ # << >> /\ msg.k = "turn" /\ msgQ' = Tail(msgQ)
        /\ UNCHANGED <<clientData, mapVars, delivered>> /\ AdapterKeeps
    BY DEF AddTurn, FoundTurn, UnknownTurn, Turn, Receive
  <1>2. Proper(batches, msg) /\ Item(batches, b, i)
    <2>1. Proper(batches, msg)
      BY <1>1, MsgProper DEF Typed
    <2> QED BY <1>1, <2>1 DEF Proper
  <1>3. batches[b].ids[i] \in Ids
    BY <1>2, ItemFacts DEF Typed
  <1>4. Grows /\ BatchesTyped' /\ RequestsTyped' /\ ApiTyped'
    <2>1. CASE AddTurn
      <3>1. UNCHANGED <<requests, batches>> /\ batches[b].cmd = "add"
        BY <2>1 DEF AddTurn, Turn, cmd
      <3>2. Request(<<Call(batches[b].cmd, 0, Watching(batches[b].ids[i], batches[b].masks[i]),
                           Of("done", b, i))>>)
        BY <2>1 DEF AddTurn, Ask, cmd
      <3>3. Grows
        BY <3>1, SameGrows
      <3>4. ApiTyped'
        BY <1>2, <3>1, <3>2, <3>3, AskTyped
      <3> QED BY <3>1, <3>3, <3>4 DEF Typed, BatchesTyped, Items, RequestsTyped
    <2>2. CASE FoundTurn
      <3>1. /\ geofenceIds[batches[b].ids[i]] \in HwIds
            /\ Request(<<Call(batches[b].cmd, geofenceIds[batches[b].ids[i]],
                              Watching(batches[b].ids[i], batches[b].masks[i]), Of("done", b, i))>>)
        BY <1>3, <2>2 DEF FoundTurn, Ask, cmd, Typed, MapsTyped
      <3>2. Store(b, i, "ok")
        BY <2>2 DEF FoundTurn
      <3>3. Grows /\ BatchesTyped' /\ RequestsTyped'
        BY <1>2, <3>2, AnswerTyped DEF Typed, Errors
      <3> QED BY <1>2, <3>1, <3>3, AskTyped
    <2>3. CASE UnknownTurn
      <3>1. AnswerIfLast(b, i, "unknown") /\ UNCHANGED apiQ
        BY <2>3 DEF UnknownTurn
      <3>2. Grows /\ BatchesTyped' /\ RequestsTyped'
        BY <1>2, <3>1, AnswerTyped DEF Typed, Errors
      <3> QED BY <3>1, <3>2, ApiKept DEF Typed
    <2> QED BY <2>1, <2>2, <2>3
  <1>5. MsgTyped'
    BY <1>1, <1>4, MsgKept DEF Typed
  <1>6. MapsTyped' /\ delivered' \in SUBSET [client : Clients, told : Ids, meant : Ids]
    BY <1>1 DEF Typed, MapsTyped, RestTyped, mapVars
  <1> QED BY <1>1, <1>4, <1>5, <1>6, DisturbTyped DEF Typed, RestTyped

LEMMA DonesTyped ==
  ASSUME Typed, AddDone \/ RemoveDone \/ PauseDone \/ ResumeDone \/ ResumeRefused \/ ModifyDone
  PROVE  Typed' /\ Grows
  <1> DEFINE b == msg.batch
             i == msg.item
  <1>1. /\ msgQ # << >> /\ msg.k = "done" /\ msgQ' = Tail(msgQ)
        /\ UNCHANGED <<clientData, apiQ, delivered>> /\ AdapterKeeps
    BY DEF AddDone, RemoveDone, PauseDone, ResumeDone, ResumeRefused, ModifyDone, Done, Receive
  <1>2. Proper(batches, msg) /\ Item(batches, b, i)
    <2>1. Proper(batches, msg)
      BY <1>1, MsgProper DEF Typed
    <2> QED BY <1>1, <2>1 DEF Proper
  <1>3. /\ batches[b].ids[i] \in Ids
        /\ batches[b].cmd \in {"add", "modify"} => batches[b].masks[i] \in Masks
        /\ msg.ok \/ batches[b].cmd # "add" => msg.hw \in HwIds
    BY <1>1, <1>2, ItemFacts DEF Typed, Proper
  <1>4. Grows /\ BatchesTyped' /\ RequestsTyped'
    <2>1. CASE ResumeRefused
      BY <2>1, SameGrows DEF ResumeRefused, Typed, BatchesTyped, Items, RequestsTyped
    <2>2. CASE ~ ResumeRefused
      <3>1. Result \in Errors
        BY DEF Result, Errors
      <3>2. \E err \in Errors : AnswerIfLast(b, i, err)
        <4>1. AnswerIfLast(b, i, Result) \/ AnswerIfLast(b, i, "ok")
          BY <2>2 DEF AddDone, RemoveDone, PauseDone, ResumeDone, ModifyDone
        <4> QED BY <3>1, <4>1 DEF Errors
      <3> QED BY <1>2, <3>2, AnswerTyped DEF Typed
    <2> QED BY <2>1, <2>2
  <1>5. MapsTyped'
    <2>0. MapsTyped
      BY DEF Typed
    <2>1. UNCHANGED mapVars => MapsTyped'
      BY <2>0 DEF MapsTyped, mapVars
    <2>2. CASE AddDone
      <3>1. CASE msg.ok
        <4>1. /\ SaveItem(batches[b].ids[i], msg.hw, batches[b].masks[i])
              /\ batches[b].cmd = "add"
          BY <2>2, <3>1 DEF AddDone, Done, cmd
        <4> QED BY <1>3, <2>0, <3>1, <4>1, MapChanges
      <3> QED BY <2>1, <2>2, <3>1 DEF AddDone
    <2>3. CASE RemoveDone
      <3>1. (RemoveItem(msg.hw) \/ UNCHANGED mapVars) /\ batches[b].cmd = "remove"
        BY <2>3 DEF RemoveDone, Done, cmd
      <3> QED BY <1>3, <2>0, <2>1, <3>1, MapChanges
    <2>4. CASE PauseDone \/ ResumeDone
      <3>1. /\ SetPaused(msg.hw, TRUE) \/ SetPaused(msg.hw, FALSE) \/ UNCHANGED mapVars
            /\ batches[b].cmd \in {"pause", "resume"}
        BY <2>4 DEF PauseDone, ResumeDone, Done, cmd
      <3> QED BY <1>3, <2>0, <2>1, <3>1, MapChanges
    <2>5. CASE ResumeRefused
      BY <2>1, <2>5 DEF ResumeRefused
    <2>6. CASE ModifyDone
      <3>1. /\ UNCHANGED mapVars \/ \E mask \in Options(b, i) : SetMask(msg.hw, mask)
            /\ batches[b].cmd = "modify"
        BY <2>6 DEF ModifyDone, Done, cmd
      <3>2. Options(b, i) \subseteq Masks
        BY <1>3, <3>1 DEF Options
      <3> QED BY <1>3, <2>0, <2>1, <3>1, <3>2, MapChanges
    <2> QED BY <2>2, <2>3, <2>4, <2>5, <2>6
  <1>6. MsgTyped' /\ ApiTyped'
    BY <1>1, <1>4, MsgKept, ApiKept DEF Typed
  <1> QED BY <1>1, <1>4, <1>5, <1>6, DisturbTyped DEF Typed, RestTyped

\* A request for every fence in S, lowest first.
LEMMA ForEachTyped ==
  ASSUME Typed, Grows, NEW S, S \subseteq Int, IsFiniteSet(S), NEW f,
         \A i \in S : ProperCall(batches, f[i]),
         Request([n \in DOMAIN Ascending(S) |-> f[Ascending(S)[n]]])
  PROVE  ApiTyped'
  <1> DEFINE a == Ascending(S)
             s == [n \in DOMAIN a |-> f[a[n]]]
  <1>1. a \in Seq(S)
    BY AscendingFacts
  <1>5. Request(s)
    OBVIOUS
  <1> HIDE DEF a
  <1>2. DOMAIN a = 1 .. Len(a) /\ Len(a) \in Nat /\ \A n \in DOMAIN a : a[n] \in S
    BY <1>1
  <1>3. \A i \in S : f[i] \in Calls /\ ProperCall(batches', f[i])
    BY GrownCall DEF ProperCall
  <1>6. DOMAIN s = DOMAIN a /\ \A n \in DOMAIN a : s[n] = f[a[n]] /\ a[n] \in S
    BY <1>2
  <1>7. s \in Seq(Calls)
    <2>1. \A n \in 1 .. Len(a) : f[a[n]] \in Calls
      BY <1>2, <1>3
    <2> QED BY <1>2, <2>1
  <1> HIDE DEF s
  <1>4. s \in Seq(Calls) /\ \A n \in DOMAIN s : ProperCall(batches', s[n])
    BY <1>3, <1>6, <1>7
  <1> QED BY <1>4, <1>5, ApiRequested DEF Typed

LEMMA FiniteInts ==
  ASSUME NEW k \in Nat, NEW S, S \subseteq 1 .. k
  PROVE  S \subseteq Int /\ IsFiniteSet(S)
  <1>1. IsFiniteSet(1 .. k)
    BY FS_Interval
  <1>2. IsFiniteSet(S)
    BY <1>1, FS_Subset
  <1>3. \A x \in S : x \in Int
    OBVIOUS
  <1> QED BY <1>2, <1>3

LEMMA SweepCall ==
  ASSUME NEW h \in HwIds
  PROVE  ProperCall(batches, Call("remove", h, NoFence, [Blank EXCEPT !.k = "swept"]))
  <1> DEFINE r == [Blank EXCEPT !.k = "swept"]
             c == Call("remove", h, NoFence, r)
  <1>1. r \in Messages
    BY BlankTyped DEF Messages, Kinds, Blank
  <1> HIDE DEF r
  <1>2. c \in Calls /\ c.op = "remove" /\ c.hw = h /\ c.reply = r
    BY <1>1, BlankTyped DEF Calls, Call, Ops, Cmds
  <1> HIDE DEF c
  <1>3. ForSweep(c)
    BY <1>2 DEF ForSweep, r
  <1> QED BY <1>2, <1>3 DEF ProperCall, c, r

LEMMA RestartCall ==
  ASSUME NEW f \in Fence
  PROVE  ProperCall(batches, Call("add", 0, Watching(f.id, f.mask),
                                  [Blank EXCEPT !.k = "restored", !.fence = f]))
  <1> DEFINE r == [Blank EXCEPT !.k = "restored", !.fence = f]
             g == Watching(f.id, f.mask)
             c == Call("add", 0, g, r)
  <1>1. f \in Described /\ g \in Described /\ g \in Fence
    BY ConstantsAssumption DEF Described, Fence, Watching
  <1>2. r \in Messages /\ r.k = "restored" /\ r.fence = f
    BY <1>1, BlankTyped DEF Messages, Kinds, Blank
  <1> HIDE DEF r, g
  <1>3. c \in Calls /\ c.op = "add" /\ c.hw = 0 /\ c.reply = r /\ c.fence = g
    BY <1>1, <1>2 DEF Calls, Call, Ops, Cmds
  <1> HIDE DEF c
  <1>4. ForRestart(c)
    BY <1>2, <1>3 DEF ForRestart, g
  <1>5. ProperCall(batches, c)
    BY <1>3, <1>4 DEF ProperCall
  <1> QED BY <1>5 DEF c, r, g

LEMMA PauseCall ==
  ASSUME NEW h \in HwIds
  PROVE  ProperCall(batches, Call("pause", h, NoFence, Blank))
  <1> DEFINE c == Call("pause", h, NoFence, Blank)
  <1>1. c \in Calls /\ c.op = "pause" /\ c.hw = h /\ c.reply = Blank
    BY BlankTyped DEF Calls, Call, Ops, Cmds
  <1> HIDE DEF c
  <1>2. ProperCall(batches, c)
    BY <1>1 DEF ProperCall, ForPause
  <1> QED BY <1>2 DEF c

LEMMA TurnCall ==
  ASSUME BatchesTyped, NEW b, NEW i, Item(batches, b, i)
  PROVE  ProperCall(batches, Call("turn", 0, NoFence, Of("turn", b, i)))
  <1> DEFINE r == Of("turn", b, i)
             c == Call("turn", 0, NoFence, r)
  <1>1. b \in 1 .. MaxCommands /\ i \in 0 .. MaxBatch /\ "turn" \in Kinds
    BY ItemFacts, ConstantsAssumption DEF Kinds
  <1>2. r \in Messages /\ r.k = "turn" /\ r.batch = b /\ r.item = i
    BY <1>1, OfTyped
  <1> HIDE DEF r
  <1>3. c \in Calls /\ c.op = "turn" /\ c.reply = r
    BY <1>2, BlankTyped DEF Calls, Call, Ops
  <1> HIDE DEF c
  <1>4. ProperCall(batches, c)
    BY <1>2, <1>3 DEF ProperCall, Cmds
  <1> QED BY <1>4 DEF c, r

LEMMA OthersTyped ==
  ASSUME Typed, StartBatch \/ RemoveClient \/ Swept \/ RestartGeofences \/ Restored \/ BreachReported
  PROVE  Typed' /\ Grows
  <1>1. /\ msgQ # << >> /\ msgQ' = Tail(msgQ) /\ AdapterKeeps /\ UNCHANGED <<requests, batches>>
    BY DEF StartBatch, RemoveClient, Swept, RestartGeofences, Restored, BreachReported, Receive
  <1>2. Proper(batches, msg)
    BY <1>1, MsgProper DEF Typed
  <1>3. Grows /\ MsgTyped' /\ BatchesTyped' /\ RequestsTyped'
    <2>1. Grows
      BY <1>1, SameGrows
    <2> QED BY <1>1, <2>1, MsgKept DEF Typed, BatchesTyped, Items, RequestsTyped
  <1>4. SUFFICES /\ ApiTyped' /\ MapsTyped' /\ clientData' \in SUBSET Clients
                 /\ delivered' \in SUBSET [client : Clients, told : Ids, meant : Ids]
    BY <1>1, <1>3 DEF Typed, RestTyped, AdapterKeeps, ClientsTyped, ModemTyped, modemVars
  <1>5. /\ UNCHANGED mapVars => MapsTyped'
        /\ UNCHANGED apiQ => ApiTyped'
        /\ UNCHANGED clientData => clientData' \in SUBSET Clients
        /\ UNCHANGED delivered => delivered' \in SUBSET [client : Clients, told : Ids, meant : Ids]
    BY <1>3, ApiKept DEF Typed, MapsTyped, mapVars, RestTyped
  <1>6. CASE StartBatch
    <2> DEFINE b == msg.batch
               s == [i \in Items(b) |-> Call("turn", 0, NoFence, Of("turn", b, i))]
    <2>1. b \in DOMAIN batches /\ Request(s) /\ UNCHANGED <<clientData, mapVars, delivered>>
      BY <1>2, <1>6 DEF StartBatch, Receive, Proper
    <2>2. ASSUME NEW i \in Items(b)
          PROVE  /\ ProperCall(batches, Call("turn", 0, NoFence, Of("turn", b, i)))
                 /\ ProperCall(batches', Call("turn", 0, NoFence, Of("turn", b, i)))
      <3>1. Item(batches, b, i)
        BY <2>1, <2>2 DEF Item, Items
      <3>2. ProperCall(batches, Call("turn", 0, NoFence, Of("turn", b, i)))
        BY <3>1, TurnCall DEF Typed
      <3> QED BY <1>3, <3>2, GrownCall
    <2>3. Items(b) = 1 .. Len(batches[b].ids) /\ Len(batches[b].ids) \in Nat
      BY <2>1 DEF Typed, BatchesTyped, Commands, Items
    <2>4. s \in Seq(Calls) /\ \A n \in DOMAIN s : ProperCall(batches', s[n])
      BY <2>2, <2>3 DEF ProperCall
    <2> HIDE DEF s
    <2> QED BY <1>3, <1>5, <2>1, <2>4, ApiRequested DEF Typed
  <1>7. CASE RemoveClient
    <2> DEFINE gone == {id \in Ids : owner[id] = msg.client /\ geofenceIds[id] # 0}
               call(id) == Call("remove", geofenceIds[id], NoFence, [Blank EXCEPT !.k = "swept"])
    <2>1. /\ Request([n \in DOMAIN Ascending(gone) |-> call(Ascending(gone)[n])])
          /\ geofenceIds' = [id \in Ids |-> IF id \in gone THEN 0 ELSE geofenceIds[id]]
          /\ clientData' = clientData \ {msg.client} /\ UNCHANGED <<geofences, delivered>>
      BY <1>7 DEF RemoveClient
    <2>2. gone \subseteq Int /\ IsFiniteSet(gone)
      BY FiniteInts, ConstantsAssumption DEF Ids
    <2>3. \A id \in gone : ProperCall(batches, call(id))
      BY SweepCall DEF Typed, MapsTyped
    <2>4. MapsTyped' /\ clientData' \in SUBSET Clients
      BY <2>1 DEF Typed, MapsTyped, RestTyped
    <2> DEFINE a == Ascending(gone)
               f == [id \in gone |-> call(id)]
    <2>5. \A n \in DOMAIN a : a[n] \in gone
      BY <2>2, AscendingFacts
    <2> HIDE DEF gone, call
    <2>6. \A id \in gone : f[id] = call(id)
      OBVIOUS
    <2> HIDE DEF f
    <2>7. [n \in DOMAIN a |-> call(a[n])] = [n \in DOMAIN a |-> f[a[n]]]
      BY <2>5, <2>6
    <2>8. Request([n \in DOMAIN a |-> f[a[n]]]) /\ \A id \in gone : ProperCall(batches, f[id])
      BY <2>1, <2>3, <2>6, <2>7
    <2>9. ApiTyped'
      BY <1>3, <2>2, <2>8, ForEachTyped
    <2> QED BY <1>5, <2>1, <2>4, <2>9
  <1>8. CASE Swept
    <2>1. MapsTyped'
      BY <1>8 DEF Swept, Typed, MapsTyped
    <2> QED BY <1>5, <1>8, <2>1 DEF Swept
  <1>9. CASE RestartGeofences
    <2> DEFINE call(h) == Call("add", 0, Watching(geofences[h].id, geofences[h].mask),
                               [Blank EXCEPT !.k = "restored", !.fence = geofences[h]])
               S == Present(geofences)
    <2>1. /\ Request([n \in DOMAIN Ascending(S) |-> call(Ascending(S)[n])])
          /\ geofences' = [h \in HwIds |-> NoFence] /\ geofenceIds' = [id \in Ids |-> 0]
          /\ UNCHANGED <<clientData, delivered>>
      BY <1>9 DEF RestartGeofences, AddAgain
    <2>2. S \subseteq Int /\ IsFiniteSet(S)
      BY FiniteInts, ConstantsAssumption DEF Present, HwIds
    <2>3. \A h \in S : ProperCall(batches, call(h))
      BY RestartCall DEF Typed, MapsTyped, Present
    <2>4. MapsTyped'
      BY <2>1 DEF MapsTyped
    <2> DEFINE a == Ascending(S)
               f == [h \in S |-> call(h)]
    <2>5. \A n \in DOMAIN a : a[n] \in S
      BY <2>2, AscendingFacts
    <2> HIDE DEF S, call
    <2>6. \A h \in S : f[h] = call(h)
      OBVIOUS
    <2> HIDE DEF f
    <2>7. [n \in DOMAIN a |-> call(a[n])] = [n \in DOMAIN a |-> f[a[n]]]
      BY <2>5, <2>6
    <2>8. Request([n \in DOMAIN a |-> f[a[n]]]) /\ \A h \in S : ProperCall(batches, f[h])
      BY <2>1, <2>3, <2>6, <2>7
    <2>9. ApiTyped'
      BY <1>3, <2>2, <2>8, ForEachTyped
    <2> QED BY <1>5, <2>1, <2>4, <2>9
  <1>10. CASE Restored
    <2>1. msg.fence \in Fence /\ (msg.ok => msg.hw \in HwIds)
      BY <1>2, <1>10 DEF Restored, Receive, Proper
    <2>2. MapsTyped'
      <3>1. CASE msg.ok
        <4>1. SaveItem(msg.fence.id, msg.hw, msg.fence.mask)
          BY <1>10, <3>1 DEF Restored
        <4>2. msg.fence.id \in Ids /\ msg.fence.mask \in Masks
          BY <2>1 DEF Fence
        <4> QED BY <2>1, <3>1, <4>1, <4>2, MapChanges DEF Typed
      <3>2. CASE ~ msg.ok
        BY <1>5, <1>10, <3>2 DEF Restored
      <3> QED BY <3>1, <3>2
    <2>3. ApiTyped'
      <3>1. CASE msg.ok /\ msg.fence.paused
        <4> DEFINE c == Call("pause", msg.hw, NoFence, Blank)
        <4>1. Request(<<c>>)
          BY <1>10, <3>1 DEF Restored
        <4>2. ProperCall(batches, c)
          BY <2>1, <3>1, PauseCall
        <4>3. c \in Calls /\ ProperCall(batches', c)
          BY <1>3, <4>2, GrownCall DEF ProperCall
        <4> HIDE DEF c
        <4>4. <<c>> \in Seq(Calls) /\ \A n \in DOMAIN <<c>> : ProperCall(batches', <<c>>[n])
          BY <4>3
        <4> QED BY <1>3, <4>1, <4>4, ApiRequested DEF Typed
      <3>2. CASE ~ (msg.ok /\ msg.fence.paused)
        <4>1. apiQ' = apiQ \o << >>
          BY <1>10, <3>2 DEF Restored, Request
        <4>2. apiQ' = apiQ
          BY <4>1 DEF Typed, ApiTyped
        <4> QED BY <1>5, <4>2
      <3> QED BY <3>1, <3>2
    <2> QED BY <1>5, <1>10, <2>2, <2>3 DEF Restored
  <1>11. CASE BreachReported
    <2>1. msg.hw \in HwIds /\ msg.fence.id \in Ids
      BY <1>2, <1>11 DEF BreachReported, Receive, Proper
    <2>2. geofences[msg.hw] # NoFence => geofences[msg.hw].id \in Ids
      BY <2>1 DEF Typed, MapsTyped, Fence
    <2>3. delivered' \in SUBSET [client : Clients, told : Ids, meant : Ids]
      BY <1>11, <2>1, <2>2 DEF BreachReported, Deliver, Typed, RestTyped
    <2> QED BY <1>5, <1>11, <2>3 DEF BreachReported
  <1> QED BY <1>6, <1>7, <1>8, <1>9, <1>10, <1>11

LEMMA AdapterTyped ==
  ASSUME Typed, AdapterStep
  PROVE  Typed' /\ Grows
  BY TurnsTyped, DonesTyped, OthersTyped DEF AdapterStep


-----------------------------------------------------------------------------
(* The LocApi thread and the modem *)

\* The answer to a call is proper when a success comes with a hardware id.
LEMMA ReplyProper ==
  ASSUME Typed, NEW c, ProperCall(batches, c), c.op # "open", NEW hw \in HwIds \cup {0}, NEW ok \in BOOLEAN,
         c.op \in Cmds /\ (ok \/ c.op # "add") => hw \in HwIds, c.reply.k # "ignore"
  PROVE  Proper(batches, [c.reply EXCEPT !.hw = hw, !.ok = ok])
  <1> DEFINE r == c.reply
             m == [r EXCEPT !.hw = hw, !.ok = ok]
  <1> SUFFICES Proper(batches, m)
    OBVIOUS
  <1>1. r \in Messages /\ c.op \in Ops
    BY DEF ProperCall, Calls
  <1> HIDE DEF r
  <1>2. /\ m \in Messages /\ m.hw = hw /\ m.ok = ok /\ m.k = r.k /\ m.batch = r.batch
        /\ m.item = r.item /\ m.client = r.client /\ m.fence = r.fence
    BY <1>1 DEF Messages
  <1> HIDE DEF m
  <1> USE DEF r
  <1>3. CASE c.op = "turn"
    BY <1>2, <1>3 DEF ProperCall, Proper
  <1>4. CASE ForItem(batches, c)
    <2>1. c.op \in Cmds
      BY <1>4, ItemFacts DEF ForItem, Typed
    <2> QED BY <1>2, <1>4, <2>1 DEF Proper, ForItem
  <1>5. CASE ForSweep(c)
    <2>1. r.k = "swept" /\ c.op = "remove"
      BY <1>5 DEF ForSweep, Blank
    <2> QED BY <1>2, <2>1 DEF Proper, Cmds
  <1>6. CASE ForRestart(c)
    BY <1>2, <1>6 DEF Proper, Cmds, ForRestart
  <1>7. ~ ForPause(c)
    BY DEF ForPause, Blank
  <1>8. c.op = "turn" \/ c.op \in Cmds
    BY <1>1 DEF Ops
  <1> QED BY <1>3, <1>4, <1>5, <1>6, <1>7, <1>8 DEF ProperCall

LEMMA AddedFence ==
  ASSUME Typed, NEW c, ProperCall(batches, c), c.op = "add"
  PROVE  c.fence \in Fence
  <1>1. CASE ForItem(batches, c)
    BY <1>1, ItemFacts DEF Typed, ForItem
  <1>2. CASE ForRestart(c)
    BY <1>2 DEF ForRestart, Fence, Watching
  <1> QED BY <1>1, <1>2 DEF ProperCall, ForSweep, ForPause, Cmds

LEMMA ChangedFence ==
  ASSUME Typed, NEW c, ProperCall(batches, c), c.op \in Cmds \ {"add"}, NEW f \in Fence
  PROVE  Changed(f, c) \in Fence \cup {NoFence}
  <1>1. CASE c.op = "remove"
    BY <1>1 DEF Changed
  <1>2. CASE c.op = "pause"
    BY <1>2 DEF Changed, Fence
  <1>3. CASE c.op = "resume"
    BY <1>3 DEF Changed, Fence
  <1>4. CASE c.op = "modify"
    <2>1. ForItem(batches, c)
      BY <1>4 DEF ProperCall, Cmds, ForSweep, ForRestart, ForPause
    <2>2. c.fence \in Fence
      BY <1>4, <2>1, ItemFacts DEF Typed, ForItem
    <2> QED BY <1>4, <2>2 DEF Changed, Fence
  <1> QED BY <1>1, <1>2, <1>3, <1>4 DEF Cmds

LEMMA ModemAddsFacts ==
  ASSUME Typed, ModemAdds
  PROVE  /\ apiQ # << >> /\ ProperCall(batches, Head(apiQ)) /\ Head(apiQ).op = "add"
         /\ UNCHANGED happened \/ happened' = happened \cup {"reuse"}
         /\ \E hw \in HwIds : /\ NoReuse' => hw \notin usedHw /\ UNCHANGED happened
                              /\ modem' = [modem EXCEPT ![hw] = Head(apiQ).fence]
                              /\ usedHw' = usedHw \cup {hw}
                              /\ Reply(hw, TRUE)
  <1>1. apiQ # << >> /\ Head(apiQ).op = "add"
    BY DEF ModemAdds, Serving
  <1>2. PICK hw \in Lowest(HwIds \ usedHw) \cup (usedHw \ Present(modem)) :
          /\ IF hw \in usedHw THEN Reuses ELSE UNCHANGED happened
          /\ modem' = [modem EXCEPT ![hw] = Head(apiQ).fence]
          /\ usedHw' = usedHw \cup {hw}
          /\ Reply(hw, TRUE)
    BY DEF ModemAdds
  <1>3. hw \in HwIds
    BY <1>2 DEF Lowest, Typed, ModemTyped
  <1>4. /\ UNCHANGED happened \/ happened' = happened \cup {"reuse"}
        /\ NoReuse' => hw \notin usedHw /\ UNCHANGED happened
    BY <1>2 DEF Reuses, NoReuse
  <1> QED BY <1>1, <1>2, <1>3, <1>4, ApiKept, SameGrows DEF ModemAdds, Serving, ModemKeeps, Typed, ApiTyped

LEMMA LocApiTyped ==
  ASSUME Typed, LocApiStep
  PROVE  Typed'
  <1> DEFINE c == Head(apiQ)
  <1>1. apiQ # << >> /\ apiQ' = Tail(apiQ) /\ ModemKeeps
    BY DEF LocApiStep, GiveTurn, OpenLink, ModemAdds, ModemChanges, ModemFails, ModemRefuses, Serving
  <1>2. Grows /\ ApiTyped' /\ ProperCall(batches, c) /\ BatchesTyped' /\ RequestsTyped'
    <2>1. Grows
      BY <1>1, SameGrows DEF ModemKeeps
    <2> QED BY <1>1, <2>1, ApiKept DEF Typed, ModemKeeps, clientVars, BatchesTyped, Items, RequestsTyped
  <1>3. SUFFICES MsgTyped' /\ ModemTyped' /\ happened' \in SUBSET Events
    BY <1>1, <1>2 DEF Typed, ModemKeeps, clientVars, mapVars, ClientsTyped, MapsTyped, RestTyped
  <1>4. /\ UNCHANGED modemVars => ModemTyped'
        /\ UNCHANGED happened => happened' \in SUBSET Events
    BY DEF Typed, ModemTyped, RestTyped, modemVars
  <1>5. ASSUME NEW hw \in HwIds \cup {0}, NEW ok \in BOOLEAN, Reply(hw, ok), c.op # "open",
               c.op \in Cmds /\ (ok \/ c.op # "add") => hw \in HwIds
        PROVE  MsgTyped'
    <2> DEFINE m == [c.reply EXCEPT !.hw = hw, !.ok = ok]
    <2>1. CASE c.reply.k = "ignore"
      BY <1>2, <1>5, <2>1, MsgKept DEF Reply, Typed
    <2>2. CASE c.reply.k # "ignore"
      <3>1. Proper(batches, m) /\ msgQ' = Append(msgQ, m)
        BY <1>2, <1>5, <2>2, ReplyProper DEF Reply, Post
      <3> HIDE DEF m
      <3>2. Proper(batches', m)
        BY <1>2, <3>1, GrownMessage
      <3> QED BY <1>2, <3>1, <3>2, MsgKept DEF Typed
    <2> QED BY <2>1, <2>2
  <1>6. CASE GiveTurn
    <2>1. c.op = "turn" /\ c.op \notin Cmds
      BY <1>6 DEF GiveTurn, Serving, Cmds
    <2> HIDE DEF c
    <2> QED BY <1>4, <1>5, <1>6, <2>1 DEF GiveTurn
  <1>7. CASE OpenLink
    <2> DEFINE m == [Blank EXCEPT !.k = "engineUp"]
    <2>1. m \in Messages /\ m.k = "engineUp"
      BY BlankTyped DEF Messages, Kinds, Blank
    <2>2. Post(m) /\ ModemTyped' /\ UNCHANGED happened
      BY <1>7 DEF OpenLink, Typed, ModemTyped
    <2> HIDE DEF m
    <2>3. Proper(batches', m)
      BY <2>1 DEF Proper
    <2> QED BY <1>2, <1>4, <2>2, <2>3, MsgKept DEF Typed, Post
  <1>8. CASE ModemAdds
    <2>1. PICK hw \in HwIds : /\ modem' = [modem EXCEPT ![hw] = c.fence]
                              /\ usedHw' = usedHw \cup {hw} /\ Reply(hw, TRUE)
      BY <1>8, ModemAddsFacts
    <2>2. c.op = "add" /\ c.fence \in Fence
      BY <1>2, <1>8, AddedFence DEF ModemAdds, Serving
    <2>3. UNCHANGED link /\ happened' \in SUBSET Events
      BY <1>8, ModemAddsFacts DEF ModemAdds, Typed, RestTyped, Events
    <2>4. ModemTyped'
      BY <2>1, <2>2, <2>3 DEF Typed, ModemTyped
    <2> QED BY <1>4, <1>5, <2>1, <2>2, <2>3, <2>4
  <1>9. CASE ModemChanges
    <2>1. /\ c.op \in Cmds \ {"add"} /\ c.hw \in Present(modem) /\ Reply(c.hw, TRUE)
          /\ modem' = [modem EXCEPT ![c.hw] = Changed(modem[c.hw], c)] /\ UNCHANGED <<link, usedHw, happened>>
      BY <1>9 DEF ModemChanges, Serving, Typed, ModemTyped, Present
    <2>2. c.hw \in HwIds /\ modem[c.hw] \in Fence
      BY <2>1 DEF Present, Typed, ModemTyped
    <2>3. Changed(modem[c.hw], c) \in Fence \cup {NoFence}
      BY <1>2, <2>1, <2>2, ChangedFence
    <2>4. ModemTyped'
      BY <2>1, <2>3 DEF Typed, ModemTyped
    <2>5. c.op # "open"
      BY <2>1 DEF Cmds
    <2> QED BY <1>4, <1>5, <2>1, <2>2, <2>4, <2>5
  <1>10. CASE ModemFails \/ ModemRefuses
    <2>1. c.op \in Cmds /\ Reply(c.hw, FALSE) /\ UNCHANGED modemVars
      BY <1>10 DEF ModemFails, ModemRefuses, Serving
    <2>2. happened' \in SUBSET Events
      BY <1>4, <1>10 DEF ModemFails, ModemRefuses, Happens, Events, Typed, RestTyped
    <2>3. c.hw \in HwIds \cup {0} /\ (c.op # "add" => c.hw \in HwIds) /\ c.op # "open"
      BY <1>2, <2>1 DEF ProperCall, Calls, Cmds
    <2> QED BY <1>4, <1>5, <2>1, <2>2, <2>3
  <1> QED BY <1>6, <1>7, <1>8, <1>9, <1>10 DEF LocApiStep

LEMMA ModemTypedStep ==
  ASSUME Typed, ModemStep
  PROVE  Typed'
  <1>1. ModemKeeps /\ Grows /\ BatchesTyped' /\ RequestsTyped'
    <2>1. ModemKeeps
      BY DEF ModemStep, ModemReset, Breach
    <2> QED BY <2>1, SameGrows DEF ModemKeeps, Typed, BatchesTyped, Items, RequestsTyped, clientVars
  <1>2. SUFFICES MsgTyped' /\ ApiTyped' /\ ModemTyped' /\ happened' \in SUBSET Events
    BY <1>1 DEF Typed, ModemKeeps, clientVars, mapVars, ClientsTyped, MapsTyped, RestTyped
  <1>3. CASE ModemReset
    <2>1. Open \in Calls /\ Open.op = "open" /\ Open.reply = Blank
      BY BlankTyped DEF Open, Calls, Call, Ops
    <2>2. ProperCall(batches', Open)
      BY <2>1 DEF ProperCall, Cmds
    <2>3. <<Open>> \in Seq(Calls) /\ \A n \in DOMAIN <<Open>> : ProperCall(batches', <<Open>>[n])
      BY <2>1, <2>2
    <2>4. ApiTyped'
      BY <1>1, <1>3, <2>3, ApiRequested DEF ModemReset, Typed
    <2>5. ModemTyped' /\ happened' \in SUBSET Events
      BY <1>3 DEF ModemReset, Typed, ModemTyped, RestTyped, Happens, Events
    <2> QED BY <1>1, <1>3, <2>4, <2>5, MsgKept DEF ModemReset, Typed
  <1>4. ASSUME NEW hw \in HwIds, NEW type \in {"enter", "exit"}, Breach(hw, type)
        PROVE  MsgTyped' /\ ApiTyped' /\ ModemTyped' /\ happened' \in SUBSET Events
    <2> DEFINE f == [modem[hw] EXCEPT !.mask = {type}]
               m == [Blank EXCEPT !.k = "breach", !.hw = hw, !.fence = f]
    <2>1. modem[hw] \in Fence
      BY <1>4 DEF Breach, Typed, ModemTyped
    <2>2. f \in Described /\ f.id \in Ids
      BY <2>1 DEF Fence, Described
    <2> HIDE DEF f
    <2>3. m \in Messages /\ m.k = "breach" /\ m.hw = hw /\ m.fence = f
      BY <2>2, BlankTyped DEF Messages, Kinds, Blank
    <2>4. Post(m)
      BY <1>4 DEF Breach, f
    <2> HIDE DEF m
    <2>5. Proper(batches', m)
      BY <2>2, <2>3 DEF Proper
    <2>6. UNCHANGED <<apiQ, modemVars>> /\ happened' \in SUBSET Events
      BY <1>4 DEF Breach, Happens, Events, Typed, RestTyped
    <2> QED BY <1>1, <2>4, <2>5, <2>6, MsgKept, ApiKept DEF Post, Typed, ModemTyped, modemVars
  <1> QED BY <1>3, <1>4 DEF ModemStep

LEMMA InitTyped ==
  ASSUME Init
  PROVE  Typed
  <1>1. NoFence \in Fence \cup {NoFence} /\ 1 \in 1 .. MaxFences + 1
    BY ConstantsAssumption
  <1> QED BY <1>1, ConstantsAssumption DEF Init, Typed, BatchesTyped, MsgTyped, ApiTyped, RequestsTyped, ClientsTyped,
             MapsTyped, ModemTyped, RestTyped, Items

LEMMA TypedInvariant == Spec => []Typed
  <1>1. Init => Typed
    BY InitTyped
  <1>2. Typed /\ [Next]_vars => Typed'
    <2>1. ASSUME Typed, UNCHANGED vars
          PROVE  Typed'
      BY <2>1 DEF vars, clientVars, mapVars, modemVars, Typed, BatchesTyped, MsgTyped, ApiTyped,
                  RequestsTyped, ClientsTyped, MapsTyped, ModemTyped, RestTyped, Items
    <2>2. ASSUME Typed, Next
          PROVE  Typed'
      BY <2>2, ClientsTypedStep, AdapterTyped, LocApiTyped, ModemTypedStep DEF Next
    <2> QED BY <2>1, <2>2
  <1> QED BY <1>1, <1>2, PTL DEF Spec

\* Every variable, queue and message keeps its type, and no handler looks up a
\* batch, an item or a fence that is not there.
THEOREM TypeCorrect == Spec => []TypeOK
  <1>1. Typed => TypeOK
    BY TypedTypeOK
  <1> QED BY <1>1, TypedInvariant, PTL


-----------------------------------------------------------------------------
(* Hardware ids *)

\* Once a hardware id has been handed out again, that has happened.
LEMMA ReuseStays == NoReuse' /\ [Next]_vars => NoReuse
  <1> SUFFICES ASSUME NoReuse', [Next]_vars
               PROVE  NoReuse
    OBVIOUS
  <1>1. CASE ClientStep
    BY <1>1 DEF ClientStep, AddGeofences, RemoveGeofences, PauseGeofences, ResumeGeofences, ModifyGeofences, Change,
           Issue, Destroy, Happens, NoReuse
  <1>2. CASE AdapterStep
    BY <1>2 DEF AdapterStep, StartBatch, AddTurn, FoundTurn, UnknownTurn, AddDone, RemoveDone, PauseDone, ResumeDone,
           ResumeRefused, ModifyDone, RemoveClient, Swept, RestartGeofences, Restored, BreachReported, Turn, Done,
           AdapterKeeps, NoReuse
  <1>3. CASE LocApiStep \/ ModemStep
    BY <1>3 DEF LocApiStep, ModemStep, GiveTurn, OpenLink, ModemAdds, ModemChanges, ModemFails, ModemRefuses, ModemReset,
           Breach, Happens, Reuses, NoReuse
  <1>4. CASE UNCHANGED vars
    BY <1>4 DEF vars, NoReuse
  <1> QED BY <1>1, <1>2, <1>3, <1>4 DEF Next


\* A message that says which fence a hardware id is.
Says(B, m, h, id) ==
  /\ m.hw = h
  /\ \/ m.k = "done" /\ m.ok /\ B[m.batch].cmd = "add" /\ B[m.batch].ids[m.item] = id
     \/ m.k = "restored" /\ m.ok /\ m.fence.id = id
     \/ m.k = "breach" /\ m.fence.id = id

\* A request of a command about a fence that has a hardware id.
Asks(c, h, id) == c.reply.k = "done" /\ c.op # "add" /\ c.hw = h /\ c.fence.id = id

\* Something takes hardware id h for fence id.
Names(h, id) ==
  \/ modem[h].id = id
  \/ geofences[h].id = id
  \/ geofenceIds[id] = h
  \/ \E n \in DOMAIN msgQ : Says(batches, msgQ[n], h, id)
  \/ \E n \in DOMAIN apiQ : Asks(apiQ[n], h, id)

\* A hardware id is handed out once, and stands for one fence from then on.
OneName ==
  \A h \in HwIds : /\ \A i, j \in Ids : Names(h, i) /\ Names(h, j) => i = j
                   /\ \A i \in Ids : Names(h, i) => h \in usedHw

NamesNoMore == /\ usedHw \subseteq usedHw'
               /\ \A h \in HwIds, id \in Ids : Names(h, id)' => Names(h, id)

LEMMA KeptNames ==
  ASSUME OneName, NamesNoMore
  PROVE  OneName'
  BY DEF OneName, NamesNoMore

LEMMA GrownSays ==
  ASSUME Grows, NEW m, Proper(batches, m), NEW h, NEW id, Says(batches', m, h, id)
  PROVE  Says(batches, m, h, id)
  BY DEF Grows, Proper, Item, Says

\* No message says anything new.
LEMMA MsgNames ==
  ASSUME MsgTyped, Grows, UNCHANGED msgQ \/ (msgQ # << >> /\ msgQ' = Tail(msgQ)), NEW h, NEW id,
         NEW n \in DOMAIN msgQ', Says(batches', msgQ'[n], h, id)
  PROVE  \E k \in DOMAIN msgQ : Says(batches, msgQ[k], h, id)
  <1>1. \E k \in DOMAIN msgQ : msgQ'[n] = msgQ[k]
    <2>1. CASE msgQ # << >> /\ msgQ' = Tail(msgQ)
      <3>1. \A j \in DOMAIN Tail(msgQ) : j + 1 \in DOMAIN msgQ /\ Tail(msgQ)[j] = msgQ[j + 1]
        BY <2>1, TailFacts DEF MsgTyped
      <3> QED BY <2>1, <3>1
    <2> QED BY <2>1
  <1> QED BY <1>1, GrownSays DEF MsgTyped

LEMMA AppendNames ==
  ASSUME MsgTyped, Grows, NEW m \in Messages, msgQ' = Append(msgQ, m), NEW h, NEW id,
         NEW n \in DOMAIN msgQ', Says(batches', msgQ'[n], h, id)
  PROVE  Says(batches', m, h, id) \/ \E k \in DOMAIN msgQ : Says(batches, msgQ[k], h, id)
  <1>1. msgQ'[n] = m \/ \E k \in DOMAIN msgQ : msgQ'[n] = msgQ[k]
    BY AppendFacts DEF MsgTyped
  <1> QED BY <1>1, GrownSays DEF MsgTyped

\* No request asks anything new.
LEMMA CallNames ==
  ASSUME ApiTyped, UNCHANGED apiQ \/ (apiQ # << >> /\ apiQ' = Tail(apiQ)), NEW h, NEW id,
         NEW n \in DOMAIN apiQ', Asks(apiQ'[n], h, id)
  PROVE  \E k \in DOMAIN apiQ : Asks(apiQ[k], h, id)
  <1>1. CASE apiQ # << >> /\ apiQ' = Tail(apiQ)
    <2>1. \A j \in DOMAIN Tail(apiQ) : j + 1 \in DOMAIN apiQ /\ Tail(apiQ)[j] = apiQ[j + 1]
      BY <1>1, TailFacts DEF ApiTyped
    <2> QED BY <1>1, <2>1
  <1> QED BY <1>1

LEMMA RequestNames ==
  ASSUME ApiTyped, NEW s \in Seq(Calls), Request(s), NEW h, NEW id,
         NEW n \in DOMAIN apiQ', Asks(apiQ'[n], h, id)
  PROVE  \/ \E k \in DOMAIN apiQ : Asks(apiQ[k], h, id)
         \/ \E k \in DOMAIN s : Asks(s[k], h, id)
  <1>1. \/ n \in DOMAIN apiQ /\ apiQ'[n] = apiQ[n]
        \/ n - Len(apiQ) \in DOMAIN s /\ apiQ'[n] = s[n - Len(apiQ)]
    BY DEF ApiTyped, Request
  <1> QED BY <1>1

LEMMA SilentNames ==
  ASSUME Typed, Grows, UNCHANGED <<modem, mapVars, usedHw>>,
         \A h \in HwIds, id \in Ids : \A n \in DOMAIN msgQ' : Says(batches', msgQ'[n], h, id) => Names(h, id),
         \A h \in HwIds, id \in Ids : \A n \in DOMAIN apiQ' : Asks(apiQ'[n], h, id) => Names(h, id)
  PROVE  NamesNoMore
  BY DEF NamesNoMore, Names, mapVars

LEMMA ClientNames ==
  ASSUME Typed, ClientStep
  PROVE  NamesNoMore
  <1>1. /\ \E m \in Messages : msgQ' = Append(msgQ, m) /\ m.k \in {"command", "removeClient"}
        /\ UNCHANGED <<modem, mapVars, usedHw, apiQ>>
    <2>1. PICK c \in Clients : Destroy(c) \/ \E k, ids, masks : Issued(k, c, ids, masks)
      BY ClientActs
    <2>2. ASSUME Destroy(c)
          PROVE  <1>1
      BY <2>2, RemoveClientTyped DEF Destroy, Post, mapVars, modemVars
    <2>3. ASSUME NEW k, NEW ids, NEW masks, Issued(k, c, ids, masks)
          PROVE  <1>1
      <3>1. Len(batches) + 1 \in 1 .. MaxCommands /\ "command" \in Kinds /\ 0 \in 0 .. MaxBatch
        BY <2>3, BlankTyped, ConstantsAssumption DEF Issued, Issue, Typed, BatchesTyped, Kinds
      <3> QED BY <2>3, <3>1, OfTyped DEF Issued, Issue, Post, mapVars, modemVars
    <2> QED BY <2>1, <2>2, <2>3
  <1>2. PICK m \in Messages : msgQ' = Append(msgQ, m) /\ m.k \in {"command", "removeClient"}
    BY <1>1
  <1>3. \A h, id : ~ Says(batches', m, h, id)
    BY <1>2 DEF Says
  <1>4. \A h \in HwIds, id \in Ids : \A n \in DOMAIN apiQ' : Asks(apiQ'[n], h, id) => Names(h, id)
    BY <1>1 DEF Names
  <1>5. \A h \in HwIds, id \in Ids : \A n \in DOMAIN msgQ' : Says(batches', msgQ'[n], h, id) => Names(h, id)
    BY <1>2, <1>3, ClientsTypedStep, AppendNames DEF Typed, Names
  <1> QED BY <1>1, <1>4, <1>5, ClientsTypedStep, SilentNames

LEMMA FenceDescribed == \A f \in Fence \cup {NoFence} : f \in Described
  <1>1. \A f \in Fence : f \in Described
    BY ConstantsAssumption DEF Fence, Described
  <1> QED BY <1>1, BlankTyped

\* What FoundTurn asks of the modem.
FoundCall == Call(cmd.cmd, geofenceIds[cmd.ids[msg.item]], Watching(cmd.ids[msg.item], cmd.masks[msg.item]),
                  Of("done", msg.batch, msg.item))

\* What else the adapter requests.
Other(c) ==
  \/ StartBatch /\ c.op = "turn" /\ c.reply.k = "turn"
  \/ AddTurn /\ c.op = "add" /\ c.reply.k = "done"
  \/ RestartGeofences /\ c.op = "add" /\ c.reply.k = "restored"
  \/ /\ RemoveClient /\ c.op = "remove" /\ c.reply.k = "swept" /\ c.hw \in HwIds
     /\ \E id \in Ids : owner[id] = msg.client /\ geofenceIds[id] = c.hw
  \/ Restored /\ msg.ok /\ c.op = "pause" /\ c.reply.k = "ignore" /\ c.hw = msg.hw

\* A request for every member of a set.
LEMMA ForEachRequest ==
  ASSUME NEW S, S \subseteq Int, IsFiniteSet(S), NEW f, \A i \in S : f[i] \in Calls
  PROVE  /\ [n \in DOMAIN Ascending(S) |-> f[Ascending(S)[n]]] \in Seq(Calls)
         /\ \A n \in DOMAIN Ascending(S) : Ascending(S)[n] \in S
  <1> DEFINE a == Ascending(S)
  <1>1. a \in Seq(S)
    BY AscendingFacts
  <1> HIDE DEF a
  <1>2. DOMAIN a = 1 .. Len(a) /\ Len(a) \in Nat /\ \A n \in DOMAIN a : a[n] \in S
    BY <1>1
  <1>3. [n \in DOMAIN a |-> f[a[n]]] \in Seq(Calls)
    <2>1. \A n \in 1 .. Len(a) : f[a[n]] \in Calls
      BY <1>2
    <2> QED BY <1>2, <2>1
  <1> QED BY <1>2, <1>3 DEF a

LEMMA AdapterRequests ==
  ASSUME Typed, AdapterStep
  PROVE  \/ FoundTurn /\ FoundCall \in Calls /\ apiQ' = Append(apiQ, FoundCall)
         \/ \E s \in Seq(Calls) : Request(s) /\ \A k \in DOMAIN s : Other(s[k])
  <1>0. apiQ \in Seq(Calls) /\ msgQ # << >> /\ Proper(batches, msg)
    <2>1. msgQ # << >>
      BY DEF AdapterStep, StartBatch, AddTurn, FoundTurn, UnknownTurn, AddDone, RemoveDone, PauseDone, ResumeDone,
             ResumeRefused, ModifyDone, RemoveClient, Swept, RestartGeofences, Restored, BreachReported, Receive,
             Turn, Done
    <2> QED BY <2>1, MsgProper DEF Typed, ApiTyped
  <1>1. CASE UNCHANGED apiQ
    <2>1. << >> \in Seq(Calls) /\ Request(<< >>) /\ \A k \in DOMAIN << >> : FALSE
      BY <1>0, <1>1 DEF Request
    <2> QED BY <2>1
  <1>2. ASSUME NEW c \in Calls, Request(<<c>>)
        PROVE  apiQ' = Append(apiQ, c) /\ (Other(c) => \E s \in Seq(Calls) : Request(s) /\ \A k \in DOMAIN s : Other(s[k]))
    <2>1. apiQ' = Append(apiQ, c)
      BY <1>0, <1>2 DEF Request
    <2>2. ASSUME Other(c)
          PROVE  \E s \in Seq(Calls) : Request(s) /\ \A k \in DOMAIN s : Other(s[k])
      <3> DEFINE s == <<c>>
      <3>1. s \in Seq(Calls) /\ DOMAIN s = {1} /\ s[1] = c /\ Request(s)
        BY <1>2
      <3> HIDE DEF s
      <3>2. \A k \in DOMAIN s : Other(s[k])
        BY <2>2, <3>1
      <3> QED BY <3>1, <3>2
    <2> QED BY <2>1, <2>2
  <1>i. ASSUME msg.k \in {"turn", "done"}
        PROVE  /\ cmd.cmd \in Cmds /\ cmd.ids[msg.item] \in Ids
               /\ Watching(cmd.ids[msg.item], cmd.masks[msg.item]) \in Described
               /\ Of("done", msg.batch, msg.item) \in Messages /\ Of("done", msg.batch, msg.item).k = "done"
    <2> DEFINE b == msg.batch
               i == msg.item
    <2>1. Item(batches, b, i)
      BY <1>0, <1>i DEF Proper
    <2>2. b \in 1 .. MaxCommands /\ i \in 0 .. MaxBatch /\ "done" \in Kinds
      BY <2>1, ItemFacts, ConstantsAssumption DEF Typed, Kinds
    <2> QED BY <2>1, <2>2, ItemFacts, OfTyped DEF Typed, cmd
  <1>3. CASE FoundTurn
    <2>1. msg.k = "turn" /\ geofenceIds[cmd.ids[msg.item]] \in HwIds \cup {0}
      BY <1>3, <1>i DEF FoundTurn, Turn, Receive, Typed, MapsTyped
    <2>2. FoundCall \in Calls /\ Request(<<FoundCall>>)
      BY <1>3, <1>i, <2>1 DEF FoundTurn, Ask, FoundCall, Call, Calls, Ops
    <2> QED BY <1>2, <1>3, <2>2
  <1>4. CASE AddTurn
    <2> DEFINE c == Call(cmd.cmd, 0, Watching(cmd.ids[msg.item], cmd.masks[msg.item]),
                         Of("done", msg.batch, msg.item))
    <2>1. msg.k = "turn" /\ cmd.cmd = "add"
      BY <1>4 DEF AddTurn, Turn, Receive
    <2>2. c \in Calls /\ Request(<<c>>) /\ c.op = "add" /\ c.reply.k = "done"
      BY <1>4, <1>i, <2>1 DEF AddTurn, Ask, Call, Calls, Ops
    <2> HIDE DEF c
    <2> QED BY <1>2, <1>4, <2>2 DEF Other
  <1>5. CASE StartBatch
    <2> DEFINE b == msg.batch
               f(i) == Call("turn", 0, NoFence, Of("turn", b, i))
               s == [i \in Items(b) |-> f(i)]
    <2>1. b \in DOMAIN batches /\ Request(s)
      BY <1>0, <1>5 DEF StartBatch, Receive, Proper
    <2>2. \A i \in Items(b) : Item(batches, b, i)
      BY <2>1 DEF Item, Items
    <2>3. ASSUME NEW i \in Items(b)
          PROVE  f(i) \in Calls /\ f(i).op = "turn" /\ f(i).reply.k = "turn"
      <3>1. ProperCall(batches, f(i))
        BY <2>2, TurnCall DEF Typed
      <3> QED BY <3>1 DEF ProperCall, Call, Of
    <2>4. Items(b) = 1 .. Len(batches[b].ids) /\ Len(batches[b].ids) \in Nat
      BY <2>1 DEF Typed, BatchesTyped, Commands, Items
    <2> HIDE DEF f
    <2>5. s \in Seq(Calls) /\ DOMAIN s = Items(b) /\ \A i \in Items(b) : s[i] = f(i)
      BY <2>3, <2>4
    <2> HIDE DEF s
    <2>6. \A i \in DOMAIN s : Other(s[i])
      BY <1>5, <2>3, <2>5 DEF Other
    <2> QED BY <2>1, <2>5, <2>6
  <1>6. CASE RemoveClient
    <2> DEFINE gone == {id \in Ids : owner[id] = msg.client /\ geofenceIds[id] # 0}
               call(id) == Call("remove", geofenceIds[id], NoFence, [Blank EXCEPT !.k = "swept"])
               a == Ascending(gone)
               f == [id \in gone |-> call(id)]
               s == [n \in DOMAIN a |-> f[a[n]]]
    <2>1. Request([n \in DOMAIN a |-> call(a[n])])
      BY <1>6 DEF RemoveClient
    <2>2. gone \subseteq Int /\ IsFiniteSet(gone)
      BY FiniteInts, ConstantsAssumption DEF Ids
    <2>3. ASSUME NEW id \in gone
          PROVE  call(id) \in Calls /\ Other(call(id))
      <3>1. geofenceIds[id] \in HwIds
        BY DEF Typed, MapsTyped
      <3>2. ProperCall(batches, call(id))
        BY <3>1, SweepCall
      <3> QED BY <1>6, <3>1, <3>2 DEF ProperCall, Other, Call, Blank
    <2> HIDE DEF gone, call
    <2>4. \A id \in gone : f[id] = call(id) /\ f[id] \in Calls
      BY <2>3
    <2> HIDE DEF f
    <2>5. s \in Seq(Calls) /\ \A n \in DOMAIN a : a[n] \in gone
      BY <2>2, <2>4, ForEachRequest
    <2>6. s = [n \in DOMAIN a |-> call(a[n])] /\ DOMAIN s = DOMAIN a
      BY <2>4, <2>5
    <2>7. \A n \in DOMAIN a : s[n] = call(a[n])
      BY <2>6
    <2> HIDE DEF s, a
    <2>8. \A n \in DOMAIN s : Other(s[n])
      BY <2>3, <2>5, <2>6, <2>7
    <2> QED BY <2>1, <2>5, <2>6, <2>8
  <1>7. CASE RestartGeofences
    <2> DEFINE call(h) == Call("add", 0, Watching(geofences[h].id, geofences[h].mask),
                               [Blank EXCEPT !.k = "restored", !.fence = geofences[h]])
               S == Present(geofences)
               a == Ascending(S)
               f == [h \in S |-> call(h)]
               s == [n \in DOMAIN a |-> f[a[n]]]
    <2>1. Request([n \in DOMAIN a |-> call(a[n])])
      BY <1>7 DEF RestartGeofences, AddAgain
    <2>2. S \subseteq Int /\ IsFiniteSet(S)
      BY FiniteInts, ConstantsAssumption DEF Present, HwIds
    <2>3. ASSUME NEW h \in S
          PROVE  call(h) \in Calls /\ Other(call(h))
      <3>1. geofences[h] \in Fence
        BY DEF Typed, MapsTyped, Present
      <3>2. ProperCall(batches, call(h))
        BY <3>1, RestartCall
      <3> QED BY <1>7, <3>2 DEF ProperCall, Other, Call, Blank
    <2> HIDE DEF S, call
    <2>4. \A id \in S : f[id] = call(id) /\ f[id] \in Calls
      BY <2>3
    <2> HIDE DEF f
    <2>5. s \in Seq(Calls) /\ \A n \in DOMAIN a : a[n] \in S
      BY <2>2, <2>4, ForEachRequest
    <2>6. s = [n \in DOMAIN a |-> call(a[n])] /\ DOMAIN s = DOMAIN a
      BY <2>4, <2>5
    <2>7. \A n \in DOMAIN a : s[n] = call(a[n])
      BY <2>6
    <2> HIDE DEF s, a
    <2>8. \A n \in DOMAIN s : Other(s[n])
      BY <2>3, <2>5, <2>6, <2>7
    <2> QED BY <2>1, <2>5, <2>6, <2>8
  <1>8. CASE Restored
    <2>1. CASE msg.ok /\ msg.fence.paused
      <3> DEFINE c == Call("pause", msg.hw, NoFence, Blank)
      <3>1. Request(<<c>>) /\ msg.hw \in HwIds
        BY <1>0, <1>8, <2>1 DEF Restored, Receive, Proper
      <3>2. ProperCall(batches, c)
        BY <3>1, PauseCall
      <3>3. c \in Calls /\ Other(c)
        BY <1>8, <2>1, <3>2 DEF ProperCall, Other, Call, Blank
      <3> HIDE DEF c
      <3> QED BY <1>2, <3>1, <3>3
    <2>2. CASE ~ (msg.ok /\ msg.fence.paused)
      BY <1>0, <1>1, <1>8, <2>2 DEF Restored, Request
    <2> QED BY <2>1, <2>2
  <1> QED BY <1>1, <1>3, <1>4, <1>5, <1>6, <1>7, <1>8 DEF AdapterStep, UnknownTurn, AddDone, RemoveDone, PauseDone,
          ResumeDone, ResumeRefused, ModifyDone, Swept, BreachReported, Done

\* The adapter takes a hardware id for a fence when it is told so ...
LEMMA AdapterIds ==
  ASSUME Typed, AdapterStep, NEW h \in HwIds, NEW id \in Ids, geofenceIds'[id] = h
  PROVE  geofenceIds[id] = h \/ Says(batches, msg, h, id)
  <1>0. h # 0 /\ geofenceIds \in [Ids -> HwIds \cup {0}]
    BY ConstantsAssumption DEF HwIds, Typed, MapsTyped
  <1>1. CASE StartBatch \/ AddTurn \/ FoundTurn \/ UnknownTurn \/ Swept \/ BreachReported \/ ResumeRefused
    BY <1>1 DEF StartBatch, AddTurn, FoundTurn, UnknownTurn, Swept, BreachReported, ResumeRefused, Turn, mapVars
  <1>2. CASE AddDone
    BY <1>0, <1>2 DEF AddDone, Done, Receive, SaveItem, mapVars, Says, cmd
  <1>3. CASE RemoveDone
    BY <1>0, <1>3 DEF RemoveDone, RemoveItem, mapVars
  <1>4. CASE PauseDone \/ ResumeDone \/ ModifyDone
    BY <1>4 DEF PauseDone, ResumeDone, ModifyDone, SetPaused, SetMask, mapVars
  <1>5. CASE RemoveClient
    BY <1>0, <1>5 DEF RemoveClient
  <1>6. CASE RestartGeofences
    BY <1>0, <1>6 DEF RestartGeofences
  <1>7. CASE Restored
    BY <1>0, <1>7 DEF Restored, Receive, SaveItem, mapVars, Says
  <1> QED BY <1>1, <1>2, <1>3, <1>4, <1>5, <1>6, <1>7 DEF AdapterStep

\* ... and asks about a fence by the id it has for it.
LEMMA AdapterAsks ==
  ASSUME Typed, AdapterStep, NEW h \in HwIds, NEW id \in Ids,
         NEW n \in DOMAIN apiQ', Asks(apiQ'[n], h, id)
  PROVE  geofenceIds[id] = h \/ \E k \in DOMAIN apiQ : Asks(apiQ[k], h, id)
  <1>0. ApiTyped
    BY DEF Typed
  <1>2. ASSUME NEW s \in Seq(Calls), Request(s), \A k \in DOMAIN s : ~ Asks(s[k], h, id)
        PROVE  \E k \in DOMAIN apiQ : Asks(apiQ[k], h, id)
    BY <1>0, <1>2, RequestNames
  <1>3. CASE FoundCall \in Calls /\ apiQ' = Append(apiQ, FoundCall)
    <2>1. Asks(FoundCall, h, id) => geofenceIds[id] = h
      BY DEF Asks, FoundCall, Call, Watching
    <2>2. apiQ'[n] = FoundCall \/ \E k \in DOMAIN apiQ : apiQ'[n] = apiQ[k]
      BY <1>0, <1>3 DEF ApiTyped
    <2> QED BY <2>1, <2>2
  <1>4. \A c : Other(c) => ~ Asks(c, h, id)
    BY DEF Other, Asks
  <1> QED BY <1>2, <1>3, <1>4, AdapterRequests

LEMMA AdapterNames ==
  ASSUME Typed, AdapterStep
  PROVE  NamesNoMore
  <1>1. /\ msgQ # << >> /\ msgQ' = Tail(msgQ) /\ UNCHANGED <<modem, usedHw>>
        /\ msg.k \in {"command", "turn", "done", "removeClient", "swept", "engineUp", "restored", "breach"}
    BY DEF AdapterStep, StartBatch, AddTurn, FoundTurn, UnknownTurn, AddDone, RemoveDone, PauseDone, ResumeDone,
           ResumeRefused, ModifyDone, RemoveClient, Swept, RestartGeofences, Restored, BreachReported, Receive,
           Turn, Done, AdapterKeeps, modemVars
  <1>2. Grows /\ Proper(batches, msg)
    BY <1>1, AdapterTyped, MsgProper DEF Typed
  <1>3. \A h \in HwIds, id \in Ids : Says(batches, msg, h, id) => Names(h, id)
    BY <1>1, TailFacts DEF Names, msg, Typed, MsgTyped
  <1>4. SUFFICES ASSUME NEW h \in HwIds, NEW id \in Ids
                 PROVE  geofences'[h].id = id => geofences[h].id = id \/ Says(batches, msg, h, id)
    <2>1. \A h \in HwIds, id \in Ids : \A n \in DOMAIN msgQ' : Says(batches', msgQ'[n], h, id) => Names(h, id)
      BY <1>1, <1>2, MsgNames DEF Typed, Names
    <2>2. \A h \in HwIds, id \in Ids : \A n \in DOMAIN apiQ' : Asks(apiQ'[n], h, id) => Names(h, id)
      BY AdapterAsks DEF Names
    <2>3. \A h \in HwIds, id \in Ids : geofenceIds'[id] = h => Names(h, id)
      BY <1>3, AdapterIds DEF Names
    <2> QED BY <1>1, <1>3, <2>1, <2>2, <2>3 DEF NamesNoMore, Names
  <1>5. UNCHANGED geofences => (geofences'[h].id = id => geofences[h].id = id)
    OBVIOUS
  <1>6. NoFence.id = 0 /\ id # 0
    BY ConstantsAssumption DEF NoFence, Ids
  <1>7. CASE AddDone
    <2>1. msg.k = "done" /\ cmd.cmd = "add" /\ Item(batches, msg.batch, msg.item)
      BY <1>2, <1>7 DEF AddDone, Done, Receive, Proper
    <2>2. CASE msg.ok
      <3>1. SaveItem(cmd.ids[msg.item], msg.hw, cmd.masks[msg.item])
        BY <1>7, <2>2 DEF AddDone
      <3>2. geofences' = [geofences EXCEPT ![msg.hw] = Watching(cmd.ids[msg.item], cmd.masks[msg.item])]
        BY <3>1 DEF SaveItem
      <3> QED BY <2>1, <2>2, <3>2 DEF Says, Watching, cmd, Typed, MapsTyped
    <2>3. CASE ~ msg.ok
      BY <1>5, <1>7, <2>3 DEF AddDone, mapVars
    <2> QED BY <2>2, <2>3
  <1>8. CASE Restored
    <2>1. CASE msg.ok
      <3>1. SaveItem(msg.fence.id, msg.hw, msg.fence.mask) /\ msg.k = "restored"
        BY <1>8, <2>1 DEF Restored, Receive
      <3>2. geofences' = [geofences EXCEPT ![msg.hw] = Watching(msg.fence.id, msg.fence.mask)]
        BY <3>1 DEF SaveItem
      <3> QED BY <2>1, <3>1, <3>2 DEF Says, Watching, Typed, MapsTyped
    <2>2. CASE ~ msg.ok
      BY <1>5, <1>8, <2>2 DEF Restored, mapVars
    <2> QED BY <2>1, <2>2
  <1>9. ASSUME NEW hw \in HwIds, NEW f, geofences' = [geofences EXCEPT ![hw] = f], f.id = 0 \/ f.id = geofences[hw].id
        PROVE  geofences'[h].id = id => geofences[h].id = id
    BY <1>6, <1>9 DEF Typed, MapsTyped
  <1>10. CASE RemoveDone \/ PauseDone \/ ResumeDone \/ ResumeRefused \/ ModifyDone
    <2>1. /\ cmd.cmd # "add" /\ msg.hw \in HwIds
      BY <1>2, <1>10 DEF RemoveDone, PauseDone, ResumeDone, ResumeRefused, ModifyDone, Done, Receive, Proper, cmd
    <2>2. \/ UNCHANGED geofences
          \/ geofences' = [geofences EXCEPT ![msg.hw] = NoFence]
          \/ \E paused : geofences' = [geofences EXCEPT ![msg.hw].paused = paused]
          \/ \E mask : geofences' = [geofences EXCEPT ![msg.hw].mask = mask]
      BY <1>10 DEF RemoveDone, PauseDone, ResumeDone, ResumeRefused, ModifyDone, RemoveItem, SetPaused, SetMask,
                   mapVars
    <2>3. geofences[msg.hw] \in Described
      BY <2>1, FenceDescribed DEF Typed, MapsTyped
    <2>4. ASSUME NEW paused, geofences' = [geofences EXCEPT ![msg.hw].paused = paused]
          PROVE  geofences'[h].id = id => geofences[h].id = id
      BY <2>1, <2>3, <2>4 DEF Typed, MapsTyped, Described
    <2>5. ASSUME NEW mask, geofences' = [geofences EXCEPT ![msg.hw].mask = mask]
          PROVE  geofences'[h].id = id => geofences[h].id = id
      BY <2>1, <2>3, <2>5 DEF Typed, MapsTyped, Described
    <2> QED BY <1>5, <1>6, <1>9, <2>1, <2>2, <2>4, <2>5
  <1>11. CASE Swept
    <2>1. msg.hw \in HwIds
      BY <1>2, <1>11 DEF Swept, Receive, Proper
    <2> QED BY <1>5, <1>6, <1>9, <1>11, <2>1 DEF Swept
  <1>12. CASE RestartGeofences
    BY <1>6, <1>12 DEF RestartGeofences
  <1>13. CASE StartBatch \/ AddTurn \/ FoundTurn \/ UnknownTurn \/ RemoveClient \/ BreachReported
    BY <1>5, <1>13 DEF StartBatch, AddTurn, FoundTurn, UnknownTurn, RemoveClient, BreachReported, Turn, mapVars
  <1> QED BY <1>7, <1>8, <1>10, <1>11, <1>12, <1>13 DEF AdapterStep

\* Only an add hands out a hardware id.
LEMMA ModemNames ==
  ASSUME Typed, LocApiStep \/ ModemStep, ~ ModemAdds
  PROVE  NamesNoMore
  <1>1. Grows /\ UNCHANGED mapVars
    <2>1. ModemKeeps
      BY DEF LocApiStep, GiveTurn, OpenLink, ModemAdds, ModemChanges, ModemFails, ModemRefuses, Serving,
             ModemStep, ModemReset, Breach
    <2> QED BY <2>1, SameGrows DEF ModemKeeps, mapVars
  <1>a. \A h \in HwIds, id \in Ids : \A n \in DOMAIN apiQ' : Asks(apiQ'[n], h, id) => Names(h, id)
    <2>1. CASE UNCHANGED apiQ \/ (apiQ # << >> /\ apiQ' = Tail(apiQ))
      BY <2>1, CallNames DEF Typed, Names
    <2>2. CASE ModemReset
      <3>1. Request(<<Open>>) /\ <<Open>> \in Seq(Calls)
        BY <2>2, BlankTyped DEF ModemReset, Open, Call, Calls, Ops
      <3>2. \A h, id : \A n \in DOMAIN <<Open>> : ~ Asks(<<Open>>[n], h, id)
        BY DEF Open, Call, Asks, Blank
      <3> QED BY <3>1, <3>2, RequestNames DEF Typed, Names
    <2> QED BY <2>1, <2>2 DEF LocApiStep, GiveTurn, OpenLink, ModemAdds, ModemChanges, ModemFails, ModemRefuses,
            Serving, ModemStep, Breach
  <1>2. ASSUME UNCHANGED usedHw, \A h \in HwIds, id \in Ids : modem'[h].id = id => modem[h].id = id,
               \/ UNCHANGED msgQ
               \/ \E m \in Messages : /\ msgQ' = Append(msgQ, m)
                                      /\ \A h \in HwIds, id \in Ids : Says(batches', m, h, id) => Names(h, id)
        PROVE  NamesNoMore
    <2>1. \A h \in HwIds, id \in Ids : \A n \in DOMAIN msgQ' : Says(batches', msgQ'[n], h, id) => Names(h, id)
      <3>1. CASE UNCHANGED msgQ
        BY <1>1, <3>1, MsgNames DEF Typed, Names
      <3>2. ASSUME NEW m \in Messages, msgQ' = Append(msgQ, m),
                   \A h \in HwIds, id \in Ids : Says(batches', m, h, id) => Names(h, id)
            PROVE  <2>1
        BY <1>1, <3>2, AppendNames DEF Typed, Names
      <3> QED BY <1>2, <3>1, <3>2
    <2> QED BY <1>1, <1>a, <1>2, <2>1 DEF NamesNoMore, Names, mapVars
  <1>3. NoFence.id = 0 /\ \A id \in Ids : id # 0
    BY ConstantsAssumption DEF NoFence, Ids
  <1>4. ASSUME NEW hw \in HwIds \cup {0}, NEW ok \in BOOLEAN, Reply(hw, ok), apiQ # << >>,
               Head(apiQ).op \in Cmds \cup {"turn"}, ok => Head(apiQ).op # "add"
        PROVE  \/ UNCHANGED msgQ
               \/ \E m \in Messages : /\ msgQ' = Append(msgQ, m)
                                      /\ \A h \in HwIds, id \in Ids : Says(batches', m, h, id) => Names(h, id)
    <2> DEFINE c == Head(apiQ)
               r == c.reply
               m == [r EXCEPT !.hw = hw, !.ok = ok]
    <2>1. ProperCall(batches, c) /\ r \in Messages
      BY <1>1, <1>4, ApiKept DEF Typed, ProperCall, Calls
    <2>2. r.k = "ignore" \/ msgQ' = Append(msgQ, m)
      BY <1>4 DEF Reply, Post
    <2>3. r.k = "ignore" => UNCHANGED msgQ
      BY <1>4 DEF Reply
    <2>4. r.k \in {"ignore", "turn", "done", "swept", "restored"}
      BY <1>4, <2>1 DEF ProperCall, ForItem, ForSweep, ForRestart, ForPause, Blank, Cmds
    <2>5. /\ r.k = "restored" => c.op = "add"
          /\ r.k = "done" => c.op = batches[r.batch].cmd /\ Item(batches, r.batch, r.item)
      BY <1>4, <2>1 DEF ProperCall, ForItem, ForSweep, ForRestart, ForPause, Blank, Cmds
    <2> HIDE DEF r, c
    <2>6. m \in Messages /\ m.k = r.k /\ m.ok = ok /\ m.batch = r.batch
      BY <2>1 DEF Messages
    <2> HIDE DEF m
    <2>7. \A h, id : ~ Says(batches', m, h, id)
      BY <1>1, <1>4, <2>4, <2>5, <2>6 DEF Says, Grows, Item, c
    <2> QED BY <2>2, <2>3, <2>6, <2>7
  <1>5. CASE GiveTurn
    BY <1>2, <1>4, <1>5 DEF GiveTurn, Serving, modemVars
  <1>6. CASE OpenLink
    <2> DEFINE m == [Blank EXCEPT !.k = "engineUp"]
    <2>1. m \in Messages /\ m.k = "engineUp"
      BY BlankTyped DEF Messages, Kinds, Blank
    <2>2. msgQ' = Append(msgQ, m) /\ UNCHANGED <<modem, usedHw>>
      BY <1>6 DEF OpenLink, Post
    <2> HIDE DEF m
    <2>3. \A h, id : ~ Says(batches', m, h, id)
      BY <2>1 DEF Says
    <2> QED BY <1>2, <2>1, <2>2, <2>3
  <1>7. CASE ModemChanges
    <2> DEFINE c == Head(apiQ)
    <2>1. /\ c.op \in Cmds \ {"add"} /\ c.hw \in Present(modem) /\ Reply(c.hw, TRUE) /\ apiQ # << >>
          /\ modem' = [modem EXCEPT ![c.hw] = Changed(modem[c.hw], c)] /\ UNCHANGED usedHw
      BY <1>7 DEF ModemChanges, Serving, Typed, ModemTyped, Present
    <2>2. c.hw \in HwIds /\ modem[c.hw] \in Fence
      BY <2>1 DEF Present, Typed, ModemTyped
    <2>3. Changed(modem[c.hw], c).id \in {0, modem[c.hw].id}
      BY <1>3, <2>1, <2>2 DEF Changed, Cmds, Fence
    <2>4. \A h \in HwIds, id \in Ids : modem'[h].id = id => modem[h].id = id
      BY <1>3, <2>1, <2>2, <2>3 DEF Typed, ModemTyped
    <2> QED BY <1>2, <1>4, <2>1, <2>2, <2>4
  <1>8. CASE ModemFails \/ ModemRefuses
    <2>1. /\ Head(apiQ).op \in Cmds /\ Reply(Head(apiQ).hw, FALSE) /\ apiQ # << >>
          /\ UNCHANGED <<modem, usedHw>>
      BY <1>8 DEF ModemFails, ModemRefuses, Serving, modemVars
    <2>2. Head(apiQ).hw \in HwIds \cup {0}
      BY <1>1, <2>1, ApiKept DEF Typed, ProperCall, Calls
    <2> QED BY <1>2, <1>4, <2>1, <2>2
  <1>9. CASE ModemReset
    BY <1>2, <1>3, <1>9 DEF ModemReset
  <1>10. ASSUME NEW hw \in HwIds, NEW type \in {"enter", "exit"}, Breach(hw, type)
         PROVE  NamesNoMore
    <2> DEFINE f == [modem[hw] EXCEPT !.mask = {type}]
               m == [Blank EXCEPT !.k = "breach", !.hw = hw, !.fence = f]
    <2>1. modem[hw] \in Fence
      BY <1>10 DEF Breach, Typed, ModemTyped
    <2>2. f \in Described /\ f.id = modem[hw].id
      BY <2>1 DEF Fence, Described
    <2> HIDE DEF f
    <2>3. m \in Messages /\ m.k = "breach" /\ m.hw = hw /\ m.fence = f
      BY <2>2, BlankTyped DEF Messages, Kinds, Blank
    <2>4. msgQ' = Append(msgQ, m) /\ UNCHANGED <<modem, usedHw>>
      BY <1>10 DEF Breach, f, Post, modemVars
    <2> HIDE DEF m
    <2>5. \A h \in HwIds, id \in Ids : Says(batches', m, h, id) => Names(h, id)
      BY <2>2, <2>3 DEF Says, Names
    <2> QED BY <1>2, <2>3, <2>4, <2>5
  <1> QED BY <1>5, <1>6, <1>7, <1>8, <1>9, <1>10 DEF LocApiStep, ModemStep

LEMMA AddNames ==
  ASSUME Typed, NoReuse', OneName, ModemAdds
  PROVE  OneName'
  <1> DEFINE c == Head(apiQ)
             r == c.reply
  <1>1. PICK hw \in HwIds : /\ hw \notin usedHw /\ modem' = [modem EXCEPT ![hw] = c.fence]
                            /\ usedHw' = usedHw \cup {hw} /\ Reply(hw, TRUE)
    BY ModemAddsFacts
  <1>2. /\ ProperCall(batches, c) /\ c.op = "add" /\ UNCHANGED <<mapVars, batches>>
        /\ apiQ # << >> /\ apiQ' = Tail(apiQ)
    BY ModemAddsFacts DEF ModemAdds, Serving, ModemKeeps, mapVars
  <1>3. c.fence \in Fence /\ r \in Messages
    BY <1>2, AddedFence DEF ProperCall, Calls
  <1>4. \A i \in Ids : ~ Names(hw, i)
    BY <1>1 DEF OneName
  <1>5. ASSUME NEW h \in HwIds, NEW id \in Ids, Names(h, id)'
        PROVE  Names(h, id) \/ (h = hw /\ id = c.fence.id)
    <2>1. modem'[h].id = id => modem[h].id = id \/ (h = hw /\ id = c.fence.id)
      BY <1>1, <1>3 DEF Typed, ModemTyped
    <2>2. ASSUME NEW n \in DOMAIN msgQ', Says(batches', msgQ'[n], h, id)
          PROVE  (h = hw /\ id = c.fence.id) \/ \E k \in DOMAIN msgQ : Says(batches, msgQ[k], h, id)
      <3> DEFINE m == [r EXCEPT !.hw = hw, !.ok = TRUE]
      <3>1. r.k # "ignore" => msgQ' = Append(msgQ, m)
        BY <1>1 DEF Reply, Post
      <3>2. r.k = "ignore" => UNCHANGED msgQ
        BY <1>1 DEF Reply
      <3> HIDE DEF r
      <3>3. m \in Messages /\ m.hw = hw /\ m.k = r.k /\ m.batch = r.batch /\ m.item = r.item /\ m.fence = r.fence
        BY <1>3 DEF Messages
      <3> HIDE DEF m
      <3>4. Says(batches', m, h, id) => h = hw /\ id = c.fence.id
        <4>1. CASE ForItem(batches, c)
          BY <1>2, <3>3, <4>1 DEF ForItem, Says, Watching, r
        <4>2. CASE ForRestart(c)
          BY <1>2, <3>3, <4>2 DEF ForRestart, Says, Watching, r
        <4> QED BY <1>2, <4>1, <4>2 DEF ProperCall, Cmds, ForSweep, ForPause
      <3>5. Grows
        BY <1>2, SameGrows
      <3>6. Says(batches', m, h, id) \/ \E k \in DOMAIN msgQ : Says(batches, msgQ[k], h, id)
        <4>1. CASE r.k # "ignore"
          BY <2>2, <3>1, <3>3, <3>5, <4>1, AppendNames DEF Typed
        <4>2. CASE r.k = "ignore"
          BY <2>2, <3>2, <3>5, <4>2, MsgNames DEF Typed
        <4> QED BY <4>1, <4>2
      <3> QED BY <3>4, <3>6
    <2>3. ASSUME NEW n \in DOMAIN apiQ', Asks(apiQ'[n], h, id)
          PROVE  \E k \in DOMAIN apiQ : Asks(apiQ[k], h, id)
      BY <1>2, <2>3, CallNames DEF Typed
    <2> QED BY <1>2, <1>5, <2>1, <2>2, <2>3 DEF Names, mapVars
  <1> QED BY <1>1, <1>4, <1>5 DEF OneName

LEMMA InitNames ==
  ASSUME Init
  PROVE  OneName
  <1>1. \A h \in HwIds, id \in Ids : ~ Names(h, id)
    BY ConstantsAssumption DEF Init, Names, NoFence, Ids, HwIds
  <1> QED BY <1>1 DEF OneName

LEMMA OneNameInvariant == Spec => [](NoReuse => OneName)
  <1>1. Init => OneName
    BY InitNames
  <1>2. ASSUME NoReuse', Typed, OneName, [Next]_vars
        PROVE  OneName'
    <2>1. CASE UNCHANGED vars
      <3>1. NamesNoMore
        BY <2>1 DEF vars, clientVars, mapVars, modemVars, NamesNoMore, Names, Says, Asks
      <3> QED BY <1>2, <3>1, KeptNames
    <2>2. CASE Next
      BY <1>2, <2>2, KeptNames, ClientNames, AdapterNames, ModemNames, AddNames DEF Next, LocApiStep
    <2> QED BY <1>2, <2>1, <2>2
  <1> QED BY <1>1, <1>2, TypedInvariant, ReuseStays, PTL DEF Spec


-----------------------------------------------------------------------------
(* The order of what is under way *)

\* How far an item has come: its command, its turn, its request to the modem,
\* the answer.  0 is for what belongs to no item.
MsgRank(m) == IF m.k = "done" THEN 5 ELSE IF m.k = "turn" THEN 3 ELSE IF m.k = "command" THEN 1 ELSE 0
ApiRank(c) == IF c.reply.k = "done" THEN 4 ELSE IF c.reply.k = "turn" THEN 2 ELSE 0

Before(p, q) == p.batch < q.batch \/ (p.batch = q.batch /\ p.item < q.item)

\* Items never overtake each other: what has come further is of an earlier item,
\* and a queue keeps what has come equally far in the items' order.
MsgOrdered ==
  \A m, n \in DOMAIN msgQ :
    /\ MsgRank(msgQ[m]) > 0 /\ MsgRank(msgQ[n]) > 0
    /\ MsgRank(msgQ[m]) > MsgRank(msgQ[n]) \/ (MsgRank(msgQ[m]) = MsgRank(msgQ[n]) /\ m < n)
    => Before(msgQ[m], msgQ[n])

ApiOrdered ==
  \A m, n \in DOMAIN apiQ :
    /\ ApiRank(apiQ[m]) > 0 /\ ApiRank(apiQ[n]) > 0
    /\ ApiRank(apiQ[m]) > ApiRank(apiQ[n]) \/ (ApiRank(apiQ[m]) = ApiRank(apiQ[n]) /\ m < n)
    => Before(apiQ[m].reply, apiQ[n].reply)

BothOrdered ==
  \A m \in DOMAIN msgQ, n \in DOMAIN apiQ :
    MsgRank(msgQ[m]) > 0 /\ ApiRank(apiQ[n]) > 0 =>
      /\ MsgRank(msgQ[m]) > ApiRank(apiQ[n]) => Before(msgQ[m], apiQ[n].reply)
      /\ MsgRank(msgQ[m]) < ApiRank(apiQ[n]) => Before(apiQ[n].reply, msgQ[m])

Ordered == /\ MsgOrdered /\ ApiOrdered /\ BothOrdered
           /\ \A n \in DOMAIN msgQ : msgQ[n].k = "command" => msgQ[n].item = 0

LEMMA RankFacts ==
  /\ \A m : /\ MsgRank(m) \in {0, 1, 3, 5} /\ (m.k = "done" <=> MsgRank(m) = 5)
            /\ (m.k = "turn" <=> MsgRank(m) = 3) /\ (m.k = "command" <=> MsgRank(m) = 1)
  /\ \A c : /\ ApiRank(c) \in {0, 2, 4} /\ (c.reply.k = "done" <=> ApiRank(c) = 4)
            /\ (c.reply.k = "turn" <=> ApiRank(c) = 2)
  BY DEF MsgRank, ApiRank

LEMMA NumberFacts ==
  ASSUME Typed
  PROVE  /\ \A n \in DOMAIN msgQ : msgQ[n].batch \in Nat /\ msgQ[n].item \in Nat /\ n \in Nat
         /\ \A n \in DOMAIN apiQ : apiQ[n].reply.batch \in Nat /\ apiQ[n].reply.item \in Nat /\ n \in Nat
         /\ \A n \in DOMAIN msgQ : MsgRank(msgQ[n]) > 0 => msgQ[n].batch \in DOMAIN batches
         /\ \A n \in DOMAIN apiQ : ApiRank(apiQ[n]) > 0 => apiQ[n].reply.batch \in DOMAIN batches
  <1>1. /\ msgQ \in Seq(Messages) /\ \A n \in DOMAIN msgQ : Proper(batches, msgQ[n])
        /\ apiQ \in Seq(Calls) /\ \A n \in DOMAIN apiQ : ProperCall(batches, apiQ[n])
    BY DEF Typed, MsgTyped, ApiTyped
  <1>2. \A m \in Messages : m.batch \in Nat /\ m.item \in Nat
    BY ConstantsAssumption DEF Messages
  <1>3. \A c \in Calls : c.reply \in Messages
    BY DEF Calls
  <1>4. \A n \in DOMAIN msgQ : MsgRank(msgQ[n]) > 0 => msgQ[n].batch \in DOMAIN batches
    BY <1>1 DEF Proper, Item, MsgRank
  <1>5. \A n \in DOMAIN apiQ : ApiRank(apiQ[n]) > 0 => apiQ[n].reply.batch \in DOMAIN batches
    <2> SUFFICES ASSUME NEW n \in DOMAIN apiQ, apiQ[n].reply.k \in {"done", "turn"}
                 PROVE  apiQ[n].reply.batch \in DOMAIN batches
      BY DEF ApiRank
    <2>0. apiQ[n] \in Calls /\ ProperCall(batches, apiQ[n])
      BY <1>1
    <2>1. ProperCall(batches, apiQ[n]) /\ apiQ[n].op \in Ops
      BY <2>0 DEF Calls
    <2> QED BY <2>1 DEF ProperCall, ForItem, ForSweep, ForRestart, ForPause, Item, Ops, Blank
  <1> QED BY <1>1, <1>2, <1>3, <1>4, <1>5

\* A queue that only loses what was at its head, and gains nothing of an item.
MsgDrops(d) == \A n \in DOMAIN msgQ' : /\ n \in Nat
                                       /\ \/ MsgRank(msgQ'[n]) = 0
                                          \/ n + d \in DOMAIN msgQ /\ msgQ'[n] = msgQ[n + d]
ApiDrops(d) == \A n \in DOMAIN apiQ' : /\ n \in Nat
                                       /\ \/ ApiRank(apiQ'[n]) = 0
                                          \/ n + d \in DOMAIN apiQ /\ apiQ'[n] = apiQ[n + d]

LEMMA DropsOrdered ==
  ASSUME Typed, Ordered, NEW d \in {0, 1}, NEW e \in {0, 1}, MsgDrops(d), ApiDrops(e)
  PROVE  Ordered'
  <1>1. MsgOrdered'
    <2> SUFFICES ASSUME NEW m \in DOMAIN msgQ', NEW n \in DOMAIN msgQ',
                        MsgRank(msgQ'[m]) > 0, MsgRank(msgQ'[n]) > 0,
                        MsgRank(msgQ'[m]) > MsgRank(msgQ'[n]) \/ (MsgRank(msgQ'[m]) = MsgRank(msgQ'[n]) /\ m < n)
                 PROVE  Before(msgQ'[m], msgQ'[n])
      BY DEF MsgOrdered
    <2>1. /\ m + d \in DOMAIN msgQ /\ n + d \in DOMAIN msgQ /\ msgQ'[m] = msgQ[m + d] /\ msgQ'[n] = msgQ[n + d]
          /\ m < n => m + d < n + d
      BY DEF MsgDrops
    <2> QED BY <2>1 DEF Ordered, MsgOrdered
  <1>2. ApiOrdered'
    <2> SUFFICES ASSUME NEW m \in DOMAIN apiQ', NEW n \in DOMAIN apiQ',
                        ApiRank(apiQ'[m]) > 0, ApiRank(apiQ'[n]) > 0,
                        ApiRank(apiQ'[m]) > ApiRank(apiQ'[n]) \/ (ApiRank(apiQ'[m]) = ApiRank(apiQ'[n]) /\ m < n)
                 PROVE  Before(apiQ'[m].reply, apiQ'[n].reply)
      BY DEF ApiOrdered
    <2>1. /\ m + e \in DOMAIN apiQ /\ n + e \in DOMAIN apiQ /\ apiQ'[m] = apiQ[m + e] /\ apiQ'[n] = apiQ[n + e]
          /\ m < n => m + e < n + e
      BY DEF ApiDrops
    <2> QED BY <2>1 DEF Ordered, ApiOrdered
  <1>3. BothOrdered'
    BY DEF MsgDrops, ApiDrops, Ordered, BothOrdered
  <1>4. \A n \in DOMAIN msgQ' : msgQ'[n].k = "command" => msgQ'[n].item = 0
    BY RankFacts DEF MsgDrops, Ordered
  <1> QED BY <1>1, <1>2, <1>3, <1>4 DEF Ordered

\* What is new at the end of the adapter's queue, after all else by rank and order.
LEMMA NewMsgOrdered ==
  ASSUME Typed, Ordered, NEW x, NEW e \in {0, 1}, ApiDrops(e), MsgRank(x) > 0,
         \A n \in DOMAIN msgQ' : \/ n \in DOMAIN msgQ /\ n < Len(msgQ) + 1 /\ msgQ'[n] = msgQ[n]
                                 \/ n = Len(msgQ) + 1 /\ msgQ'[n] = x,
         x.k = "command" => x.item = 0,
         \A n \in DOMAIN msgQ : MsgRank(msgQ[n]) > 0 =>
           /\ MsgRank(msgQ[n]) >= MsgRank(x) => Before(msgQ[n], x)
           /\ MsgRank(msgQ[n]) < MsgRank(x) => Before(x, msgQ[n]),
         \A n \in DOMAIN apiQ' : ApiRank(apiQ'[n]) > 0 =>
           /\ ApiRank(apiQ'[n]) > MsgRank(x) => Before(apiQ'[n].reply, x)
           /\ ApiRank(apiQ'[n]) < MsgRank(x) => Before(x, apiQ'[n].reply)
  PROVE  Ordered'
  <1> DEFINE L == Len(msgQ) + 1
  <1>0. L \in Nat /\ \A n \in DOMAIN msgQ : n \in Nat /\ n < L
    BY DEF Typed, MsgTyped
  <1>r. \A m : MsgRank(m) \in Nat
    BY RankFacts
  <1> HIDE DEF L
  <1>1. MsgOrdered'
    <2> SUFFICES ASSUME NEW m \in DOMAIN msgQ', NEW n \in DOMAIN msgQ',
                        MsgRank(msgQ'[m]) > 0, MsgRank(msgQ'[n]) > 0,
                        MsgRank(msgQ'[m]) > MsgRank(msgQ'[n]) \/ (MsgRank(msgQ'[m]) = MsgRank(msgQ'[n]) /\ m < n)
                 PROVE  Before(msgQ'[m], msgQ'[n])
      BY DEF MsgOrdered
    <2>1. CASE m \in DOMAIN msgQ /\ msgQ'[m] = msgQ[m] /\ n \in DOMAIN msgQ /\ msgQ'[n] = msgQ[n]
      BY <2>1 DEF Ordered, MsgOrdered
    <2>2. CASE m \in DOMAIN msgQ /\ msgQ'[m] = msgQ[m] /\ n = L /\ msgQ'[n] = x
      BY <1>0, <1>r, <2>2
    <2>3. CASE m = L /\ msgQ'[m] = x /\ n \in DOMAIN msgQ /\ msgQ'[n] = msgQ[n]
      BY <1>0, <1>r, <2>3
    <2>4. ~ (m = L /\ n = L)
      BY <1>0, <1>r
    <2> QED BY <2>1, <2>2, <2>3, <2>4 DEF L
  <1>2. ApiOrdered'
    <2> SUFFICES ASSUME NEW m \in DOMAIN apiQ', NEW n \in DOMAIN apiQ',
                        ApiRank(apiQ'[m]) > 0, ApiRank(apiQ'[n]) > 0,
                        ApiRank(apiQ'[m]) > ApiRank(apiQ'[n]) \/ (ApiRank(apiQ'[m]) = ApiRank(apiQ'[n]) /\ m < n)
                 PROVE  Before(apiQ'[m].reply, apiQ'[n].reply)
      BY DEF ApiOrdered
    <2>1. /\ m + e \in DOMAIN apiQ /\ n + e \in DOMAIN apiQ /\ apiQ'[m] = apiQ[m + e] /\ apiQ'[n] = apiQ[n + e]
          /\ m < n => m + e < n + e
      BY DEF ApiDrops
    <2> QED BY <2>1 DEF Ordered, ApiOrdered
  <1>3. BothOrdered'
    BY DEF ApiDrops, Ordered, BothOrdered
  <1>4. \A n \in DOMAIN msgQ' : msgQ'[n].k = "command" => msgQ'[n].item = 0
    BY DEF Ordered
  <1> QED BY <1>1, <1>2, <1>3, <1>4 DEF Ordered

\* What is new at the end of the LocApi queue, all of the same rank.
LEMMA NewCallsOrdered ==
  ASSUME Typed, Ordered, NEW s \in Seq(Calls), Request(s), NEW r \in {2, 4}, MsgDrops(1),
         \A n \in DOMAIN s : ApiRank(s[n]) = r,
         \A m, n \in DOMAIN s : m < n => Before(s[m].reply, s[n].reply),
         \A k \in DOMAIN s : /\ \A n \in DOMAIN apiQ : ApiRank(apiQ[n]) > 0 =>
                                  /\ ApiRank(apiQ[n]) >= r => Before(apiQ[n].reply, s[k].reply)
                                  /\ ApiRank(apiQ[n]) < r => Before(s[k].reply, apiQ[n].reply)
                             /\ \A n \in DOMAIN msgQ' : MsgRank(msgQ'[n]) > 0 =>
                                  /\ MsgRank(msgQ'[n]) > r => Before(msgQ'[n], s[k].reply)
                                  /\ MsgRank(msgQ'[n]) < r => Before(s[k].reply, msgQ'[n])
  PROVE  Ordered'
  <1> DEFINE L == Len(apiQ)
  <1>0. L \in Nat /\ \A n \in DOMAIN apiQ : n \in Nat /\ n <= L
    BY DEF Typed, ApiTyped
  <1>1. \A n \in DOMAIN apiQ' : /\ n \in Nat
                                /\ \/ n \in DOMAIN apiQ /\ apiQ'[n] = apiQ[n] /\ n <= L
                                   \/ n - L \in DOMAIN s /\ n > L /\ apiQ'[n] = s[n - L]
    BY DEF Request, Typed, ApiTyped
  <1>r. \A c : ApiRank(c) \in Nat
    BY RankFacts
  <1> HIDE DEF L
  <1>2. MsgOrdered'
    <2> SUFFICES ASSUME NEW m \in DOMAIN msgQ', NEW n \in DOMAIN msgQ',
                        MsgRank(msgQ'[m]) > 0, MsgRank(msgQ'[n]) > 0,
                        MsgRank(msgQ'[m]) > MsgRank(msgQ'[n]) \/ (MsgRank(msgQ'[m]) = MsgRank(msgQ'[n]) /\ m < n)
                 PROVE  Before(msgQ'[m], msgQ'[n])
      BY DEF MsgOrdered
    <2>1. /\ m + 1 \in DOMAIN msgQ /\ n + 1 \in DOMAIN msgQ /\ msgQ'[m] = msgQ[m + 1] /\ msgQ'[n] = msgQ[n + 1]
          /\ m < n => m + 1 < n + 1
      BY DEF MsgDrops
    <2> QED BY <2>1 DEF Ordered, MsgOrdered
  <1>3. ApiOrdered'
    <2> SUFFICES ASSUME NEW m \in DOMAIN apiQ', NEW n \in DOMAIN apiQ',
                        ApiRank(apiQ'[m]) > 0, ApiRank(apiQ'[n]) > 0,
                        ApiRank(apiQ'[m]) > ApiRank(apiQ'[n]) \/ (ApiRank(apiQ'[m]) = ApiRank(apiQ'[n]) /\ m < n)
                 PROVE  Before(apiQ'[m].reply, apiQ'[n].reply)
      BY DEF ApiOrdered
    <2>1. CASE m \in DOMAIN apiQ /\ apiQ'[m] = apiQ[m] /\ n \in DOMAIN apiQ /\ apiQ'[n] = apiQ[n]
      BY <2>1 DEF Ordered, ApiOrdered
    <2>2. CASE m \in DOMAIN apiQ /\ apiQ'[m] = apiQ[m] /\ n - L \in DOMAIN s /\ apiQ'[n] = s[n - L]
      BY <1>r, <2>2
    <2>3. CASE /\ m - L \in DOMAIN s /\ m > L /\ apiQ'[m] = s[m - L]
               /\ n \in DOMAIN apiQ /\ n <= L /\ apiQ'[n] = apiQ[n]
      <3>1. m > n /\ n \in Nat /\ m \in Nat
        BY <1>0, <1>1, <2>3
      <3> QED BY <1>r, <2>3, <3>1
    <2>4. CASE m - L \in DOMAIN s /\ apiQ'[m] = s[m - L] /\ n - L \in DOMAIN s /\ apiQ'[n] = s[n - L]
      <3>1. m \in Nat /\ n \in Nat /\ m < n /\ m - L < n - L
        BY <1>0, <1>1, <1>r, <2>4
      <3> QED BY <2>4, <3>1
    <2> QED BY <1>1, <2>1, <2>2, <2>3, <2>4
  <1>4. BothOrdered'
    <2> SUFFICES ASSUME NEW m \in DOMAIN msgQ', NEW n \in DOMAIN apiQ',
                        MsgRank(msgQ'[m]) > 0, ApiRank(apiQ'[n]) > 0
                 PROVE  /\ MsgRank(msgQ'[m]) > ApiRank(apiQ'[n]) => Before(msgQ'[m], apiQ'[n].reply)
                        /\ MsgRank(msgQ'[m]) < ApiRank(apiQ'[n]) => Before(apiQ'[n].reply, msgQ'[m])
      BY DEF BothOrdered
    <2>1. CASE n \in DOMAIN apiQ /\ apiQ'[n] = apiQ[n]
      BY <2>1 DEF MsgDrops, Ordered, BothOrdered
    <2>2. CASE n - L \in DOMAIN s /\ apiQ'[n] = s[n - L]
      BY <2>2
    <2> QED BY <1>1, <2>1, <2>2
  <1>5. \A n \in DOMAIN msgQ' : msgQ'[n].k = "command" => msgQ'[n].item = 0
    BY RankFacts DEF MsgDrops, Ordered
  <1> QED BY <1>2, <1>3, <1>4, <1>5 DEF Ordered


\* A message or a request to the modem that is on its way for item i of batch b.
MsgHolds(m, b, i) == MsgRank(m) > 0 /\ m.batch = b /\ (m.item = i \/ m.k = "command")
ApiHolds(c, b, i) == ApiRank(c) > 0 /\ c.reply.batch = b /\ c.reply.item = i

LastOf(b) == Len(batches[b].ids)

\* Item i of batch b is still under way.
Pending(b, i) ==
  \/ \E n \in DOMAIN msgQ : MsgHolds(msgQ[n], b, i)
  \/ \E n \in DOMAIN apiQ : ApiHolds(apiQ[n], b, i)

\* Nothing starts and nothing ends ...
SamePending == \A b \in DOMAIN batches : \A i \in Items(b) : Pending(b, i)' <=> Pending(b, i)
\* ... or one item ends.
EndsPending(c, j) == /\ ~ Pending(c, j)' /\ Pending(c, j)
                     /\ \A b, i : b # c \/ i # j => (Pending(b, i)' <=> Pending(b, i))

MsgLoses(d) == MsgDrops(d) /\ \A n \in DOMAIN msgQ : n > d => n - d \in DOMAIN msgQ' /\ msgQ'[n - d] = msgQ[n]
ApiLoses(d) == ApiDrops(d) /\ \A n \in DOMAIN apiQ : n > d => n - d \in DOMAIN apiQ' /\ apiQ'[n - d] = apiQ[n]

LEMMA LosesFacts ==
  ASSUME Typed
  PROVE  /\ UNCHANGED msgQ => MsgLoses(0)
         /\ UNCHANGED apiQ => ApiLoses(0)
         /\ msgQ # << >> /\ msgQ' = Tail(msgQ) => MsgLoses(1) /\ msg = msgQ[1] /\ 1 \in DOMAIN msgQ
         /\ apiQ # << >> /\ apiQ' = Tail(apiQ) => ApiLoses(1) /\ Head(apiQ) = apiQ[1] /\ 1 \in DOMAIN apiQ
         /\ \A m \in Messages : MsgRank(m) = 0 /\ msgQ' = Append(msgQ, m) => MsgLoses(0)
         /\ \A s \in Seq(Calls) : (\A n \in DOMAIN s : ApiRank(s[n]) = 0) /\ Request(s) => ApiLoses(0)
  <1>1. msgQ \in Seq(Messages) /\ apiQ \in Seq(Calls)
    BY DEF Typed, MsgTyped, ApiTyped
  <1>2. UNCHANGED msgQ => MsgLoses(0)
    BY <1>1 DEF MsgLoses, MsgDrops
  <1>3. UNCHANGED apiQ => ApiLoses(0)
    BY <1>1 DEF ApiLoses, ApiDrops
  <1>4. msgQ # << >> /\ msgQ' = Tail(msgQ) => MsgLoses(1) /\ msg = msgQ[1] /\ 1 \in DOMAIN msgQ
    BY <1>1, TailFacts DEF MsgLoses, MsgDrops, msg
  <1>5. apiQ # << >> /\ apiQ' = Tail(apiQ) => ApiLoses(1) /\ Head(apiQ) = apiQ[1] /\ 1 \in DOMAIN apiQ
    BY <1>1, TailFacts DEF ApiLoses, ApiDrops
  <1>6. ASSUME NEW m \in Messages, MsgRank(m) = 0, msgQ' = Append(msgQ, m)
        PROVE  MsgLoses(0)
    BY <1>1, <1>6, AppendFacts DEF MsgLoses, MsgDrops
  <1>7. ASSUME NEW s \in Seq(Calls), \A n \in DOMAIN s : ApiRank(s[n]) = 0, Request(s)
        PROVE  ApiLoses(0)
    <2>1. apiQ' = apiQ \o s
      BY <1>7 DEF Request
    <2>2. /\ \A n \in DOMAIN apiQ : n \in Nat /\ (apiQ \o s)[n] = apiQ[n] /\ n \in DOMAIN (apiQ \o s)
          /\ \A n \in DOMAIN (apiQ \o s) : n \in Nat /\ (n \in DOMAIN apiQ \/ \E k \in DOMAIN s : (apiQ \o s)[n] = s[k])
      BY <1>1
    <2> QED BY <1>7, <2>1, <2>2 DEF ApiLoses, ApiDrops
  <1> QED BY <1>2, <1>3, <1>4, <1>5, <1>6, <1>7

\* Steps about no item.
LEMMA QuietPending ==
  ASSUME Typed, Ordered, NEW d \in {0, 1}, NEW e \in {0, 1}, MsgLoses(d), ApiLoses(e),
         d = 1 => MsgRank(msgQ[1]) = 0, e = 1 => ApiRank(apiQ[1]) = 0
  PROVE  Ordered' /\ \A b, i : Pending(b, i)' <=> Pending(b, i)
  <1>1. Ordered'
    BY DropsOrdered DEF MsgLoses, ApiLoses
  <1>2. ASSUME NEW b, NEW i, Pending(b, i)'
        PROVE  Pending(b, i)
    BY <1>2 DEF Pending, MsgHolds, ApiHolds, MsgLoses, ApiLoses, MsgDrops, ApiDrops
  <1>3. ASSUME NEW b, NEW i, Pending(b, i)
        PROVE  Pending(b, i)'
    <2>1. ASSUME NEW n \in DOMAIN msgQ, MsgHolds(msgQ[n], b, i)
          PROVE  Pending(b, i)'
      <3>1. n > d
        <4>1. n \in Nat /\ n # 0 /\ (d = 1 => n # 1)
          BY <2>1 DEF MsgHolds, Typed, MsgTyped
        <4> QED BY <4>1
      <3> QED BY <2>1, <3>1 DEF MsgLoses, Pending
    <2>2. ASSUME NEW n \in DOMAIN apiQ, ApiHolds(apiQ[n], b, i)
          PROVE  Pending(b, i)'
      <3>1. n > e
        <4>1. n \in Nat /\ n # 0 /\ (e = 1 => n # 1)
          BY <2>2 DEF ApiHolds, Typed, ApiTyped
        <4> QED BY <4>1
      <3> QED BY <2>2, <3>1 DEF ApiLoses, Pending
    <2> QED BY <1>3, <2>1, <2>2 DEF Pending
  <1> QED BY <1>1, <1>2, <1>3

\* A handler that is done with an item.
LEMMA UsedPending ==
  ASSUME Typed, Ordered, msgQ # << >>, msgQ' = Tail(msgQ), UNCHANGED apiQ, msg.k \in {"turn", "done"},
         NEW c, NEW j, c = msg.batch, j = msg.item
  PROVE  Ordered' /\ EndsPending(c, j)
  <1>1. MsgLoses(1) /\ ApiLoses(0) /\ msg = msgQ[1] /\ 1 \in DOMAIN msgQ
    BY LosesFacts
  <1>2. Ordered'
    BY <1>1, DropsOrdered DEF MsgLoses, ApiLoses
  <1>3. MsgRank(msg) \in {3, 5} /\ MsgHolds(msg, c, j)
    BY RankFacts DEF MsgHolds
  <1>4. Pending(c, j)
    BY <1>1, <1>3 DEF Pending
  <1>5. ~ Pending(c, j)'
    <2>1. ASSUME NEW n \in DOMAIN msgQ', MsgHolds(msgQ'[n], c, j)
          PROVE  FALSE
      <3> DEFINE y == msgQ[n + 1]
      <3>1. /\ n + 1 \in DOMAIN msgQ /\ msgQ'[n] = y /\ n + 1 > 1
            /\ MsgRank(y) > 0 /\ y.batch = msg.batch /\ (y.item = msg.item \/ y.k = "command")
        BY <1>1, <2>1, TailFacts DEF MsgHolds, Typed, MsgTyped
      <3>2. MsgRank(y) > MsgRank(msg) \/ MsgRank(msg) >= MsgRank(y)
        BY <1>3, RankFacts
      <3>3. Before(y, msg) \/ Before(msg, y)
        BY <1>1, <1>3, <3>1, <3>2, RankFacts DEF Ordered, MsgOrdered
      <3>4. y.k = "command" => ~ Before(y, msg) /\ y.item = 0
        BY <1>1, <1>3, <3>1, RankFacts, NumberFacts DEF Ordered, MsgOrdered, Before
      <3> QED BY <1>1, <3>1, <3>3, <3>4, NumberFacts DEF Before
    <2>2. ASSUME NEW n \in DOMAIN apiQ, ApiHolds(apiQ[n], c, j)
          PROVE  FALSE
      <3>1. ApiRank(apiQ[n]) \in {2, 4} /\ apiQ[n].reply.batch = msg.batch /\ apiQ[n].reply.item = msg.item
        BY <2>2, RankFacts DEF ApiHolds
      <3>2. Before(apiQ[n].reply, msg) \/ Before(msg, apiQ[n].reply)
        BY <1>1, <1>3, <3>1 DEF Ordered, BothOrdered
      <3> QED BY <1>1, <3>1, <3>2, NumberFacts DEF Before
    <2> QED BY <2>1, <2>2 DEF Pending
  <1>6. ASSUME NEW b, NEW i, b # c \/ i # j
        PROVE  Pending(b, i)' <=> Pending(b, i)
    <2>1. Pending(b, i)' => Pending(b, i)
      BY <1>1, RankFacts DEF Pending, MsgLoses, MsgDrops, MsgHolds
    <2>2. ASSUME NEW n \in DOMAIN msgQ, MsgHolds(msgQ[n], b, i)
          PROVE  Pending(b, i)'
      <3>1. n > 1
        <4>1. n \in Nat /\ n # 0 /\ n # 1
          BY <1>1, <1>3, <1>6, <2>2, RankFacts DEF MsgHolds, Typed, MsgTyped
        <4> QED BY <4>1
      <3> QED BY <1>1, <2>2, <3>1 DEF MsgLoses, Pending
    <2>3. ASSUME NEW n \in DOMAIN apiQ, ApiHolds(apiQ[n], b, i)
          PROVE  Pending(b, i)'
      BY <2>3 DEF Pending
    <2> QED BY <2>1, <2>2, <2>3 DEF Pending
  <1> QED BY <1>2, <1>4, <1>5, <1>6 DEF EndsPending

\* The adapter asks the modem for an item whose turn it is.
LEMMA AskPending ==
  ASSUME Typed, Ordered, msgQ # << >>, msgQ' = Tail(msgQ), msg.k = "turn", NEW c \in Calls, Request(<<c>>),
         c.reply.k = "done", c.reply.batch = msg.batch, c.reply.item = msg.item
  PROVE  Ordered' /\ \A b, i : Pending(b, i)' <=> Pending(b, i)
  <1>1. MsgLoses(1) /\ msg = msgQ[1] /\ 1 \in DOMAIN msgQ
    BY LosesFacts
  <1>2. MsgRank(msg) = 3 /\ ApiRank(c) = 4 /\ msg.k # "command"
    BY RankFacts
  <1>3. /\ \A n \in DOMAIN apiQ : ApiRank(apiQ[n]) > 0 =>
             /\ ApiRank(apiQ[n]) >= 4 => Before(apiQ[n].reply, c.reply)
             /\ ApiRank(apiQ[n]) < 4 => Before(c.reply, apiQ[n].reply)
        /\ \A n \in DOMAIN msgQ' : MsgRank(msgQ'[n]) > 0 =>
             /\ MsgRank(msgQ'[n]) > 4 => Before(msgQ'[n], c.reply)
             /\ MsgRank(msgQ'[n]) < 4 => Before(c.reply, msgQ'[n])
    <2>1. ASSUME NEW n \in DOMAIN apiQ, ApiRank(apiQ[n]) > 0
          PROVE  /\ ApiRank(apiQ[n]) >= 4 => Before(apiQ[n].reply, c.reply)
                 /\ ApiRank(apiQ[n]) < 4 => Before(c.reply, apiQ[n].reply)
      BY <1>1, <1>2, <2>1, RankFacts DEF Ordered, BothOrdered, Before
    <2>2. ASSUME NEW n \in DOMAIN msgQ', MsgRank(msgQ'[n]) > 0
          PROVE  /\ MsgRank(msgQ'[n]) > 4 => Before(msgQ'[n], c.reply)
                 /\ MsgRank(msgQ'[n]) < 4 => Before(c.reply, msgQ'[n])
      <3>1. n + 1 \in DOMAIN msgQ /\ n + 1 > 1 /\ msgQ'[n] = msgQ[n + 1]
        BY TailFacts DEF Typed, MsgTyped
      <3> QED BY <1>1, <1>2, <2>2, <3>1, RankFacts DEF Ordered, MsgOrdered, Before
    <2> QED BY <2>1, <2>2
  <1>4. Ordered'
    <2> DEFINE s == <<c>>
    <2>1. s \in Seq(Calls) /\ Request(s) /\ \A n \in DOMAIN s : s[n] = c /\ n = 1
      OBVIOUS
    <2> HIDE DEF s
    <2>2. MsgDrops(1) /\ 4 \in {2, 4} /\ \A n \in DOMAIN s : ApiRank(s[n]) = 4 /\ s[n].reply = c.reply
      BY <1>1, <1>2, <2>1 DEF MsgLoses
    <2>3. \A m, n \in DOMAIN s : m < n => Before(s[m].reply, s[n].reply)
      BY <2>1
    <2> QED BY <1>3, <2>1, <2>2, <2>3, NewCallsOrdered
  <1>5. /\ \A n \in DOMAIN apiQ : n \in DOMAIN apiQ' /\ apiQ'[n] = apiQ[n]
        /\ \A n \in DOMAIN apiQ' : (n \in DOMAIN apiQ /\ apiQ'[n] = apiQ[n]) \/ apiQ'[n] = c
        /\ \E n \in DOMAIN apiQ' : apiQ'[n] = c
    <2>1. apiQ \in Seq(Calls) /\ apiQ' = apiQ \o <<c>>
      BY DEF Request, Typed, ApiTyped
    <2>2. apiQ' = Append(apiQ, c)
      BY <2>1
    <2>3. /\ DOMAIN apiQ' = DOMAIN apiQ \cup {Len(apiQ) + 1} /\ apiQ'[Len(apiQ) + 1] = c
          /\ \A n \in DOMAIN apiQ : apiQ'[n] = apiQ[n]
      BY <2>1, <2>2, AppendFacts
    <2> QED BY <2>3
  <1>6. ASSUME NEW b, NEW i, Pending(b, i)'
        PROVE  Pending(b, i)
    <2>1. ASSUME NEW n \in DOMAIN msgQ', MsgHolds(msgQ'[n], b, i)
          PROVE  Pending(b, i)
      BY <1>1, <2>1 DEF MsgLoses, MsgDrops, MsgHolds, Pending
    <2>2. ASSUME NEW n \in DOMAIN apiQ', ApiHolds(apiQ'[n], b, i)
          PROVE  Pending(b, i)
      BY <1>1, <1>2, <1>5, <2>2 DEF ApiHolds, MsgHolds, Pending
    <2> QED BY <1>6, <2>1, <2>2 DEF Pending
  <1>7. ASSUME NEW b, NEW i, Pending(b, i)
        PROVE  Pending(b, i)'
    <2>1. ASSUME NEW n \in DOMAIN msgQ, MsgHolds(msgQ[n], b, i), n # 1
          PROVE  Pending(b, i)'
      <3>1. n > 1
        BY <2>1 DEF Typed, MsgTyped
      <3> QED BY <1>1, <2>1, <3>1 DEF MsgLoses, Pending
    <2>2. ASSUME MsgHolds(msgQ[1], b, i)
          PROVE  Pending(b, i)'
      <3>1. ApiHolds(c, b, i)
        BY <1>1, <1>2, <2>2 DEF MsgHolds, ApiHolds
      <3> QED BY <1>5, <3>1 DEF Pending
    <2>3. ASSUME NEW n \in DOMAIN apiQ, ApiHolds(apiQ[n], b, i)
          PROVE  Pending(b, i)'
      BY <1>5, <2>3 DEF Pending
    <2> QED BY <1>7, <2>1, <2>2, <2>3 DEF Pending
  <1> QED BY <1>4, <1>6, <1>7

\* The LocApi thread gives a turn, or the modem an answer, to an item.
LEMMA ReplyPending ==
  ASSUME Typed, Ordered, apiQ # << >>, apiQ' = Tail(apiQ), NEW m \in Messages, msgQ' = Append(msgQ, m),
         Head(apiQ).reply.k \in {"turn", "done"}, m.k = Head(apiQ).reply.k,
         m.batch = Head(apiQ).reply.batch, m.item = Head(apiQ).reply.item
  PROVE  Ordered' /\ \A b, i : Pending(b, i)' <=> Pending(b, i)
  <1> DEFINE c == Head(apiQ)
  <1>1. ApiLoses(1) /\ c = apiQ[1] /\ 1 \in DOMAIN apiQ
    BY LosesFacts
  <1>2. MsgRank(m) = ApiRank(c) + 1 /\ ApiRank(c) \in {2, 4} /\ m.k # "command"
    BY RankFacts
  <1> HIDE DEF c
  <1>3. /\ \A n \in DOMAIN msgQ : MsgRank(msgQ[n]) > 0 =>
             /\ MsgRank(msgQ[n]) >= MsgRank(m) => Before(msgQ[n], m)
             /\ MsgRank(msgQ[n]) < MsgRank(m) => Before(m, msgQ[n])
        /\ \A n \in DOMAIN apiQ' : ApiRank(apiQ'[n]) > 0 =>
             /\ ApiRank(apiQ'[n]) > MsgRank(m) => Before(apiQ'[n].reply, m)
             /\ ApiRank(apiQ'[n]) < MsgRank(m) => Before(m, apiQ'[n].reply)
    <2>1. ASSUME NEW n \in DOMAIN msgQ, MsgRank(msgQ[n]) > 0
          PROVE  /\ MsgRank(msgQ[n]) >= MsgRank(m) => Before(msgQ[n], m)
                 /\ MsgRank(msgQ[n]) < MsgRank(m) => Before(m, msgQ[n])
      BY <1>1, <1>2, <2>1, RankFacts DEF Ordered, BothOrdered, Before, c
    <2>2. ASSUME NEW n \in DOMAIN apiQ', ApiRank(apiQ'[n]) > 0
          PROVE  /\ ApiRank(apiQ'[n]) > MsgRank(m) => Before(apiQ'[n].reply, m)
                 /\ ApiRank(apiQ'[n]) < MsgRank(m) => Before(m, apiQ'[n].reply)
      <3>1. n + 1 \in DOMAIN apiQ /\ n + 1 > 1 /\ apiQ'[n] = apiQ[n + 1]
        BY TailFacts DEF Typed, ApiTyped
      <3> QED BY <1>1, <1>2, <2>2, <3>1, RankFacts DEF Ordered, ApiOrdered, Before, c
    <2> QED BY <2>1, <2>2
  <1>4. /\ \A n \in DOMAIN msgQ' : \/ n \in DOMAIN msgQ /\ n < Len(msgQ) + 1 /\ msgQ'[n] = msgQ[n]
                                   \/ n = Len(msgQ) + 1 /\ msgQ'[n] = m
        /\ \A n \in DOMAIN msgQ : n \in DOMAIN msgQ' /\ msgQ'[n] = msgQ[n]
        /\ Len(msgQ) + 1 \in DOMAIN msgQ' /\ msgQ'[Len(msgQ) + 1] = m
    BY AppendFacts DEF Typed, MsgTyped
  <1>5. Ordered'
    <2>1. ApiDrops(1) /\ MsgRank(m) > 0 /\ 1 \in {0, 1} /\ (m.k = "command" => m.item = 0)
      BY <1>1, <1>2 DEF ApiLoses
    <2> QED BY <1>3, <1>4, <2>1, NewMsgOrdered
  <1>6. ASSUME NEW b, NEW i, Pending(b, i)'
        PROVE  Pending(b, i)
    <2>1. ASSUME NEW n \in DOMAIN msgQ', MsgHolds(msgQ'[n], b, i)
          PROVE  Pending(b, i)
      <3>1. CASE n \in DOMAIN msgQ /\ msgQ'[n] = msgQ[n]
        BY <2>1, <3>1 DEF Pending
      <3>2. CASE msgQ'[n] = m
        BY <1>1, <1>2, <2>1, <3>2 DEF Pending, MsgHolds, ApiHolds, c
      <3> QED BY <1>4, <3>1, <3>2
    <2>2. ASSUME NEW n \in DOMAIN apiQ', ApiHolds(apiQ'[n], b, i)
          PROVE  Pending(b, i)
      BY <1>1, <2>2 DEF ApiLoses, ApiDrops, ApiHolds, Pending
    <2> QED BY <1>6, <2>1, <2>2 DEF Pending
  <1>7. ASSUME NEW b, NEW i, Pending(b, i)
        PROVE  Pending(b, i)'
    <2>1. ASSUME NEW n \in DOMAIN apiQ, ApiHolds(apiQ[n], b, i), n # 1
          PROVE  Pending(b, i)'
      <3>1. n > 1
        BY <2>1 DEF Typed, ApiTyped
      <3> QED BY <1>1, <2>1, <3>1 DEF ApiLoses, Pending
    <2>2. ASSUME ApiHolds(apiQ[1], b, i)
          PROVE  Pending(b, i)'
      <3>1. MsgHolds(m, b, i)
        BY <1>1, <1>2, <2>2 DEF MsgHolds, ApiHolds, c
      <3> QED BY <1>4, <3>1 DEF Pending
    <2>3. ASSUME NEW n \in DOMAIN msgQ, MsgHolds(msgQ[n], b, i)
          PROVE  Pending(b, i)'
      BY <1>4, <2>3 DEF Pending
    <2> QED BY <1>7, <2>1, <2>2, <2>3 DEF Pending
  <1> QED BY <1>5, <1>6, <1>7


\* Every fence of a batch gets in line for its turn.
LEMMA StartPending ==
  ASSUME Typed, Ordered, StartBatch
  PROVE  Ordered' /\ SamePending
  <1> DEFINE b == msg.batch
             s == [i \in Items(b) |-> Call("turn", 0, NoFence, Of("turn", b, i))]
  <1>1. MsgLoses(1) /\ msg = msgQ[1] /\ 1 \in DOMAIN msgQ /\ msg.k = "command" /\ Request(s)
    BY LosesFacts DEF StartBatch, Receive
  <1>2. /\ b \in DOMAIN batches /\ b \in Nat /\ b \in 1 .. MaxCommands /\ msg.item = 0
        /\ Items(b) = 1 .. LastOf(b) /\ LastOf(b) \in Nat /\ LastOf(b) <= MaxBatch
    <2>1. b \in DOMAIN batches /\ msg.item = 0
      BY <1>1, MsgProper DEF Typed, Proper, Ordered
    <2>2. batches[b].ids \in Seq(Ids) /\ b \in 1 .. MaxCommands /\ b \in Nat
      <3>1. batches \in Seq(Commands) /\ Len(batches) <= MaxCommands /\ MaxCommands \in Nat
        BY ConstantsAssumption DEF Typed, BatchesTyped
      <3>2. batches[b] \in Commands /\ b \in 1 .. MaxCommands /\ b \in Nat
        <4> HIDE DEF b
        <4> QED BY <2>1, <3>1
      <3> QED BY <3>2 DEF Commands
    <2> QED BY <2>1, <2>2, ConstantsAssumption DEF Typed, BatchesTyped, Items, LastOf
  <1>3. ASSUME NEW i \in Items(b)
        PROVE  /\ s[i] \in Calls /\ ApiRank(s[i]) = 2 /\ s[i].reply.batch = b /\ s[i].reply.item = i
               /\ i \in Nat /\ i > 0
    <2>1. i \in 0 .. MaxBatch /\ i \in Nat /\ i > 0 /\ "turn" \in Kinds
      BY <1>2, ConstantsAssumption DEF Kinds
    <2> DEFINE r == Of("turn", b, i)
    <2>2. r \in Messages /\ r.k = "turn" /\ r.batch = b /\ r.item = i
      BY <1>2, <2>1, OfTyped
    <2> HIDE DEF r
    <2>3. Call("turn", 0, NoFence, r) \in Calls /\ Call("turn", 0, NoFence, r).reply = r
      BY <2>2, BlankTyped DEF Calls, Call, Ops
    <2>4. s[i] = Call("turn", 0, NoFence, r)
      BY DEF r
    <2> QED BY <2>1, <2>2, <2>3, <2>4, RankFacts
  <1>4. s \in Seq(Calls) /\ DOMAIN s = Items(b)
    BY <1>2, <1>3
  <1> HIDE DEF s, b
  <1>5. MsgRank(msg) = 1
    BY <1>1, RankFacts
  <1>6. ASSUME NEW k \in DOMAIN s
        PROVE  /\ \A n \in DOMAIN apiQ : ApiRank(apiQ[n]) > 0 =>
                    /\ ApiRank(apiQ[n]) >= 2 => Before(apiQ[n].reply, s[k].reply)
                    /\ ApiRank(apiQ[n]) < 2 => Before(s[k].reply, apiQ[n].reply)
               /\ \A n \in DOMAIN msgQ' : MsgRank(msgQ'[n]) > 0 =>
                    /\ MsgRank(msgQ'[n]) > 2 => Before(msgQ'[n], s[k].reply)
                    /\ MsgRank(msgQ'[n]) < 2 => Before(s[k].reply, msgQ'[n])
    <2>1. s[k].reply.batch = msg.batch /\ s[k].reply.item \in Nat /\ s[k].reply.item > 0 /\ msg.item = 0
      BY <1>2, <1>3, <1>4 DEF b
    <2>2. ASSUME NEW n \in DOMAIN apiQ, ApiRank(apiQ[n]) > 0
          PROVE  ApiRank(apiQ[n]) \in {2, 4} /\ Before(apiQ[n].reply, s[k].reply)
      <3>1. ApiRank(apiQ[n]) \in {2, 4}
        BY <2>2, RankFacts
      <3>2. Before(apiQ[n].reply, msg)
        BY <1>1, <1>5, <3>1 DEF Ordered, BothOrdered
      <3> QED BY <1>1, <2>1, <3>1, <3>2, NumberFacts DEF Before
    <2>3. ASSUME NEW n \in DOMAIN msgQ', MsgRank(msgQ'[n]) > 0
          PROVE  /\ MsgRank(msgQ'[n]) > 2 => Before(msgQ'[n], s[k].reply)
                 /\ MsgRank(msgQ'[n]) < 2 => Before(s[k].reply, msgQ'[n])
      <3>1. n + 1 \in DOMAIN msgQ /\ n + 1 > 1 /\ msgQ'[n] = msgQ[n + 1]
        BY <1>1, <2>3 DEF MsgLoses, MsgDrops, StartBatch, Receive, Typed, MsgTyped
      <3>2. MsgRank(msgQ'[n]) > 2 => Before(msgQ'[n], msg)
        <4>1. MsgRank(msgQ'[n]) > 2 => MsgRank(msgQ[n + 1]) > MsgRank(msgQ[1])
          BY <1>1, <1>5, <3>1, RankFacts
        <4> QED BY <1>1, <1>5, <2>3, <3>1, <4>1 DEF Ordered, MsgOrdered
      <3>3. MsgRank(msgQ'[n]) < 2 => Before(msg, msgQ'[n]) /\ msgQ'[n].item = 0
        BY <1>1, <1>5, <2>3, <3>1, RankFacts DEF Ordered, MsgOrdered
      <3> QED BY <1>1, <2>1, <3>1, <3>2, <3>3, NumberFacts DEF Before
    <2> QED BY <2>2, <2>3
  <1>7. Ordered'
    <2>1. \A n \in DOMAIN s : ApiRank(s[n]) = 2
      BY <1>3, <1>4
    <2>2. \A m, n \in DOMAIN s : m < n => Before(s[m].reply, s[n].reply)
      BY <1>3, <1>4 DEF Before
    <2>3. MsgDrops(1) /\ 2 \in {2, 4}
      BY <1>1 DEF MsgLoses
    <2> QED BY <1>1, <1>4, <1>6, <2>1, <2>2, <2>3, NewCallsOrdered
  <1>8. /\ \A n \in DOMAIN apiQ : n \in DOMAIN apiQ' /\ apiQ'[n] = apiQ[n]
        /\ \A n \in DOMAIN apiQ' : (n \in DOMAIN apiQ /\ apiQ'[n] = apiQ[n]) \/ \E i \in DOMAIN s : apiQ'[n] = s[i]
        /\ \A i \in DOMAIN s : \E n \in DOMAIN apiQ' : apiQ'[n] = s[i]
    <2>1. apiQ \in Seq(Calls) /\ apiQ' = apiQ \o s
      BY <1>1 DEF Request, Typed, ApiTyped
    <2>2. /\ \A n \in DOMAIN apiQ : n \in DOMAIN (apiQ \o s) /\ (apiQ \o s)[n] = apiQ[n]
          /\ \A n \in DOMAIN s : n + Len(apiQ) \in DOMAIN (apiQ \o s) /\ (apiQ \o s)[n + Len(apiQ)] = s[n]
          /\ \A n \in DOMAIN (apiQ \o s) : n \in DOMAIN apiQ \/ (n - Len(apiQ) \in DOMAIN s)
      BY <1>4, <2>1, ConcatFacts
    <2>3. \A n \in DOMAIN (apiQ \o s) : n \notin DOMAIN apiQ => (apiQ \o s)[n] = s[n - Len(apiQ)]
      BY <1>4, <2>1
    <2> QED BY <2>1, <2>2, <2>3
  <1>9. ASSUME NEW a \in DOMAIN batches, NEW i \in Items(a), Pending(a, i)'
        PROVE  Pending(a, i)
    <2>1. ASSUME NEW n \in DOMAIN msgQ', MsgHolds(msgQ'[n], a, i)
          PROVE  Pending(a, i)
      BY <1>1, <2>1 DEF MsgLoses, MsgDrops, MsgHolds, Pending
    <2>2. ASSUME NEW n \in DOMAIN apiQ', ApiHolds(apiQ'[n], a, i)
          PROVE  Pending(a, i)
      <3>1. CASE n \in DOMAIN apiQ /\ apiQ'[n] = apiQ[n]
        BY <2>2, <3>1 DEF Pending
      <3>2. ASSUME NEW j \in DOMAIN s, apiQ'[n] = s[j]
            PROVE  Pending(a, i)
        BY <1>1, <1>3, <1>4, <1>5, <2>2, <3>2 DEF Pending, ApiHolds, MsgHolds, b
      <3> QED BY <1>8, <3>1, <3>2
    <2> QED BY <1>9, <2>1, <2>2 DEF Pending
  <1>10. ASSUME NEW a \in DOMAIN batches, NEW i \in Items(a), Pending(a, i)
         PROVE  Pending(a, i)'
    <2>1. ASSUME NEW n \in DOMAIN msgQ, MsgHolds(msgQ[n], a, i), n # 1
          PROVE  Pending(a, i)'
      <3>1. n > 1
        BY <2>1 DEF Typed, MsgTyped
      <3> QED BY <1>1, <2>1, <3>1 DEF MsgLoses, Pending
    <2>2. ASSUME MsgHolds(msgQ[1], a, i)
          PROVE  Pending(a, i)'
      <3>1. i \in DOMAIN s /\ ApiHolds(s[i], a, i)
        BY <1>1, <1>3, <1>4, <2>2 DEF MsgHolds, ApiHolds, b
      <3> QED BY <1>8, <3>1 DEF Pending
    <2>3. ASSUME NEW n \in DOMAIN apiQ, ApiHolds(apiQ[n], a, i)
          PROVE  Pending(a, i)'
      BY <1>8, <2>3 DEF Pending
    <2> QED BY <1>10, <2>1, <2>2, <2>3 DEF Pending
  <1> QED BY <1>7, <1>9, <1>10 DEF SamePending

\* A new command comes after all there are.
LEMMA IssuePending ==
  ASSUME Typed, Ordered, NEW k, NEW c, NEW ids, NEW masks, Issue(k, c, ids, masks),
         NEW b, b = Len(batches) + 1
  PROVE  /\ Ordered' /\ \A i : Pending(b, i)'
         /\ \A a \in DOMAIN batches : \A i : Pending(a, i)' <=> Pending(a, i)
  <1> DEFINE m == Of("command", b, 0)
  <1>1. /\ b \in Nat /\ b \in 1 .. MaxCommands /\ \A a \in DOMAIN batches : a \in Nat /\ a < b
        /\ 0 \in 0 .. MaxBatch /\ "command" \in Kinds
    BY ConstantsAssumption DEF Issue, Typed, BatchesTyped, Kinds
  <1>2. m \in Messages /\ m.k = "command" /\ m.batch = b /\ m.item = 0
    BY <1>1, OfTyped
  <1>3. msgQ' = Append(msgQ, m) /\ UNCHANGED apiQ
    BY DEF Issue, Post
  <1> HIDE DEF m
  <1>4. MsgRank(m) = 1 /\ ApiLoses(0)
    BY <1>2, <1>3, RankFacts, LosesFacts
  <1>5. /\ \A n \in DOMAIN msgQ' : \/ n \in DOMAIN msgQ /\ n < Len(msgQ) + 1 /\ msgQ'[n] = msgQ[n]
                                   \/ n = Len(msgQ) + 1 /\ msgQ'[n] = m
        /\ \A n \in DOMAIN msgQ : n \in DOMAIN msgQ' /\ msgQ'[n] = msgQ[n]
        /\ Len(msgQ) + 1 \in DOMAIN msgQ' /\ msgQ'[Len(msgQ) + 1] = m
    BY <1>2, <1>3, AppendFacts DEF Typed, MsgTyped
  <1>6. /\ \A n \in DOMAIN msgQ : MsgRank(msgQ[n]) > 0 => MsgRank(msgQ[n]) >= 1 /\ Before(msgQ[n], m)
        /\ \A n \in DOMAIN apiQ' : ApiRank(apiQ'[n]) > 0 => ApiRank(apiQ'[n]) > 1 /\ Before(apiQ'[n].reply, m)
    <2>1. ASSUME NEW n \in DOMAIN msgQ, MsgRank(msgQ[n]) > 0
          PROVE  MsgRank(msgQ[n]) >= 1 /\ Before(msgQ[n], m)
      <3>1. MsgRank(msgQ[n]) >= 1 /\ msgQ[n].batch < b
        BY <1>1, <2>1, RankFacts, NumberFacts
      <3> QED BY <1>2, <3>1 DEF Before
    <2>2. ASSUME NEW n \in DOMAIN apiQ, ApiRank(apiQ[n]) > 0
          PROVE  ApiRank(apiQ[n]) > 1 /\ Before(apiQ[n].reply, m)
      <3>1. ApiRank(apiQ[n]) > 1 /\ apiQ[n].reply.batch < b
        BY <1>1, <2>2, RankFacts, NumberFacts
      <3> QED BY <1>2, <3>1 DEF Before
    <2> QED BY <1>3, <2>1, <2>2
  <1>7. Ordered'
    <2>1. ApiDrops(0) /\ MsgRank(m) > 0 /\ 0 \in {0, 1} /\ (m.k = "command" => m.item = 0)
      BY <1>2, <1>4 DEF ApiLoses
    <2>2. /\ \A n \in DOMAIN msgQ : MsgRank(msgQ[n]) > 0 =>
               /\ MsgRank(msgQ[n]) >= MsgRank(m) => Before(msgQ[n], m)
               /\ MsgRank(msgQ[n]) < MsgRank(m) => Before(m, msgQ[n])
          /\ \A n \in DOMAIN apiQ' : ApiRank(apiQ'[n]) > 0 =>
               /\ ApiRank(apiQ'[n]) > MsgRank(m) => Before(apiQ'[n].reply, m)
               /\ ApiRank(apiQ'[n]) < MsgRank(m) => Before(m, apiQ'[n].reply)
      BY <1>4, <1>6, RankFacts
    <2> QED BY <1>5, <2>1, <2>2, NewMsgOrdered
  <1>8. \A i : Pending(b, i)'
    BY <1>2, <1>4, <1>5 DEF Pending, MsgHolds
  <1>9. ASSUME NEW a \in DOMAIN batches, NEW i
        PROVE  Pending(a, i)' <=> Pending(a, i)
    <2>1. a # b
      BY <1>1
    <2>2. ~ MsgHolds(m, a, i)
      BY <1>2, <2>1 DEF MsgHolds
    <2>3. (\E n \in DOMAIN msgQ' : MsgHolds(msgQ'[n], a, i)) <=> \E n \in DOMAIN msgQ : MsgHolds(msgQ[n], a, i)
      BY <1>5, <2>2
    <2> QED BY <1>3, <2>3 DEF Pending
  <1> QED BY <1>7, <1>8, <1>9

-----------------------------------------------------------------------------
(* Who uses a hardware id *)

\* A message that hands hardware id h over to the adapter.
Announces(B, m, h) == /\ m.hw = h /\ m.ok
                      /\ m.k = "restored" \/ (m.k = "done" /\ B[m.batch].cmd = "add")

\* The adapter works with h ...
InUse(h) ==
  \/ geofences[h] # NoFence
  \/ \E id \in Ids : geofenceIds[id] = h
  \/ \E n \in DOMAIN apiQ : apiQ[n].op \in Cmds \ {"add"} /\ apiQ[n].hw = h
  \/ \E n \in DOMAIN msgQ : msgQ[n].k = "swept" /\ msgQ[n].hw = h

\* ... or is about to forget its fence, whose client has left.
Sweeps(h) ==
  \/ \E n \in DOMAIN apiQ : apiQ[n].reply.k = "swept" /\ apiQ[n].hw = h
  \/ \E n \in DOMAIN msgQ : msgQ[n].k = "swept" /\ msgQ[n].hw = h

\* A hardware id is handed over once, to an adapter that does not use it yet.
HandedOver(h) ==
  /\ InUse(h) => h \in usedHw
  /\ \A n \in DOMAIN msgQ : Announces(batches, msgQ[n], h) =>
       /\ h \in usedHw /\ ~ InUse(h)
       /\ \A m \in DOMAIN msgQ : Announces(batches, msgQ[m], h) => m = n
  /\ Sweeps(h) => \A id \in Ids : geofenceIds[id] # h

Handed == \A h \in HwIds : HandedOver(h)

LEMMA SweepsUse ==
  ASSUME Typed, NEW h \in HwIds, Sweeps(h)
  PROVE  InUse(h)
  <1>1. ASSUME NEW n \in DOMAIN apiQ, apiQ[n].reply.k = "swept", apiQ[n].hw = h
        PROVE  InUse(h)
    <2>1. ProperCall(batches, apiQ[n]) /\ apiQ[n].op \in Ops
      BY DEF Typed, ApiTyped, ProperCall, Calls
    <2>2. apiQ[n].op = "remove"
      BY <1>1, <2>1 DEF ProperCall, Ops, ForItem, ForSweep, ForRestart, ForPause, Blank
    <2> QED BY <1>1, <2>2 DEF InUse, Cmds
  <1> QED BY <1>1 DEF Sweeps, InUse

LEMMA GrownAnnounces ==
  ASSUME Typed, Grows, NEW n \in DOMAIN msgQ, NEW h
  PROVE  Announces(batches', msgQ[n], h) <=> Announces(batches, msgQ[n], h)
  BY DEF Typed, MsgTyped, Grows, Proper, Item, Announces

\* A message that tells the adapter nothing new of h.
Harmless(B, m, h) == /\ ~ Announces(B, m, h)
                     /\ m.k = "swept" /\ m.hw = h => Sweeps(h)

\* Steps that leave the maps alone.
LEMMA QuietHanded ==
  ASSUME Typed, Grows, UNCHANGED mapVars, usedHw \subseteq usedHw', NEW h \in HwIds, HandedOver(h),
         \A n \in DOMAIN apiQ' : apiQ'[n] = Open \/ \E k \in DOMAIN apiQ : apiQ'[n] = apiQ[k],
         \/ UNCHANGED msgQ
         \/ \E m \in Messages : /\ msgQ' = Append(msgQ, m)
                                /\ \/ Harmless(batches', m, h)
                                   \/ m.k # "swept" /\ h \notin usedHw /\ h \in usedHw'
  PROVE  HandedOver(h)'
  <1>0. /\ Open.op \notin Cmds \ {"add"} /\ Open.reply.k # "swept"
    BY DEF Open, Call, Cmds, Blank
  <1>1. CASE /\ UNCHANGED msgQ
    <2>1. InUse(h)' => InUse(h)
      BY <1>0, <1>1 DEF InUse, mapVars
    <2>2. Sweeps(h)' => Sweeps(h)
      BY <1>0, <1>1 DEF Sweeps
    <2> QED BY <1>1, <2>1, <2>2, GrownAnnounces DEF HandedOver, mapVars
  <1>2. ASSUME NEW m \in Messages, msgQ' = Append(msgQ, m),
               Harmless(batches', m, h) \/ (m.k # "swept" /\ h \notin usedHw /\ h \in usedHw')
        PROVE  HandedOver(h)'
    <2> DEFINE L == Len(msgQ) + 1
    <2>0. /\ DOMAIN msgQ' = DOMAIN msgQ \cup {L} /\ msgQ'[L] = m /\ L \notin DOMAIN msgQ
          /\ \A n \in DOMAIN msgQ : msgQ'[n] = msgQ[n]
      BY <1>2, AppendFacts DEF Typed, MsgTyped
    <2> HIDE DEF L
    <2>1. InUse(h)' => InUse(h)
      BY <1>0, <1>2, <2>0, SweepsUse DEF InUse, mapVars, Harmless
    <2>2. Sweeps(h)' => Sweeps(h)
      BY <1>0, <1>2, <2>0 DEF Sweeps, Harmless
    <2>3. CASE ~ Announces(batches', m, h)
      BY <2>0, <2>1, <2>2, <2>3, GrownAnnounces DEF HandedOver, mapVars
    <2>4. CASE Announces(batches', m, h)
      <3>1. h \notin usedHw /\ h \in usedHw'
        BY <1>2, <2>4 DEF Harmless
      <3>2. ~ InUse(h) /\ \A n \in DOMAIN msgQ : ~ Announces(batches, msgQ[n], h)
        BY <3>1 DEF HandedOver
      <3> QED BY <2>0, <2>1, <2>2, <3>1, <3>2, GrownAnnounces DEF HandedOver, mapVars
    <2> QED BY <2>3, <2>4
  <1> QED BY <1>1, <1>2

\* Clients post messages that say nothing of a hardware id.
LEMMA ClientPosts ==
  ASSUME Typed, ClientStep
  PROVE  /\ \E m \in Messages : msgQ' = Append(msgQ, m) /\ m.k \in {"command", "removeClient"}
         /\ UNCHANGED <<mapVars, modemVars, apiQ>>
  <1>1. PICK c \in Clients : Destroy(c) \/ \E k, ids, masks : Issued(k, c, ids, masks)
    BY ClientActs
  <1>2. ASSUME Destroy(c)
        PROVE  /\ \E m \in Messages : msgQ' = Append(msgQ, m) /\ m.k \in {"command", "removeClient"}
               /\ UNCHANGED <<mapVars, modemVars, apiQ>>
    BY <1>2, RemoveClientTyped DEF Destroy, Post
  <1>3. ASSUME NEW k, NEW ids, NEW masks, Issued(k, c, ids, masks)
        PROVE  /\ \E m \in Messages : msgQ' = Append(msgQ, m) /\ m.k \in {"command", "removeClient"}
               /\ UNCHANGED <<mapVars, modemVars, apiQ>>
    <2>1. Len(batches) + 1 \in 1 .. MaxCommands /\ "command" \in Kinds /\ 0 \in 0 .. MaxBatch
      BY <1>3, BlankTyped, ConstantsAssumption DEF Issued, Issue, Typed, BatchesTyped, Kinds
    <2> QED BY <1>3, <2>1, OfTyped DEF Issued, Issue, Post
  <1> QED BY <1>1, <1>2, <1>3

LEMMA ClientHanded ==
  ASSUME Typed, Handed, ClientStep
  PROVE  Handed'
  <1>1. PICK m \in Messages : msgQ' = Append(msgQ, m) /\ m.k \in {"command", "removeClient"}
    BY ClientPosts
  <1>2. \A h : Harmless(batches', m, h)
    BY <1>1 DEF Harmless, Announces
  <1>3. Grows /\ UNCHANGED <<mapVars, usedHw, apiQ>>
    BY ClientPosts, ClientsTypedStep DEF modemVars
  <1> QED BY <1>1, <1>2, <1>3, QuietHanded DEF Handed

\* What the modem answers.
Answering(m, hw, ok) == /\ m \in Messages /\ m.hw = hw /\ m.ok = ok /\ m.k = Head(apiQ).reply.k
                        /\ m.batch = Head(apiQ).reply.batch /\ m.item = Head(apiQ).reply.item
                        /\ m.fence = Head(apiQ).reply.fence

LEMMA ReplyPosts ==
  ASSUME Typed, apiQ # << >>, NEW hw \in HwIds \cup {0}, NEW ok \in BOOLEAN, Reply(hw, ok)
  PROVE  \/ Head(apiQ).reply.k = "ignore" /\ UNCHANGED msgQ
         \/ Head(apiQ).reply.k # "ignore" /\ \E m : Answering(m, hw, ok) /\ msgQ' = Append(msgQ, m)
  <1> DEFINE r == Head(apiQ).reply
             m == [r EXCEPT !.hw = hw, !.ok = ok]
  <1>1. r \in Messages
    <2>1. Head(apiQ) \in Calls
      BY TailFacts DEF Typed, ApiTyped
    <2> QED BY <2>1 DEF Calls
  <1>2. \/ r.k = "ignore" /\ UNCHANGED msgQ
        \/ r.k # "ignore" /\ msgQ' = Append(msgQ, m)
    BY DEF Reply, Post
  <1> HIDE DEF r
  <1>3. m \in Messages /\ m.hw = hw /\ m.ok = ok /\ m.k = r.k /\ m.batch = r.batch /\ m.item = r.item /\ m.fence = r.fence
    BY <1>1 DEF Messages
  <1> HIDE DEF m
  <1>4. Answering(m, hw, ok)
    BY <1>3 DEF Answering, r
  <1> QED BY <1>2, <1>4 DEF r

\* The head of the LocApi queue, served.
LEMMA ServedCall ==
  ASSUME Typed, LocApiStep
  PROVE  /\ apiQ # << >> /\ apiQ' = Tail(apiQ) /\ 1 \in DOMAIN apiQ /\ Head(apiQ) = apiQ[1]
         /\ ModemKeeps /\ Grows /\ ProperCall(batches, Head(apiQ)) /\ Head(apiQ) \in Calls
         /\ \A n \in DOMAIN apiQ' : n \in Nat /\ n + 1 \in DOMAIN apiQ /\ apiQ'[n] = apiQ[n + 1]
  <1>1. apiQ # << >> /\ apiQ' = Tail(apiQ) /\ ModemKeeps
    BY DEF LocApiStep, GiveTurn, OpenLink, ModemAdds, ModemChanges, ModemFails, ModemRefuses, Serving
  <1>2. Grows
    BY <1>1, SameGrows DEF ModemKeeps
  <1> QED BY <1>1, <1>2, ApiKept, TailFacts DEF Typed, ApiTyped

LEMMA ModemHanded ==
  ASSUME Typed, Handed, NoReuse', LocApiStep \/ ModemStep
  PROVE  Handed'
  <1>1. Grows /\ UNCHANGED mapVars
    <2>1. ModemKeeps
      BY DEF LocApiStep, GiveTurn, OpenLink, ModemAdds, ModemChanges, ModemFails, ModemRefuses, Serving,
             ModemStep, ModemReset, Breach
    <2> QED BY <2>1, SameGrows DEF ModemKeeps
  <1> SUFFICES ASSUME NEW h \in HwIds
               PROVE  HandedOver(h)'
    BY DEF Handed
  <1> DEFINE Good == /\ usedHw \subseteq usedHw'
                     /\ \A n \in DOMAIN apiQ' : apiQ'[n] = Open \/ \E k \in DOMAIN apiQ : apiQ'[n] = apiQ[k]
                     /\ \/ UNCHANGED msgQ
                        \/ \E m \in Messages : /\ msgQ' = Append(msgQ, m)
                                               /\ \/ Harmless(batches', m, h)
                                                  \/ m.k # "swept" /\ h \notin usedHw /\ h \in usedHw'
  <1>2. Good => HandedOver(h)'
    BY <1>1, QuietHanded DEF Handed
  <1>3. ASSUME LocApiStep
        PROVE  Good
    <2> DEFINE c == Head(apiQ)
    <2>1. /\ apiQ # << >> /\ ProperCall(batches, c) /\ c \in Calls /\ 1 \in DOMAIN apiQ /\ c = apiQ[1]
          /\ \A n \in DOMAIN apiQ' : apiQ'[n] = Open \/ \E k \in DOMAIN apiQ : apiQ'[n] = apiQ[k]
      BY <1>3, ServedCall
    <2>2. c.hw \in HwIds \cup {0}
      BY <2>1 DEF Calls
    <2>3. /\ c.reply.k = "done" => c.op = batches[c.reply.batch].cmd /\ Item(batches, c.reply.batch, c.reply.item)
          /\ c.reply.k = "restored" => c.op = "add"
      BY <2>1 DEF ProperCall, ForItem, ForSweep, ForRestart, ForPause, Calls, Ops, Blank
    <2>4. c.reply.k = "swept" /\ c.hw = h => Sweeps(h)
      BY <2>1 DEF Sweeps
    <2> HIDE DEF c
    <2>5. ASSUME NEW ok \in BOOLEAN, Reply(c.hw, ok), ok => c.op # "add", UNCHANGED usedHw
          PROVE  Good
      <3>1. ASSUME NEW m, Answering(m, c.hw, ok), msgQ' = Append(msgQ, m)
            PROVE  m \in Messages /\ Harmless(batches', m, h)
        BY <1>1, <2>1, <2>3, <2>4, <2>5, <3>1 DEF Answering, Harmless, Announces, Grows, Item, c
      <3> QED BY <2>1, <2>2, <2>5, <3>1, ReplyPosts
    <2>6. CASE GiveTurn
      <3>1. Reply(0, TRUE) /\ c.op = "turn" /\ UNCHANGED usedHw
        BY <2>6 DEF GiveTurn, Serving, modemVars, c
      <3>2. c.reply.k = "turn"
        BY <2>1, <3>1 DEF ProperCall
      <3>3. ASSUME NEW m, Answering(m, 0, TRUE), msgQ' = Append(msgQ, m)
            PROVE  m \in Messages /\ Harmless(batches', m, h)
        BY <3>2, <3>3 DEF Answering, Harmless, Announces, c
      <3> QED BY <2>1, <3>1, <3>3, ReplyPosts
    <2>7. CASE OpenLink
      <3> DEFINE m == [Blank EXCEPT !.k = "engineUp"]
      <3>1. m \in Messages /\ m.k = "engineUp"
        BY BlankTyped DEF Messages, Kinds, Blank
      <3>2. msgQ' = Append(msgQ, m) /\ UNCHANGED usedHw
        BY <2>7 DEF OpenLink, Post
      <3> HIDE DEF m
      <3>3. Harmless(batches', m, h)
        BY <3>1 DEF Harmless, Announces
      <3> QED BY <2>1, <3>1, <3>2, <3>3
    <2>8. CASE ModemAdds
      <3>1. PICK hw \in HwIds : hw \notin usedHw /\ usedHw' = usedHw \cup {hw} /\ Reply(hw, TRUE)
        BY <2>8, ModemAddsFacts
      <3>2. c.reply.k # "swept"
        <4>1. c.op = "add"
          BY <2>8, ModemAddsFacts DEF c
        <4> QED BY <2>1, <4>1 DEF ProperCall, Cmds, ForItem, ForSweep, ForRestart, ForPause
      <3>3. ASSUME NEW m, Answering(m, hw, TRUE), msgQ' = Append(msgQ, m)
            PROVE  m \in Messages /\ m.k # "swept" /\ (Harmless(batches', m, h) \/ (h \notin usedHw /\ h \in usedHw'))
        BY <3>1, <3>2, <3>3 DEF Answering, Harmless, Announces, c
      <3> QED BY <2>1, <3>1, <3>3, ReplyPosts
    <2>9. CASE ModemChanges
      <3>1. Reply(c.hw, TRUE) /\ c.op # "add" /\ UNCHANGED usedHw
        BY <2>9 DEF ModemChanges, Serving, c
      <3> QED BY <2>5, <3>1
    <2>10. CASE ModemFails \/ ModemRefuses
      <3>1. Reply(c.hw, FALSE) /\ UNCHANGED usedHw
        BY <2>10 DEF ModemFails, ModemRefuses, modemVars, c
      <3> QED BY <2>5, <3>1
    <2> QED BY <1>3, <2>6, <2>7, <2>8, <2>9, <2>10 DEF LocApiStep
  <1>4. ASSUME ModemReset
        PROVE  Good
    <2>1. apiQ \in Seq(Calls) /\ Open \in Calls
      BY BlankTyped DEF Typed, ApiTyped, Open, Call, Calls, Ops
    <2>2. apiQ' = Append(apiQ, Open) /\ UNCHANGED <<msgQ, usedHw>>
      BY <1>4, <2>1 DEF ModemReset, Request
    <2> QED BY <2>1, <2>2
  <1>5. ASSUME NEW hw \in HwIds, NEW type \in {"enter", "exit"}, Breach(hw, type)
        PROVE  Good
    <2> DEFINE f == [modem[hw] EXCEPT !.mask = {type}]
               m == [Blank EXCEPT !.k = "breach", !.hw = hw, !.fence = f]
    <2>1. f \in Described
      <3>1. modem[hw] \in Fence
        BY <1>5 DEF Breach, Typed, ModemTyped
      <3> QED BY <3>1 DEF Fence, Described
    <2> HIDE DEF f
    <2>2. m \in Messages /\ m.k = "breach"
      BY <2>1, BlankTyped DEF Messages, Kinds, Blank
    <2>3. msgQ' = Append(msgQ, m) /\ UNCHANGED <<apiQ, usedHw>>
      BY <1>5 DEF Breach, f, Post, modemVars
    <2> HIDE DEF m
    <2>4. Harmless(batches', m, h)
      BY <2>2 DEF Harmless, Announces
    <2> QED BY <2>2, <2>3, <2>4
  <1>6. Good
    BY <1>3, <1>4, <1>5 DEF ModemStep
  <1> QED BY <1>2, <1>6

\* A hardware id gets into the maps when it is announced ...
LEMMA AdapterMaps ==
  ASSUME Typed, AdapterStep, NEW h \in HwIds, ~ Announces(batches, msg, h)
  PROVE  /\ \A id \in Ids : geofenceIds'[id] = h => geofenceIds[id] = h
         /\ geofences'[h] # NoFence => geofences[h] # NoFence
  <1>0. /\ h # 0 /\ geofenceIds \in [Ids -> HwIds \cup {0}]
        /\ geofences \in [HwIds -> Fence \cup {NoFence}]
    BY ConstantsAssumption DEF HwIds, Typed, MapsTyped
  <1>1. CASE StartBatch \/ AddTurn \/ FoundTurn \/ UnknownTurn \/ BreachReported \/ ResumeRefused
    BY <1>1 DEF StartBatch, AddTurn, FoundTurn, UnknownTurn, BreachReported, ResumeRefused, Turn, mapVars
  <1>2. CASE AddDone
    <2>1. CASE msg.ok
      <3>1. msg.k = "done" /\ cmd.cmd = "add" /\ SaveItem(cmd.ids[msg.item], msg.hw, cmd.masks[msg.item])
        BY <1>2, <2>1 DEF AddDone, Done, Receive
      <3>2. msg.hw # h
        BY <2>1, <3>1 DEF Announces, cmd
      <3> QED BY <1>0, <3>1, <3>2 DEF SaveItem
    <2> QED BY <1>2, <2>1 DEF AddDone, mapVars
  <1>3. CASE RemoveDone
    BY <1>0, <1>3 DEF RemoveDone, RemoveItem, mapVars
  <1>4. CASE PauseDone \/ ResumeDone \/ ModifyDone
    BY <1>0, <1>4 DEF PauseDone, ResumeDone, ModifyDone, SetPaused, SetMask, mapVars
  <1>5. CASE RemoveClient \/ Swept \/ RestartGeofences
    BY <1>0, <1>5 DEF RemoveClient, Swept, RestartGeofences
  <1>6. CASE Restored
    <2>1. CASE msg.ok
      <3>1. msg.k = "restored" /\ SaveItem(msg.fence.id, msg.hw, msg.fence.mask)
        BY <1>6, <2>1 DEF Restored, Receive
      <3>2. msg.hw # h
        BY <2>1, <3>1 DEF Announces
      <3> QED BY <1>0, <3>1, <3>2 DEF SaveItem
    <2> QED BY <1>6, <2>1 DEF Restored, mapVars
  <1> QED BY <1>1, <1>2, <1>3, <1>4, <1>5, <1>6 DEF AdapterStep

\* ... and on the LocApi queue when it is in the maps.
LEMMA AdapterCalls ==
  ASSUME Typed, AdapterStep, NEW h \in HwIds, NEW n \in DOMAIN apiQ', apiQ'[n].hw = h
  PROVE  /\ apiQ'[n].op \in Cmds \ {"add"} => InUse(h) \/ Announces(batches, msg, h)
         /\ apiQ'[n].reply.k = "swept" => \/ Sweeps(h)
                                          \/ RemoveClient /\ \E id \in Ids : owner[id] = msg.client /\ geofenceIds[id] = h
  <1>0. apiQ \in Seq(Calls)
    BY DEF Typed, ApiTyped
  <1>1. CASE \E k \in DOMAIN apiQ : apiQ'[n] = apiQ[k]
    BY <1>1 DEF InUse, Sweeps
  <1>2. CASE apiQ'[n] = FoundCall /\ FoundTurn
    <2>1. FoundCall.reply.k = "done" /\ h = geofenceIds[cmd.ids[msg.item]]
      <3>1. Of("done", msg.batch, msg.item).k = "done"
        BY DEF Of, Blank
      <3>2. /\ FoundCall.reply = Of("done", msg.batch, msg.item)
            /\ FoundCall.hw = geofenceIds[cmd.ids[msg.item]]
        BY DEF FoundCall, Call
      <3> QED BY <1>2, <3>1, <3>2
    <2>2. cmd.ids[msg.item] \in Ids
      <3>1. msg.k = "turn" /\ msgQ # << >>
        BY <1>2 DEF FoundTurn, Turn, Receive
      <3>2. Item(batches, msg.batch, msg.item)
        BY <3>1, MsgProper DEF Typed, Proper
      <3> QED BY <3>2, ItemFacts DEF Typed, cmd
    <2> QED BY <1>2, <2>1, <2>2 DEF InUse
  <1>3. CASE Other(apiQ'[n])
    <2> DEFINE c == apiQ'[n]
    <2>1. c.op = "remove" => RemoveClient /\ \E id \in Ids : owner[id] = msg.client /\ geofenceIds[id] = h
      BY <1>3 DEF Other
    <2>2. c.op = "pause" => Announces(batches, msg, h) /\ c.reply.k # "swept"
      BY <1>3 DEF Other, Announces, Restored, Receive
    <2>3. c.op \in {"turn", "add", "remove", "pause"} /\ (c.op \in {"turn", "add"} => c.reply.k # "swept")
      BY <1>3 DEF Other
    <2> HIDE DEF c
    <2>4. c.op \in Cmds \ {"add"} => c.op \in {"remove", "pause"}
      BY <2>3 DEF Cmds
    <2> QED BY <2>1, <2>2, <2>3, <2>4 DEF InUse, c
  <1>4. CASE FoundTurn /\ FoundCall \in Calls /\ apiQ' = Append(apiQ, FoundCall)
    <2>1. apiQ'[n] = FoundCall \/ \E k \in DOMAIN apiQ : apiQ'[n] = apiQ[k]
      BY <1>0, <1>4, AppendFacts
    <2> QED BY <1>1, <1>2, <1>4, <2>1
  <1>5. ASSUME NEW s \in Seq(Calls), Request(s), \A k \in DOMAIN s : Other(s[k])
        PROVE  Other(apiQ'[n]) \/ \E k \in DOMAIN apiQ : apiQ'[n] = apiQ[k]
    <2>1. apiQ' = apiQ \o s
      BY <1>5 DEF Request
    <2>2. \/ n \in DOMAIN apiQ /\ apiQ'[n] = apiQ[n]
          \/ n - Len(apiQ) \in DOMAIN s /\ apiQ'[n] = s[n - Len(apiQ)]
      BY <1>0, <2>1
    <2> QED BY <1>5, <2>2
  <1> QED BY <1>1, <1>3, <1>4, <1>5, AdapterRequests

LEMMA AdapterHanded ==
  ASSUME Typed, Handed, OneName, AdapterStep
  PROVE  Handed'
  <1>1. /\ msgQ # << >> /\ msgQ' = Tail(msgQ) /\ UNCHANGED usedHw /\ Grows
        /\ 1 \in DOMAIN msgQ /\ msg = msgQ[1]
        /\ \A n \in DOMAIN msgQ' : n \in Nat /\ n + 1 \in DOMAIN msgQ /\ n + 1 # 1 /\ msgQ'[n] = msgQ[n + 1]
    <2>1. msgQ # << >> /\ msgQ' = Tail(msgQ) /\ UNCHANGED usedHw
      BY DEF AdapterStep, StartBatch, AddTurn, FoundTurn, UnknownTurn, AddDone, RemoveDone, PauseDone, ResumeDone,
             ResumeRefused, ModifyDone, RemoveClient, Swept, RestartGeofences, Restored, BreachReported, Receive,
             Turn, Done, AdapterKeeps, modemVars
    <2> QED BY <2>1, TailFacts, AdapterTyped DEF Typed, MsgTyped, msg
  <1> SUFFICES ASSUME NEW h \in HwIds
               PROVE  HandedOver(h)'
    BY DEF Handed
  <1> USE DEF Handed
  <1>2. InUse(h)' => InUse(h) \/ Announces(batches, msg, h)
    BY <1>1, AdapterMaps, AdapterCalls DEF InUse
  <1>3. Sweeps(h)' => Sweeps(h) \/ (RemoveClient /\ \E id \in Ids : owner[id] = msg.client /\ geofenceIds[id] = h)
    BY <1>1, AdapterCalls DEF Sweeps
  <1>4. Announces(batches, msg, h) => h \in usedHw /\ ~ InUse(h)
    BY <1>1 DEF HandedOver
  <1>5. InUse(h)' => h \in usedHw'
    BY <1>1, <1>2, <1>4 DEF HandedOver
  <1>6. ASSUME NEW n \in DOMAIN msgQ', Announces(batches', msgQ'[n], h)
        PROVE  /\ h \in usedHw' /\ ~ InUse(h)'
               /\ \A m \in DOMAIN msgQ' : Announces(batches', msgQ'[m], h) => m = n
    <2>1. Announces(batches, msgQ[n + 1], h)
      BY <1>1, <1>6, GrownAnnounces
    <2>2. ~ Announces(batches, msg, h) /\ h \in usedHw /\ ~ InUse(h)
      BY <1>1, <2>1 DEF HandedOver
    <2>3. ASSUME NEW m \in DOMAIN msgQ', Announces(batches', msgQ'[m], h)
          PROVE  m = n
      <3>1. Announces(batches, msgQ[m + 1], h)
        BY <1>1, <2>3, GrownAnnounces
      <3>2. m + 1 = n + 1
        BY <1>1, <2>1, <3>1 DEF HandedOver
      <3> QED BY <1>1, <3>2
    <2> QED BY <1>1, <1>2, <2>2, <2>3
  <1>7. ASSUME Sweeps(h)', NEW id \in Ids, geofenceIds'[id] = h
        PROVE  FALSE
    <2>1. ~ Sweeps(h) \/ ~ Announces(batches, msg, h)
      BY <1>4, SweepsUse
    <2>2. CASE Sweeps(h)
      BY <1>7, <2>1, <2>2, AdapterMaps DEF HandedOver
    <2>3. CASE RemoveClient /\ \E i \in Ids : owner[i] = msg.client /\ geofenceIds[i] = h
      <3>1. PICK i \in Ids : owner[i] = msg.client /\ geofenceIds[i] = h
        BY <2>3
      <3>2. h # 0 /\ geofenceIds[id] = h /\ ~ (owner[id] = msg.client /\ geofenceIds[id] # 0)
        BY <1>7, <2>3, ConstantsAssumption DEF RemoveClient, HwIds
      <3>3. id = i
        BY <3>1, <3>2 DEF OneName, Names
      <3> QED BY <3>1, <3>2, <3>3
    <2> QED BY <1>3, <1>7, <2>2, <2>3
  <1> QED BY <1>5, <1>6, <1>7 DEF HandedOver

\* The maps name each other's fences, since what is handed over is not in use
\* and what is swept has no id.
LEMMA AdapterMirrors ==
  ASSUME Typed, Handed, IdsNameOwnFences, AdapterStep
  PROVE  IdsNameOwnFences'
  <1>0. /\ geofenceIds \in [Ids -> HwIds \cup {0}] /\ geofences \in [HwIds -> Fence \cup {NoFence}]
        /\ 0 \notin HwIds /\ 0 \notin Ids /\ NoFence.id = 0
        /\ geofenceIds' \in [Ids -> HwIds \cup {0}]
    BY AdapterTyped, ConstantsAssumption DEF HwIds, Ids, NoFence, Typed, MapsTyped
  <1>1. msgQ # << >> /\ 1 \in DOMAIN msgQ /\ msg = msgQ[1] /\ Proper(batches, msg)
    <2>1. msgQ # << >>
      BY DEF AdapterStep, StartBatch, AddTurn, FoundTurn, UnknownTurn, AddDone, RemoveDone, PauseDone, ResumeDone,
             ResumeRefused, ModifyDone, RemoveClient, Swept, RestartGeofences, Restored, BreachReported, Receive,
             Turn, Done
    <2> QED BY <2>1, TailFacts, MsgProper DEF Typed, MsgTyped, msg
  <1>2. CASE StartBatch \/ AddTurn \/ FoundTurn \/ UnknownTurn \/ BreachReported \/ ResumeRefused
    <2>1. UNCHANGED mapVars
      BY <1>2 DEF StartBatch, AddTurn, FoundTurn, UnknownTurn, BreachReported, ResumeRefused, Turn
    <2> QED BY <2>1 DEF mapVars, IdsNameOwnFences
  <1>3. ASSUME NEW i \in Ids, NEW hw \in HwIds, NEW mask, SaveItem(i, hw, mask), Announces(batches, msg, hw)
        PROVE  IdsNameOwnFences'
    <2>1. \A id \in Ids : geofenceIds[id] # hw
      BY <1>1, <1>3 DEF Handed, HandedOver, InUse
    <2>2. /\ geofences' = [geofences EXCEPT ![hw] = Watching(i, mask)]
          /\ geofenceIds' = [geofenceIds EXCEPT ![i] = hw] /\ Watching(i, mask).id = i
      BY <1>3 DEF SaveItem, Watching
    <2> QED BY <1>0, <2>1, <2>2 DEF IdsNameOwnFences
  <1>4. UNCHANGED mapVars => IdsNameOwnFences'
    BY DEF mapVars, IdsNameOwnFences
  <1>5. CASE AddDone
    <2>1. CASE msg.ok
      <3>1. /\ SaveItem(cmd.ids[msg.item], msg.hw, cmd.masks[msg.item]) /\ msg.k = "done" /\ cmd.cmd = "add"
        BY <1>5, <2>1 DEF AddDone, Done, Receive
      <3>2. msg.hw \in HwIds /\ cmd.ids[msg.item] \in Ids
        BY <1>1, <2>1, <3>1, ItemFacts DEF Proper, Typed, cmd
      <3> QED BY <1>3, <2>1, <3>1, <3>2 DEF Announces, cmd
    <2> QED BY <1>4, <1>5, <2>1 DEF AddDone
  <1>6. CASE Restored
    <2>1. CASE msg.ok
      <3>1. /\ SaveItem(msg.fence.id, msg.hw, msg.fence.mask) /\ msg.k = "restored"
        BY <1>6, <2>1 DEF Restored, Receive
      <3>2. msg.hw \in HwIds /\ msg.fence.id \in Ids
        BY <1>1, <2>1, <3>1 DEF Proper, Fence
      <3> QED BY <1>3, <2>1, <3>1, <3>2 DEF Announces
    <2> QED BY <1>4, <1>6, <2>1 DEF Restored
  <1>7. CASE RemoveDone
    <2>1. msg.hw \in HwIds
      BY <1>1, <1>7 DEF RemoveDone, Done, Receive, Proper, cmd
    <2>2. CASE RemoveItem(msg.hw) /\ ~ UNCHANGED mapVars
      <3>1. /\ geofenceIds' = [geofenceIds EXCEPT ![geofences[msg.hw].id] = 0]
            /\ geofences' = [geofences EXCEPT ![msg.hw] = NoFence]
        BY <2>2 DEF RemoveItem
      <3> QED BY <1>0, <2>1, <3>1 DEF IdsNameOwnFences
    <2> QED BY <1>4, <1>7, <2>2 DEF RemoveDone
  <1>8. CASE PauseDone \/ ResumeDone \/ ModifyDone
    <2>1. msg.hw \in HwIds
      BY <1>1, <1>8 DEF PauseDone, ResumeDone, ModifyDone, Done, Receive, Proper, cmd
    <2>2. \/ UNCHANGED mapVars
          \/ /\ UNCHANGED geofenceIds /\ geofences[msg.hw] # NoFence
             /\ \/ \E paused : geofences' = [geofences EXCEPT ![msg.hw].paused = paused]
                \/ \E mask : geofences' = [geofences EXCEPT ![msg.hw].mask = mask]
      BY <1>8 DEF PauseDone, ResumeDone, ModifyDone, SetPaused, SetMask, mapVars
    <2>3. geofences[msg.hw] \in Described
      BY <1>0, <2>1, FenceDescribed
    <2>4. ASSUME NEW paused, geofences' = [geofences EXCEPT ![msg.hw].paused = paused]
          PROVE  \A h \in HwIds : geofences'[h].id = geofences[h].id
      BY <1>0, <2>1, <2>3, <2>4 DEF Described
    <2>5. ASSUME NEW mask, geofences' = [geofences EXCEPT ![msg.hw].mask = mask]
          PROVE  \A h \in HwIds : geofences'[h].id = geofences[h].id
      BY <1>0, <2>1, <2>3, <2>5 DEF Described
    <2> QED BY <1>0, <1>4, <2>2, <2>4, <2>5 DEF IdsNameOwnFences
  <1>9. CASE RemoveClient \/ RestartGeofences
    BY <1>0, <1>9 DEF RemoveClient, RestartGeofences, IdsNameOwnFences
  <1>10. CASE Swept
    <2>1. msg.k = "swept" /\ msg.hw \in HwIds
      BY <1>1, <1>10 DEF Swept, Receive, Proper
    <2>2. \A id \in Ids : geofenceIds[id] # msg.hw
      BY <1>1, <2>1 DEF Handed, HandedOver, Sweeps
    <2> QED BY <1>0, <1>10, <2>2 DEF Swept, IdsNameOwnFences
  <1> QED BY <1>2, <1>5, <1>6, <1>7, <1>8, <1>9, <1>10 DEF AdapterStep

MapsInv == OneName /\ Handed /\ IdsNameOwnFences

LEMMA MapsInvariant == Spec => [](NoReuse => MapsInv)
  <1>1. Init => MapsInv
    <2>1. ASSUME Init
          PROVE  Handed /\ IdsNameOwnFences
      <3>1. msgQ = << >> /\ apiQ = << >> /\ \A h \in HwIds : geofences[h] = NoFence /\ \A id \in Ids : geofenceIds[id] # h
        BY <2>1, ConstantsAssumption DEF Init, HwIds
      <3>2. IdsNameOwnFences
        BY <2>1 DEF Init, IdsNameOwnFences
      <3> QED BY <3>1, <3>2 DEF Handed, HandedOver, InUse, Sweeps
    <2> QED BY <2>1, InitNames DEF MapsInv
  <1>2. ASSUME NoReuse', Typed, OneName, MapsInv, [Next]_vars
        PROVE  Handed' /\ IdsNameOwnFences'
    <2>1. CASE UNCHANGED vars
      <3>1. UNCHANGED <<mapVars, msgQ, apiQ, usedHw, batches>>
        BY <2>1 DEF vars, modemVars
      <3> QED BY <1>2, <3>1 DEF MapsInv, IdsNameOwnFences, Handed, HandedOver, InUse, Sweeps, Announces, mapVars
    <2>2. CASE ClientStep \/ LocApiStep \/ ModemStep
      <3>1. UNCHANGED mapVars
        BY <2>2, ClientPosts, <1>2 DEF LocApiStep, GiveTurn, OpenLink, ModemAdds, ModemChanges, ModemFails, ModemRefuses,
               Serving, ModemStep, ModemReset, Breach, ModemKeeps
      <3>2. IdsNameOwnFences'
        BY <1>2, <3>1 DEF MapsInv, IdsNameOwnFences, mapVars
      <3> QED BY <1>2, <2>2, <3>2, ClientHanded, ModemHanded DEF MapsInv
    <2>3. CASE AdapterStep
      BY <1>2, <2>3, AdapterHanded, AdapterMirrors DEF MapsInv
    <2> QED BY <1>2, <2>1, <2>2, <2>3 DEF Next
  <1>3. Spec => [](NoReuse => OneName)
    BY OneNameInvariant
  <1>4. NoReuse' /\ Typed /\ OneName /\ OneName' /\ MapsInv /\ [Next]_vars => MapsInv'
    BY <1>2 DEF MapsInv
  <1> QED BY <1>1, <1>3, <1>4, TypedInvariant, ReuseStays, PTL DEF Spec


-----------------------------------------------------------------------------
(* Commands and their answers *)

\* A command has a client and a last item.
LEMMA LastItem ==
  ASSUME Typed, NEW b \in DOMAIN batches
  PROVE  /\ LastOf(b) \in Items(b) /\ batches[b].client \in Clients /\ b \in Nat /\ Items(b) \subseteq Nat
         /\ Item(batches, b, LastOf(b)) /\ batches[b].cmd \in Cmds /\ batches[b].freed \in BOOLEAN
         /\ batches[b].told \in Nat /\ DOMAIN batches[b].errs = Items(b)
  <1>1. batches[b] \in Commands /\ Len(batches[b].ids) \in 1 .. MaxBatch /\ b \in Nat
        /\ DOMAIN batches[b].errs = Items(b)
    BY DEF Typed, BatchesTyped, Items
  <1>2. batches[b].ids \in Seq(Ids)
    BY <1>1 DEF Commands
  <1> QED BY <1>1, <1>2, ConstantsAssumption DEF LastOf, Items, Item, Commands

\* What an answer does, if the item is the batch's last.
LEMMA AnswerEffect ==
  ASSUME BatchesTyped, RequestsTyped, NEW b, NEW i, Item(batches, b, i), NEW err \in Errors,
         AnswerIfLast(b, i, err), NEW c, c = batches[b].client
  PROVE  /\ DOMAIN batches' = DOMAIN batches
         /\ \A a \in DOMAIN batches :
              /\ batches'[a].freed <=> batches[a].freed \/ (a = b /\ i = LastOf(b))
              /\ batches'[a].errs = IF a = b THEN Written(b, i, err) ELSE batches[a].errs
              /\ batches'[a].told = IF a = b /\ i = LastOf(b) /\ c \in clientData
                                    THEN batches[a].told + 1 ELSE batches[a].told
              /\ batches'[a].heard =
                   IF i = LastOf(b) /\ c \in clientData /\ requests[c] # << >> /\ a = Head(requests[c])
                   THEN b ELSE batches[a].heard
         /\ requests' = IF i = LastOf(b) /\ c \in clientData /\ requests[c] # << >>
                        THEN [requests EXCEPT ![c] = Tail(@)] ELSE requests
  <1> DEFINE w == Written(b, i, err)
  <1>1. /\ batches \in Seq(Commands) /\ b \in DOMAIN batches
        /\ \A a \in DOMAIN batches : batches[a] \in Commands
    BY DEF Item, BatchesTyped
  <1>2. CASE i # LastOf(b)
    <2>1. batches' = [batches EXCEPT ![b].errs = w] /\ UNCHANGED requests
      BY <1>2 DEF AnswerIfLast, IsLast, LastOf, Store
    <2> QED BY <1>1, <1>2, <2>1 DEF Commands
  <1>3. CASE i = LastOf(b)
    <2> DEFINE h == Head(requests[c])
               d == [batches EXCEPT ![b].errs = w, ![b].freed = TRUE]
               e == [d EXCEPT ![b].told = @ + 1]
               f == [e EXCEPT ![h].heard = b]
    <2>1. Answer(b, w)
      BY <1>3 DEF AnswerIfLast, IsLast, LastOf
    <2>2. \/ c \notin clientData /\ batches' = d /\ UNCHANGED requests
          \/ c \in clientData /\ requests[c] = << >> /\ batches' = e /\ UNCHANGED requests
          \/ /\ c \in clientData /\ requests[c] # << >> /\ requests' = [requests EXCEPT ![c] = Tail(@)]
             /\ batches' = f
      BY <2>1 DEF Answer
    <2> HIDE DEF w, h
    <2>3. /\ DOMAIN d = DOMAIN batches
          /\ \A a \in DOMAIN batches :
               /\ d[a].freed <=> batches[a].freed \/ a = b
               /\ d[a].errs = IF a = b THEN w ELSE batches[a].errs
               /\ d[a].told = batches[a].told /\ d[a].heard = batches[a].heard
               /\ DOMAIN d[a] = DOMAIN batches[a]
      BY <1>1 DEF Commands
    <2>4. \A a \in DOMAIN batches : "told" \in DOMAIN batches[a] /\ "heard" \in DOMAIN batches[a]
      BY <1>1 DEF Commands
    <2> HIDE DEF d
    <2>5. /\ DOMAIN e = DOMAIN batches
          /\ \A a \in DOMAIN batches :
               /\ e[a].freed = d[a].freed /\ e[a].errs = d[a].errs /\ e[a].heard = d[a].heard
               /\ e[a].told = IF a = b THEN d[a].told + 1 ELSE d[a].told
               /\ DOMAIN e[a] = DOMAIN batches[a]
      BY <1>1, <2>3, <2>4
    <2> HIDE DEF e
    <2>6. /\ DOMAIN f = DOMAIN batches
          /\ \A a \in DOMAIN batches :
               /\ f[a].freed = e[a].freed /\ f[a].errs = e[a].errs /\ f[a].told = e[a].told
               /\ f[a].heard = IF a = h THEN b ELSE e[a].heard
      BY <1>1, <2>4, <2>5
    <2> HIDE DEF f
    <2>7. CASE c \notin clientData /\ batches' = d /\ UNCHANGED requests
      BY <1>3, <2>3, <2>7 DEF w
    <2>8. CASE c \in clientData /\ requests[c] = << >> /\ batches' = e /\ UNCHANGED requests
      BY <1>3, <2>3, <2>5, <2>8 DEF w
    <2>9. CASE /\ c \in clientData /\ requests[c] # << >> /\ requests' = [requests EXCEPT ![c] = Tail(@)]
               /\ batches' = f
      BY <1>3, <2>3, <2>5, <2>6, <2>9 DEF w, h
    <2> QED BY <2>2, <2>7, <2>8, <2>9
  <1> QED BY <1>2, <1>3

\* How the adapter deals with the arrays of commands.
LEMMA AdapterAnswers ==
  ASSUME Typed, AdapterStep
  PROVE  /\ msgQ # << >> /\ msgQ' = Tail(msgQ) /\ Proper(batches, msg) /\ AdapterKeeps
         /\ \/ UNCHANGED <<batches, requests>> /\ (msg.k \notin {"turn", "done"} \/ AddTurn \/ ResumeRefused)
            \/ FoundTurn /\ Item(batches, msg.batch, msg.item) /\ Store(msg.batch, msg.item, "ok")
            \/ /\ msg.k \in {"turn", "done"} /\ UNCHANGED apiQ /\ UNCHANGED clientData
               /\ Item(batches, msg.batch, msg.item)
               /\ \E err \in Errors : AnswerIfLast(msg.batch, msg.item, err)
  <1>1. /\ msgQ # << >> /\ msgQ' = Tail(msgQ) /\ AdapterKeeps
    BY DEF AdapterStep, StartBatch, AddTurn, FoundTurn, UnknownTurn, AddDone, RemoveDone, PauseDone, ResumeDone,
           ResumeRefused, ModifyDone, RemoveClient, Swept, RestartGeofences, Restored, BreachReported, Receive,
           Turn, Done
  <1>2. Proper(batches, msg)
    BY <1>1, MsgProper DEF Typed
  <1>3. CASE StartBatch \/ RemoveClient \/ Swept \/ RestartGeofences \/ Restored \/ BreachReported
    BY <1>1, <1>2, <1>3 DEF StartBatch, RemoveClient, Swept, RestartGeofences, Restored, BreachReported, Receive
  <1>4. CASE AddTurn \/ ResumeRefused
    BY <1>1, <1>2, <1>4 DEF AddTurn, ResumeRefused
  <1>5. CASE FoundTurn
    BY <1>1, <1>2, <1>5 DEF FoundTurn, Turn, Receive, Proper
  <1>6. CASE UnknownTurn \/ AddDone \/ RemoveDone \/ PauseDone \/ ResumeDone \/ ModifyDone
    <2>1. msg.k \in {"turn", "done"} /\ UNCHANGED apiQ /\ UNCHANGED clientData
      BY <1>6 DEF UnknownTurn, AddDone, RemoveDone, PauseDone, ResumeDone, ModifyDone, Turn, Done, Receive
    <2>2. Item(batches, msg.batch, msg.item)
      BY <1>2, <2>1 DEF Proper
    <2>3. {"unknown", "ok", Result} \subseteq Errors
      BY DEF Errors, Result
    <2>4. \E err \in {"unknown", "ok", Result} : AnswerIfLast(msg.batch, msg.item, err)
      BY <1>6 DEF UnknownTurn, AddDone, RemoveDone, PauseDone, ResumeDone, ModifyDone
    <2> QED BY <1>1, <1>2, <2>1, <2>2, <2>3, <2>4
  <1> QED BY <1>3, <1>4, <1>5, <1>6 DEF AdapterStep

\* Only clients add commands.
LEMMA CommandsKept ==
  ASSUME Typed, AdapterStep \/ LocApiStep \/ ModemStep
  PROVE  Grows /\ DOMAIN batches' = DOMAIN batches /\ UNCHANGED <<live, dict, owner, nextId>>
  <1>1. CASE LocApiStep \/ ModemStep
    <2>1. ModemKeeps
      BY <1>1 DEF LocApiStep, GiveTurn, OpenLink, ModemAdds, ModemChanges, ModemFails, ModemRefuses, Serving,
             ModemStep, ModemReset, Breach
    <2> QED BY <2>1, SameGrows DEF ModemKeeps, clientVars
  <1>2. CASE AdapterStep
    <2>1. Grows /\ AdapterKeeps
      BY <1>2, AdapterTyped, AdapterAnswers
    <2>2. DOMAIN batches' = DOMAIN batches
      <3>1. ASSUME Item(batches, msg.batch, msg.item), Store(msg.batch, msg.item, "ok")
            PROVE  DOMAIN batches' = DOMAIN batches
        BY <3>1 DEF Store, Typed, BatchesTyped
      <3>2. ASSUME Item(batches, msg.batch, msg.item), NEW err \in Errors, AnswerIfLast(msg.batch, msg.item, err)
            PROVE  DOMAIN batches' = DOMAIN batches
        BY <3>2, AnswerEffect DEF Typed
      <3> QED BY <1>2, <3>1, <3>2, AdapterAnswers
    <2> QED BY <2>1, <2>2 DEF AdapterKeeps
  <1> QED BY <1>1, <1>2

-----------------------------------------------------------------------------
(* What commands name *)

\* No command on a fence follows its removal, and none comes before its add: the
\* client base takes an id out of its dictionary when it sends the removal.
Sensible ==
  \A b \in DOMAIN batches :
    /\ \A i \in Items(b) : /\ batches[b].ids[i] < nextId
                           /\ owner[batches[b].ids[i]] = batches[b].client
                           /\ batches[b].cmd = "remove" => ~ Known(batches[b].ids[i])
    /\ \A i, j \in Items(b) : i < j => batches[b].ids[i] < batches[b].ids[j]
    /\ \A a \in DOMAIN batches : \A i \in Items(a), j \in Items(b) :
         a < b /\ batches[a].ids[i] = batches[b].ids[j] => batches[a].cmd # "remove" /\ batches[b].cmd # "add"

LEMMA IssueSensible ==
  ASSUME Typed, ClientsTyped', Sensible, NEW k, NEW c \in Clients, NEW ids, NEW masks, Issued(k, c, ids, masks)
  PROVE  Sensible'
  <1> DEFINE N == Len(batches) + 1
             r == Batch(k, c, ids, masks)
  <1>0. \A n \in 1 .. MaxFences + 1 : n \in Nat
    BY ConstantsAssumption
  <1>1. /\ batches' = Append(batches, r) /\ batches \in Seq(Commands) /\ nextId <= nextId' /\ nextId \in Nat
        /\ nextId' \in Nat
    <2>1. nextId \in Nat /\ nextId' \in Nat
      BY <1>0 DEF Typed, ClientsTyped
    <2> QED BY <2>1 DEF Issued, Issue, Typed, BatchesTyped
  <1>2. r.cmd = k /\ r.client = c /\ r.ids = ids
    BY DEF Batch
  <1> HIDE DEF r
  <1>3. /\ DOMAIN batches' = DOMAIN batches \cup {N} /\ batches'[N] = r /\ N \notin DOMAIN batches
        /\ \A b \in DOMAIN batches : batches'[b] = batches[b] /\ b < N /\ b \in Nat
        /\ N \in Nat /\ ids \in Seq(Ids)
    BY <1>1 DEF Issued
  <1> HIDE DEF N
  <1>4. ASSUME NEW b \in DOMAIN batches, NEW i \in Items(b)
        PROVE  /\ batches[b].ids[i] \in Ids /\ batches[b].ids[i] < nextId'
               /\ owner'[batches[b].ids[i]] = batches[b].client
               /\ batches[b].cmd = "remove" => dict'[batches[b].ids[i]] = NoMask
               /\ batches[b].ids[i] < nextId
    <2>1. batches[b].ids[i] \in Ids
      BY ItemFacts DEF Typed, Item, Items
    <2>2. batches[b].ids[i] < nextId /\ batches[b].ids[i] \in Nat
      BY <2>1 DEF Sensible, Ids
    <2>3. batches[b].ids[i] < nextId'
      BY <1>1, <2>2
    <2>4. \A id \in Ids : id < nextId => owner'[id] = owner[id] /\ (~ Known(id) => dict'[id] = NoMask)
      BY DEF Issued
    <2>5. owner[batches[b].ids[i]] = batches[b].client /\ (batches[b].cmd = "remove" => ~ Known(batches[b].ids[i]))
      BY DEF Sensible
    <2> QED BY <2>1, <2>2, <2>3, <2>4, <2>5
  <1>5. ASSUME NEW a \in DOMAIN batches, NEW i \in Items(a), NEW j \in DOMAIN ids, batches[a].ids[i] = ids[j]
        PROVE  batches[a].cmd # "remove" /\ k # "add"
    <2>1. batches[a].ids[i] < nextId /\ batches[a].ids[i] \in Nat
      BY <1>4 DEF Ids
    <2>2. k # "add"
      BY <1>1, <1>5, <2>1 DEF Issued
    <2>3. Known(ids[j])
      BY <2>2 DEF Issued
    <2> QED BY <1>5, <2>2, <2>3 DEF Sensible
  <1> SUFFICES ASSUME NEW b \in DOMAIN batches'
               PROVE  /\ \A i \in DOMAIN batches'[b].ids :
                           /\ batches'[b].ids[i] < nextId'
                           /\ owner'[batches'[b].ids[i]] = batches'[b].client
                           /\ batches'[b].cmd = "remove" => dict'[batches'[b].ids[i]] = NoMask
                      /\ \A i, j \in DOMAIN batches'[b].ids : i < j => batches'[b].ids[i] < batches'[b].ids[j]
                      /\ \A a \in DOMAIN batches' : \A i \in DOMAIN batches'[a].ids, j \in DOMAIN batches'[b].ids :
                           a < b /\ batches'[a].ids[i] = batches'[b].ids[j]
                             => batches'[a].cmd # "remove" /\ batches'[b].cmd # "add"
    BY DEF Sensible, Items, Known
  <1>6. CASE b \in DOMAIN batches
    <2>1. \A a \in DOMAIN batches' : a < b => a \in DOMAIN batches
      BY <1>3, <1>6
    <2> QED BY <1>3, <1>4, <1>6, <2>1 DEF Sensible, Items
  <1>7. CASE b = N
    <2>1. \A a \in DOMAIN batches' : a < b => a \in DOMAIN batches
      BY <1>3, <1>7
    <2> QED BY <1>2, <1>3, <1>5, <1>7, <2>1 DEF Issued, Items
  <1> QED BY <1>3, <1>6, <1>7

LEMMA SensibleInvariant == Spec => []Sensible
  <1>1. Init => Sensible
    BY DEF Init, Sensible
  <1>2. ASSUME Typed, Sensible, [Next]_vars
        PROVE  Sensible'
    <2>1. CASE UNCHANGED vars
      BY <1>2, <2>1 DEF vars, clientVars, Sensible, Items, Known
    <2>2. CASE AdapterStep \/ LocApiStep \/ ModemStep
      <3>1. Grows /\ DOMAIN batches' = DOMAIN batches /\ UNCHANGED <<dict, owner, nextId>>
        BY <1>2, <2>2, CommandsKept
      <3> QED BY <1>2, <3>1 DEF Sensible, Items, Grows, Known
    <2>3. ASSUME NEW c \in Clients, Destroy(c)
          PROVE  Sensible'
      BY <1>2, <2>3 DEF Destroy, Sensible, Items, Known
    <2>4. CASE ClientStep
      BY <1>2, <2>3, <2>4, ClientActs, IssueSensible
    <2> QED BY <1>2, <2>1, <2>2, <2>4 DEF Next
  <1> QED BY <1>1, <1>2, TypedInvariant, PTL DEF Spec


-----------------------------------------------------------------------------
(* What steps do to the order, and to what is pending *)

\* The answer of a handler to an item, which then is through.
Finishing == UnknownTurn \/ AddDone \/ RemoveDone \/ PauseDone \/ ResumeDone \/ ResumeRefused \/ ModifyDone

LEMMA AskedCall ==
  ASSUME Typed, msgQ # << >>, msg.k = "turn", NEW h \in HwIds \cup {0}
  PROVE  LET c == Call(cmd.cmd, h, Watching(cmd.ids[msg.item], cmd.masks[msg.item]),
                       Of("done", msg.batch, msg.item))
         IN  c \in Calls /\ c.reply.k = "done" /\ c.reply.batch = msg.batch /\ c.reply.item = msg.item
  <1> DEFINE r == Of("done", msg.batch, msg.item)
             w == Watching(cmd.ids[msg.item], cmd.masks[msg.item])
             c == Call(cmd.cmd, h, w, r)
  <1>1. Item(batches, msg.batch, msg.item)
    BY MsgProper DEF Typed, Proper
  <1>2. cmd.cmd \in Cmds /\ w \in Described /\ msg.batch \in 1 .. MaxCommands /\ msg.item \in 0 .. MaxBatch
    <2>1. msg.item \in 1 .. MaxBatch
      BY <1>1, ItemFacts DEF Typed
    <2>2. msg.item \in 0 .. MaxBatch
      BY <2>1, ConstantsAssumption
    <2> QED BY <1>1, <2>2, ItemFacts DEF Typed, cmd
  <1>3. r \in Messages /\ r.k = "done" /\ r.batch = msg.batch /\ r.item = msg.item
    <2>1. "done" \in Kinds
      BY DEF Kinds
    <2> QED BY <1>2, <2>1, OfTyped
  <1> HIDE DEF r, w
  <1>4. c \in Calls /\ c.reply = r
    BY <1>2, <1>3 DEF Calls, Call, Ops
  <1> QED BY <1>3, <1>4 DEF r, w

LEMMA AdapterPending ==
  ASSUME Typed, Ordered, AdapterStep
  PROVE  /\ Ordered'
         /\ Finishing => \A c, j : c = msg.batch /\ j = msg.item => EndsPending(c, j)
         /\ ~ Finishing => SamePending
  <1>1. msgQ # << >> /\ msgQ' = Tail(msgQ)
    BY AdapterAnswers
  <1>2. MsgLoses(1) /\ msg = msgQ[1]
    BY <1>1, LosesFacts
  <1>3. CASE Finishing
    <2>1. msg.k \in {"turn", "done"} /\ UNCHANGED apiQ
      BY <1>3 DEF Finishing, UnknownTurn, AddDone, RemoveDone, PauseDone, ResumeDone, ResumeRefused, ModifyDone,
                  Turn, Done, Receive
    <2> QED BY <1>1, <1>3, <2>1, UsedPending
  <1>4. CASE StartBatch
    <2>1. ~ Finishing
      BY <1>4 DEF Finishing, StartBatch, UnknownTurn, AddDone, RemoveDone, PauseDone, ResumeDone, ResumeRefused, ModifyDone,
                  Turn, Done, Receive
    <2> QED BY <1>4, <2>1, StartPending
  <1>5. CASE AddTurn \/ FoundTurn
    <2>1. msg.k = "turn"
      BY <1>5 DEF AddTurn, FoundTurn, Turn, Receive
    <2>2. ~ Finishing
      BY <1>5 DEF Finishing, AddTurn, FoundTurn, UnknownTurn, AddDone, RemoveDone, PauseDone, ResumeDone, ResumeRefused,
                  ModifyDone, Turn, Done, Receive
    <2>3. \E h \in HwIds \cup {0} : Request(<<Call(cmd.cmd, h, Watching(cmd.ids[msg.item], cmd.masks[msg.item]),
                                                   Of("done", msg.batch, msg.item))>>)
      <3>1. cmd.ids[msg.item] \in Ids
        BY <1>1, <2>1, MsgProper, ItemFacts DEF Typed, Proper, cmd
      <3>2. geofenceIds[cmd.ids[msg.item]] \in HwIds \cup {0}
        BY <3>1 DEF Typed, MapsTyped
      <3> QED BY <1>5, <3>2 DEF AddTurn, FoundTurn, Ask
    <2>4. Ordered' /\ \A b, i : Pending(b, i)' <=> Pending(b, i)
      BY <1>1, <2>1, <2>3, AskedCall, AskPending
    <2> QED BY <2>2, <2>4 DEF SamePending
  <1>6. CASE RemoveClient \/ Swept \/ RestartGeofences \/ Restored \/ BreachReported
    <2>1. msg.k \in {"removeClient", "swept", "engineUp", "restored", "breach"}
      BY <1>6 DEF RemoveClient, Swept, RestartGeofences, Restored, BreachReported, Receive
    <2>2. ~ Finishing /\ ~ FoundTurn
      BY <2>1 DEF Finishing, FoundTurn, UnknownTurn, AddDone, RemoveDone, PauseDone, ResumeDone, ResumeRefused, ModifyDone,
                  Turn, Done, Receive
    <2>3. PICK s \in Seq(Calls) : Request(s) /\ \A k \in DOMAIN s : s[k].reply.k \in {"swept", "restored", "ignore"}
      <3>1. ~ StartBatch /\ ~ AddTurn
        BY <2>1 DEF StartBatch, AddTurn, Turn, Receive
      <3>2. PICK s \in Seq(Calls) : Request(s) /\ \A k \in DOMAIN s : Other(s[k])
        BY <2>2, AdapterRequests
      <3> QED BY <3>1, <3>2 DEF Other
    <2>4. ApiLoses(0)
      BY <2>3, LosesFacts DEF ApiRank
    <2>5. MsgRank(msgQ[1]) = 0
      BY <1>2, <2>1 DEF MsgRank
    <2>6. Ordered' /\ \A b, i : Pending(b, i)' <=> Pending(b, i)
      BY <1>2, <2>4, <2>5, QuietPending
    <2> QED BY <2>2, <2>6 DEF SamePending
  <1> QED BY <1>3, <1>4, <1>5, <1>6 DEF AdapterStep, Finishing

\* What the modem says of a breach.
LEMMA BreachPosts ==
  ASSUME Typed, NEW hw \in HwIds, NEW type \in {"enter", "exit"}, Breach(hw, type)
  PROVE  /\ \E m \in Messages : /\ msgQ' = Append(msgQ, m) /\ m.k = "breach" /\ m.hw = hw
                                /\ modem[hw] # NoFence /\ m.fence.id = modem[hw].id
         /\ UNCHANGED <<apiQ, modemVars>> /\ ModemKeeps
  <1> DEFINE f == [modem[hw] EXCEPT !.mask = {type}]
             m == [Blank EXCEPT !.k = "breach", !.hw = hw, !.fence = f]
  <1>1. f \in Described /\ f.id = modem[hw].id
    <2>1. modem[hw] \in Fence
      BY DEF Breach, Typed, ModemTyped
    <2> QED BY <2>1 DEF Fence, Described
  <1>2. msgQ' = Append(msgQ, m) /\ UNCHANGED <<apiQ, modemVars>> /\ ModemKeeps /\ modem[hw] # NoFence
    BY DEF Breach, Post
  <1> HIDE DEF f
  <1>3. m \in Messages /\ m.k = "breach" /\ m.hw = hw /\ m.fence = f
    BY <1>1, BlankTyped DEF Messages, Kinds, Blank
  <1> QED BY <1>1, <1>2, <1>3

LEMMA ModemPending ==
  ASSUME Typed, Ordered, LocApiStep \/ ModemStep
  PROVE  Ordered' /\ SamePending
  <1> SUFFICES Ordered' /\ \A b, i : Pending(b, i)' <=> Pending(b, i)
    BY DEF SamePending
  <1>1. ASSUME LocApiStep
        PROVE  Ordered' /\ \A b, i : Pending(b, i)' <=> Pending(b, i)
    <2> DEFINE c == Head(apiQ)
    <2>1. apiQ # << >> /\ apiQ' = Tail(apiQ) /\ c = apiQ[1] /\ ApiLoses(1) /\ ProperCall(batches, c) /\ c \in Calls
      BY <1>1, ServedCall, LosesFacts
    <2> HIDE DEF c
    <2>2. CASE OpenLink
      <3> DEFINE m == [Blank EXCEPT !.k = "engineUp"]
      <3>1. m \in Messages /\ m.k = "engineUp"
        BY BlankTyped DEF Messages, Kinds, Blank
      <3>2. msgQ' = Append(msgQ, m) /\ c.op = "open"
        BY <2>2 DEF OpenLink, Post, Serving, c
      <3> HIDE DEF m
      <3>3. MsgLoses(0) /\ ApiRank(apiQ[1]) = 0
        BY <2>1, <3>1, <3>2, LosesFacts DEF MsgRank, ApiRank, ProperCall, Blank
      <3> QED BY <2>1, <3>3, QuietPending
    <2>3. ASSUME NEW hw \in HwIds \cup {0}, NEW ok \in BOOLEAN, Reply(hw, ok)
          PROVE  Ordered' /\ \A b, i : Pending(b, i)' <=> Pending(b, i)
      <3>1. CASE c.reply.k = "ignore" /\ UNCHANGED msgQ
        <4>1. MsgLoses(0) /\ ApiRank(apiQ[1]) = 0
          BY <2>1, <3>1, LosesFacts DEF ApiRank
        <4> QED BY <2>1, <4>1, QuietPending
      <3>2. ASSUME NEW m, Answering(m, hw, ok), msgQ' = Append(msgQ, m)
            PROVE  Ordered' /\ \A b, i : Pending(b, i)' <=> Pending(b, i)
        <4>1. m \in Messages /\ m.k = c.reply.k /\ m.batch = c.reply.batch /\ m.item = c.reply.item
          BY <3>2 DEF Answering, c
        <4>2. CASE c.reply.k \in {"turn", "done"}
          BY <2>1, <3>2, <4>1, <4>2, ReplyPending DEF c
        <4>3. CASE c.reply.k \notin {"turn", "done"}
          <5>1. c.reply.k # "command"
            BY <2>1 DEF ProperCall, ForItem, ForSweep, ForRestart, ForPause, Calls, Ops, Blank
          <5>2. MsgLoses(0) /\ ApiRank(apiQ[1]) = 0
            BY <2>1, <3>2, <4>1, <4>3, <5>1, LosesFacts DEF ApiRank, MsgRank
          <5> QED BY <2>1, <5>2, QuietPending
        <4> QED BY <4>2, <4>3
      <3> QED BY <2>1, <2>3, <3>1, <3>2, ReplyPosts DEF c
    <2>4. c.hw \in HwIds \cup {0}
      BY <2>1 DEF Calls
    <2>5. CASE GiveTurn
      BY <2>3, <2>5 DEF GiveTurn
    <2>6. CASE ModemAdds
      BY <2>3, <2>6, ModemAddsFacts
    <2>7. CASE ModemChanges \/ ModemFails \/ ModemRefuses
      BY <2>3, <2>4, <2>7 DEF ModemChanges, ModemFails, ModemRefuses, c
    <2> QED BY <1>1, <2>2, <2>5, <2>6, <2>7 DEF LocApiStep
  <1>2. ASSUME ModemStep
        PROVE  MsgLoses(0) /\ ApiLoses(0)
    <2>1. CASE ModemReset
      <3> DEFINE s == <<Open>>
      <3>1. s \in Seq(Calls) /\ s[1] = Open /\ DOMAIN s = {1}
        BY BlankTyped DEF Open, Call, Calls, Ops
      <3>2. Request(s) /\ UNCHANGED msgQ
        BY <2>1 DEF ModemReset
      <3> HIDE DEF s
      <3>3. ApiRank(Open) = 0
        BY DEF ApiRank, Open, Call, Blank
      <3> QED BY <3>1, <3>2, <3>3, LosesFacts
    <2>2. ASSUME NEW hw \in HwIds, NEW type \in {"enter", "exit"}, Breach(hw, type)
          PROVE  MsgLoses(0) /\ ApiLoses(0)
      <3>1. \E m \in Messages : msgQ' = Append(msgQ, m) /\ m.k = "breach"
        BY <2>2, BreachPosts
      <3> QED BY <2>2, <3>1, LosesFacts DEF Breach, MsgRank
    <2> QED BY <1>2, <2>1, <2>2 DEF ModemStep
  <1> QED BY <1>1, <1>2, QuietPending

LEMMA LeavePending ==
  ASSUME Typed, Ordered, NEW c \in Clients, Destroy(c)
  PROVE  Ordered' /\ SamePending
  <1> DEFINE m == [Blank EXCEPT !.k = "removeClient", !.client = c]
  <1>1. m \in Messages /\ MsgRank(m) = 0
    BY RemoveClientTyped DEF MsgRank
  <1>2. msgQ' = Append(msgQ, m) /\ UNCHANGED apiQ
    BY DEF Destroy, Post
  <1> HIDE DEF m
  <1> QED BY <1>1, <1>2, LosesFacts, QuietPending DEF SamePending

LEMMA OrderedInvariant == Spec => []Ordered
  <1>1. Init => Ordered
    BY DEF Init, Ordered, MsgOrdered, ApiOrdered, BothOrdered
  <1>2. ASSUME Typed, Ordered, [Next]_vars
        PROVE  Ordered'
    <2>1. CASE UNCHANGED vars
      BY <1>2, <2>1 DEF vars, Ordered, MsgOrdered, ApiOrdered, BothOrdered
    <2>2. CASE ClientStep
      <3>1. PICK c \in Clients : Destroy(c) \/ \E k, ids, masks : Issued(k, c, ids, masks)
        BY <1>2, <2>2, ClientActs
      <3>2. (\E k, ids, masks : Issued(k, c, ids, masks)) => Ordered'
        BY <1>2, IssuePending DEF Issued
      <3> QED BY <1>2, <3>1, <3>2, LeavePending
    <2> QED BY <1>2, <2>1, <2>2, AdapterPending, ModemPending DEF Next
  <1> QED BY <1>1, <1>2, TypedInvariant, PTL DEF Spec

-----------------------------------------------------------------------------
(* A calm run: the modem neither restarts nor refuses *)

Calm == happened \cap {"refusal", "reset"} = {}

\* A message that tells the adapter to forget fence id, which was h.
Removes(B, m, h, id) == /\ m.k = "done" /\ m.ok /\ m.hw = h
                        /\ B[m.batch].cmd = "remove" /\ B[m.batch].ids[m.item] = id

Unbroken == /\ link
            /\ \A n \in DOMAIN apiQ : apiQ[n].op # "open" /\ apiQ[n].reply.k # "restored"
            /\ \A n \in DOMAIN msgQ : msgQ[n].k \notin {"restored", "engineUp"}

\* What the adapter knows or is about to know is with the modem, until it hears
\* of its removal.
AddsHold == \A h \in HwIds : \A n \in DOMAIN msgQ : Announces(batches, msgQ[n], h) => modem[h] # NoFence
IdsHold  == \A h \in HwIds, id \in Ids : geofenceIds[id] = h =>
              modem[h] # NoFence \/ \E n \in DOMAIN msgQ : Removes(batches, msgQ[n], h, id)

\* Nothing that removes a fence comes before a request to resume it, so that the
\* modem can do it and says so.
ResumesHold ==
  \A n \in DOMAIN apiQ : apiQ[n].op = "resume" =>
    /\ modem[apiQ[n].hw] # NoFence
    /\ \A m \in DOMAIN apiQ : m < n /\ apiQ[m].hw = apiQ[n].hw => apiQ[m].reply.k # "swept"
ResumesWork ==
  \A n \in DOMAIN msgQ : msgQ[n].k = "done" /\ batches[msgQ[n].batch].cmd = "resume" => msgQ[n].ok

CalmRun == Calm => Unbroken /\ AddsHold /\ IdsHold /\ ResumesHold /\ ResumesWork

LEMMA GrownRemoves ==
  ASSUME Typed, Grows, NEW n \in DOMAIN msgQ, NEW h, NEW id
  PROVE  Removes(batches', msgQ[n], h, id) <=> Removes(batches, msgQ[n], h, id)
  BY DEF Typed, MsgTyped, Grows, Proper, Item, Removes

LEMMA GrownDone ==
  ASSUME Typed, Grows, NEW n \in DOMAIN msgQ, msgQ[n].k = "done"
  PROVE  batches'[msgQ[n].batch].cmd = batches[msgQ[n].batch].cmd
  BY DEF Typed, MsgTyped, Grows, Proper, Item

\* Steps that leave the maps, the modem and its queue alone.
LEMMA QuietCalm ==
  ASSUME Typed, CalmRun, Grows, UNCHANGED <<mapVars, modemVars, apiQ>>, happened \subseteq happened',
         NEW m \in Messages, msgQ' = Append(msgQ, m), m.k \in {"command", "removeClient", "breach"}
  PROVE  CalmRun'
  <1> SUFFICES ASSUME Calm'
               PROVE  (Unbroken /\ AddsHold /\ IdsHold /\ ResumesHold /\ ResumesWork)'
    BY DEF CalmRun
  <1>1. Calm
    BY DEF Calm
  <1>2. Unbroken /\ AddsHold /\ IdsHold /\ ResumesHold /\ ResumesWork
    BY <1>1 DEF CalmRun
  <1> DEFINE L == Len(msgQ) + 1
  <1>3. /\ DOMAIN msgQ' = DOMAIN msgQ \cup {L} /\ msgQ'[L] = m
        /\ \A n \in DOMAIN msgQ : msgQ'[n] = msgQ[n]
    BY AppendFacts DEF Typed, MsgTyped
  <1> HIDE DEF L
  <1>4. Unbroken'
    BY <1>2, <1>3 DEF Unbroken, modemVars
  <1>5. AddsHold'
    <2>1. \A h : ~ Announces(batches', m, h)
      BY DEF Announces
    <2> QED BY <1>2, <1>3, <2>1, GrownAnnounces DEF AddsHold, modemVars
  <1>6. IdsHold'
    BY <1>2, <1>3, GrownRemoves DEF IdsHold, modemVars, mapVars
  <1>7. ResumesHold'
    BY <1>2 DEF ResumesHold, modemVars
  <1>8. ResumesWork'
    BY <1>2, <1>3, GrownDone DEF ResumesWork
  <1> QED BY <1>4, <1>5, <1>6, <1>7, <1>8

LEMMA AdapterCalm ==
  ASSUME Typed, CalmRun, MapsInv, Ordered, Sensible, AdapterStep
  PROVE  CalmRun'
  <1>1. /\ msgQ # << >> /\ msgQ' = Tail(msgQ) /\ Proper(batches, msg) /\ AdapterKeeps /\ Grows
        /\ 1 \in DOMAIN msgQ /\ msg = msgQ[1]
        /\ \A n \in DOMAIN msgQ' : n + 1 \in DOMAIN msgQ /\ msgQ'[n] = msgQ[n + 1]
        /\ \A n \in DOMAIN msgQ : n # 1 => \E k \in DOMAIN msgQ' : msgQ'[k] = msgQ[n]
    <2>1. msgQ # << >> /\ msgQ' = Tail(msgQ) /\ Proper(batches, msg) /\ AdapterKeeps /\ Grows
      BY AdapterAnswers, CommandsKept
    <2> QED BY <2>1, TailFacts DEF Typed, MsgTyped, msg
  <1> SUFFICES ASSUME Calm'
               PROVE  (Unbroken /\ AddsHold /\ IdsHold /\ ResumesHold /\ ResumesWork)'
    BY DEF CalmRun
  <1>2. Calm
    BY <1>1 DEF Calm, AdapterKeeps
  <1>3. Unbroken /\ AddsHold /\ IdsHold /\ ResumesHold /\ ResumesWork
    BY <1>2 DEF CalmRun
  <1>4. \/ FoundTurn /\ FoundCall \in Calls /\ apiQ' = Append(apiQ, FoundCall)
        \/ \E s \in Seq(Calls) : Request(s) /\ \A k \in DOMAIN s : s[k].op \in {"turn", "add", "remove", "pause"}
                                                                 /\ s[k].reply.k # "restored"
    <2>1. msg.k # "engineUp"
      BY <1>1, <1>3 DEF Unbroken
    <2>2. ~ RestartGeofences
      BY <2>1 DEF RestartGeofences, Receive
    <2> QED BY <2>2, AdapterRequests DEF Other
  <1>5. apiQ \in Seq(Calls) /\ UNCHANGED <<link, modem>>
    BY <1>1 DEF Typed, ApiTyped, AdapterKeeps, modemVars
  <1>6. FoundTurn => /\ FoundCall.op = cmd.cmd /\ cmd.cmd \in Cmds /\ FoundCall.reply.k = "done" /\ msg.k = "turn"
                     /\ FoundCall.hw = geofenceIds[cmd.ids[msg.item]] /\ FoundCall.hw \in HwIds
                     /\ cmd.ids[msg.item] \in Ids /\ Item(batches, msg.batch, msg.item)
    <2> SUFFICES ASSUME FoundTurn
                 PROVE  /\ FoundCall.op = cmd.cmd /\ cmd.cmd \in Cmds /\ FoundCall.reply.k = "done" /\ msg.k = "turn"
                        /\ FoundCall.hw = geofenceIds[cmd.ids[msg.item]] /\ FoundCall.hw \in HwIds
                        /\ cmd.ids[msg.item] \in Ids /\ Item(batches, msg.batch, msg.item)
      OBVIOUS
    <2>1. msg.k = "turn" /\ geofenceIds[cmd.ids[msg.item]] # 0
      BY DEF FoundTurn, Turn, Receive
    <2>2. cmd.cmd \in Cmds /\ cmd.ids[msg.item] \in Ids /\ Item(batches, msg.batch, msg.item)
      BY <1>1, <2>1, ItemFacts DEF Proper, Typed, cmd
    <2>3. geofenceIds[cmd.ids[msg.item]] \in HwIds
      BY <2>1, <2>2 DEF Typed, MapsTyped
    <2>4. Of("done", msg.batch, msg.item).k = "done"
      BY DEF Of, Blank
    <2> QED BY <2>1, <2>2, <2>3, <2>4 DEF FoundCall, Call
  <1>7. \A n \in DOMAIN apiQ' :
          \/ n \in DOMAIN apiQ /\ apiQ'[n] = apiQ[n] /\ n \in Nat
          \/ /\ n \notin DOMAIN apiQ /\ n \in Nat /\ \A m \in DOMAIN apiQ : m < n
             /\ \/ FoundTurn /\ apiQ'[n] = FoundCall /\ DOMAIN apiQ' = DOMAIN apiQ \cup {n}
                \/ apiQ'[n].op \in {"turn", "add", "remove", "pause"} /\ apiQ'[n].reply.k # "restored"
    <2>1. CASE FoundTurn /\ FoundCall \in Calls /\ apiQ' = Append(apiQ, FoundCall)
      BY <1>5, <2>1, AppendFacts
    <2>2. ASSUME NEW s \in Seq(Calls), Request(s),
                 \A k \in DOMAIN s : s[k].op \in {"turn", "add", "remove", "pause"} /\ s[k].reply.k # "restored"
          PROVE  \A n \in DOMAIN apiQ' :
                   \/ n \in DOMAIN apiQ /\ apiQ'[n] = apiQ[n] /\ n \in Nat
                   \/ /\ n \notin DOMAIN apiQ /\ n \in Nat /\ \A m \in DOMAIN apiQ : m < n
                      /\ apiQ'[n].op \in {"turn", "add", "remove", "pause"} /\ apiQ'[n].reply.k # "restored"
      <3>1. apiQ' = apiQ \o s
        BY <2>2 DEF Request
      <3> SUFFICES ASSUME NEW n \in DOMAIN (apiQ \o s), n \notin DOMAIN apiQ
                   PROVE  /\ n \in Nat /\ \A m \in DOMAIN apiQ : m < n
                          /\ n - Len(apiQ) \in DOMAIN s /\ (apiQ \o s)[n] = s[n - Len(apiQ)]
        BY <1>5, <2>2, <3>1, ConcatFacts
      <3> QED BY <1>5
    <2> QED BY <1>4, <2>1, <2>2
  <1>8. Unbroken'
    <2>1. \A n \in DOMAIN apiQ' : apiQ'[n].op # "open" /\ apiQ'[n].reply.k # "restored"
      BY <1>3, <1>6, <1>7 DEF Unbroken, Cmds
    <2> QED BY <1>1, <1>3, <1>5, <2>1 DEF Unbroken
  <1>9. AddsHold'
    BY <1>1, <1>3, <1>5, GrownAnnounces DEF AddsHold
  <1>10. IdsHold'
    <2> SUFFICES ASSUME NEW h \in HwIds, NEW id \in Ids, geofenceIds'[id] = h, modem[h] = NoFence
                 PROVE  \E n \in DOMAIN msgQ' : Removes(batches', msgQ'[n], h, id)
      BY <1>5 DEF IdsHold
    <2>1. geofenceIds[id] = h
      BY <1>1, <1>3, AdapterMaps DEF AddsHold
    <2>2. PICK n \in DOMAIN msgQ : Removes(batches, msgQ[n], h, id)
      BY <1>3, <2>1 DEF IdsHold
    <2>3. CASE n = 1
      <3>1. msg.k = "done" /\ msg.ok /\ msg.hw = h /\ cmd.cmd = "remove"
        BY <1>1, <2>2, <2>3 DEF Removes, cmd
      <3>2. RemoveDone
        BY <3>1 DEF AdapterStep, StartBatch, AddTurn, FoundTurn, UnknownTurn, AddDone, PauseDone, ResumeDone,
             ResumeRefused, ModifyDone, RemoveClient, Swept, RestartGeofences, Restored, BreachReported, Receive,
             Turn, Done
      <3>3. geofences[h].id = id /\ geofences[h] # NoFence /\ h # 0 /\ geofenceIds \in [Ids -> HwIds \cup {0}]
        BY <2>1, ConstantsAssumption DEF MapsInv, IdsNameOwnFences, HwIds, NoFence, Ids, Typed, MapsTyped
      <3>4. geofenceIds'[id] = 0
        BY <2>1, <3>1, <3>2, <3>3 DEF RemoveDone, RemoveItem
      <3> QED BY <3>3, <3>4
    <2>4. CASE n # 1
      BY <1>1, <2>2, <2>4, GrownRemoves
    <2> QED BY <2>3, <2>4
  <1>11. ASSUME FoundTurn, cmd.cmd = "resume"
         PROVE  /\ modem[FoundCall.hw] # NoFence
                /\ \A m \in DOMAIN apiQ : apiQ[m].hw = FoundCall.hw => apiQ[m].reply.k # "swept"
    <2> DEFINE h == FoundCall.hw
               id == cmd.ids[msg.item]
    <2>1. h \in HwIds /\ id \in Ids /\ geofenceIds[id] = h /\ msg.k = "turn" /\ Item(batches, msg.batch, msg.item)
      BY <1>6, <1>11
    <2> HIDE DEF h
    <2>2. ASSUME NEW n \in DOMAIN msgQ, Removes(batches, msgQ[n], h, id)
          PROVE  FALSE
      <3> DEFINE a == msgQ[n].batch
                 j == msgQ[n].item
      <3>1. msgQ[n].k = "done" /\ batches[a].cmd = "remove" /\ batches[a].ids[j] = id /\ batches[msg.batch].cmd = "resume"
        BY <1>11, <2>2 DEF Removes, cmd
      <3>2. Item(batches, a, j) /\ a \in Nat /\ msg.batch \in Nat
        BY <1>1, <3>1, NumberFacts DEF Typed, MsgTyped, Proper
      <3>3. Before(msgQ[n], msg)
        BY <1>1, <2>1, <3>1, RankFacts DEF Ordered, MsgOrdered
      <3>4. a < msg.batch
        BY <3>1, <3>3 DEF Before
      <3> HIDE DEF a, j
      <3> QED BY <2>1, <3>1, <3>2, <3>4 DEF Sensible, Item, Items, id, cmd
    <2>3. modem[h] # NoFence
      BY <1>3, <2>1, <2>2 DEF IdsHold
    <2>4. ~ Sweeps(h)
      BY <2>1 DEF MapsInv, Handed, HandedOver
    <2> QED BY <2>3, <2>4 DEF Sweeps, h
  <1>12. ResumesHold'
    <2> SUFFICES ASSUME NEW n \in DOMAIN apiQ', apiQ'[n].op = "resume"
                 PROVE  /\ modem[apiQ'[n].hw] # NoFence
                        /\ \A m \in DOMAIN apiQ' : m < n /\ apiQ'[m].hw = apiQ'[n].hw => apiQ'[m].reply.k # "swept"
      BY <1>5 DEF ResumesHold
    <2>1. CASE n \in DOMAIN apiQ /\ apiQ'[n] = apiQ[n]
      <3>1. ASSUME NEW m \in DOMAIN apiQ', m < n
            PROVE  m \in DOMAIN apiQ /\ apiQ'[m] = apiQ[m]
        <4>1. m \notin DOMAIN apiQ => m \in Nat /\ n \in Nat /\ n < m
          BY <1>7, <2>1
        <4>2. m \in DOMAIN apiQ
          BY <3>1, <4>1
        <4> QED BY <1>7, <4>2
      <3> QED BY <1>3, <2>1, <3>1 DEF ResumesHold
    <2>2. CASE FoundTurn /\ apiQ'[n] = FoundCall /\ n \notin DOMAIN apiQ /\ DOMAIN apiQ' = DOMAIN apiQ \cup {n} /\ n \in Nat
      <3>1. cmd.cmd = "resume"
        BY <1>6, <2>2
      <3>2. \A m \in DOMAIN apiQ' : m < n => m \in DOMAIN apiQ /\ apiQ'[m] = apiQ[m]
        BY <1>7, <2>2
      <3> QED BY <1>11, <2>2, <3>1, <3>2
    <2> QED BY <1>7, <2>1, <2>2
  <1>13. ResumesWork'
    BY <1>1, <1>3, GrownDone DEF ResumesWork
  <1> QED BY <1>8, <1>9, <1>10, <1>12, <1>13

\* The modem loses a fence when it is asked to, and then says so.
LEMMA ModemLoses ==
  ASSUME Typed, LocApiStep, NEW h \in HwIds, modem[h] # NoFence, modem'[h] = NoFence
  PROVE  /\ ModemChanges /\ Head(apiQ).op = "remove" /\ Head(apiQ).hw = h
         /\ \/ ForSweep(Head(apiQ))
            \/ /\ ForItem(batches, Head(apiQ))
               /\ \E m : Answering(m, h, TRUE) /\ msgQ' = Append(msgQ, m)
  <1> DEFINE c == Head(apiQ)
  <1>1. apiQ # << >> /\ ProperCall(batches, c) /\ c \in Calls /\ c \in Calls
    BY ServedCall
  <1>2. modem \in [HwIds -> Fence \cup {NoFence}] /\ \A f \in Fence : f.id # 0 /\ NoFence.id = 0 /\ 0 \notin HwIds
    BY ConstantsAssumption DEF Typed, ModemTyped, Fence, Ids, HwIds, NoFence
  <1>3. ~ GiveTurn /\ ~ OpenLink /\ ~ ModemFails /\ ~ ModemRefuses
    BY DEF GiveTurn, OpenLink, ModemFails, ModemRefuses, modemVars
  <1>4. ~ ModemAdds
    <2> SUFFICES ASSUME ModemAdds
                 PROVE  FALSE
      OBVIOUS
    <2>1. c.fence \in Fence
      BY <1>1, AddedFence, ModemAddsFacts
    <2> HIDE DEF c
    <2>2. PICK hw \in HwIds : modem' = [modem EXCEPT ![hw] = c.fence]
      BY ModemAddsFacts DEF c
    <2> QED BY <1>2, <2>1, <2>2
  <1>5. ModemChanges /\ modem' = [modem EXCEPT ![c.hw] = Changed(modem[c.hw], c)] /\ c.op \in Cmds \ {"add"} /\ Reply(c.hw, TRUE)
    BY <1>3, <1>4 DEF LocApiStep, ModemChanges, Serving
  <1> HIDE DEF c
  <1>6. c.hw = h
    BY <1>2, <1>5
  <1>7. c.op = "remove"
    <2>1. modem[h] \in Fence
      BY <1>2
    <2>2. ASSUME c.op # "remove"
          PROVE  Changed(modem[h], c).id = modem[h].id
      BY <1>5, <2>1, <2>2 DEF Changed, Fence, Cmds
    <2> QED BY <1>2, <1>5, <1>6, <2>1, <2>2
  <1>8. ForSweep(c) \/ ForItem(batches, c)
    BY <1>1, <1>7 DEF ProperCall, Cmds, ForRestart, ForPause
  <1>9. ForItem(batches, c) => \E m : Answering(m, h, TRUE) /\ msgQ' = Append(msgQ, m)
    BY <1>1, <1>5, <1>6, ReplyPosts DEF ForItem, c
  <1> QED BY <1>5, <1>6, <1>7, <1>8, <1>9 DEF c

LEMMA ModemCalm ==
  ASSUME Typed, Typed', CalmRun, MapsInv, Ordered, Sensible, LocApiStep
  PROVE  CalmRun'
  <1> DEFINE c == Head(apiQ)
             L == Len(msgQ) + 1
  <1>1. /\ apiQ # << >> /\ 1 \in DOMAIN apiQ /\ c = apiQ[1] /\ ModemKeeps /\ Grows
        /\ ProperCall(batches, c) /\ c \in Calls
        /\ \A n \in DOMAIN apiQ' : n \in Nat /\ n + 1 \in DOMAIN apiQ /\ apiQ'[n] = apiQ[n + 1]
    BY ServedCall
  <1> HIDE DEF c
  <1> SUFFICES ASSUME Calm'
               PROVE  (Unbroken /\ AddsHold /\ IdsHold /\ ResumesHold /\ ResumesWork)'
    BY DEF CalmRun
  <1>2. Calm /\ ~ ModemRefuses
    <2>1. happened \subseteq happened'
      BY DEF LocApiStep, GiveTurn, OpenLink, ModemAdds, ModemChanges, ModemFails, ModemRefuses, Happens, Reuses
    <2> QED BY <2>1 DEF Calm, ModemRefuses, Happens
  <1>3. Unbroken /\ AddsHold /\ IdsHold /\ ResumesHold /\ ResumesWork
    BY <1>2 DEF CalmRun
  <1>4. c.op # "open" /\ c.reply.k # "restored" /\ ~ OpenLink /\ link /\ UNCHANGED link
    <2>1. c.op # "open" /\ c.reply.k # "restored" /\ link
      BY <1>1, <1>3 DEF Unbroken
    <2>2. ~ OpenLink
      BY <2>1 DEF OpenLink, Serving, c
    <2> QED BY <2>1, <2>2 DEF LocApiStep, GiveTurn, ModemAdds, ModemChanges, ModemFails, ModemRefuses, modemVars
  \* A success comes from the modem, and so does the failure of an add alone.
  <1>5. \/ UNCHANGED msgQ
        \/ \E m : /\ msgQ' = Append(msgQ, m) /\ m \in Messages
                  /\ m.k = c.reply.k /\ m.batch = c.reply.batch
                  /\ m.k = "done" /\ m.ok /\ c.op = "add" /\ m.hw \in HwIds => modem'[m.hw] # NoFence
                  /\ m.k = "done" /\ c.op = "resume" => m.ok
    <2> DEFINE Good(m) == /\ m \in Messages /\ m.k = c.reply.k /\ m.batch = c.reply.batch
                          /\ m.k = "done" /\ m.ok /\ c.op = "add" /\ m.hw \in HwIds => modem'[m.hw] # NoFence
                          /\ m.k = "done" /\ c.op = "resume" => m.ok
    <2>1. ASSUME NEW hw \in HwIds \cup {0}, NEW ok \in BOOLEAN, Reply(hw, ok),
                 ok /\ c.op = "add" => modem'[hw] # NoFence,
                 c.reply.k = "done" /\ c.op = "resume" => ok
          PROVE  UNCHANGED msgQ \/ \E m : msgQ' = Append(msgQ, m) /\ Good(m)
      <3>1. ASSUME NEW m, Answering(m, hw, ok)
            PROVE  Good(m)
        BY <2>1, <3>1 DEF Answering, c
      <3> HIDE DEF Good
      <3> QED BY <1>1, <2>1, <3>1, ReplyPosts
    <2>2. c.hw \in HwIds \cup {0}
      BY <1>1 DEF Calls
    <2>3. CASE GiveTurn
      <3>1. Reply(0, TRUE) /\ c.op = "turn"
        BY <2>3 DEF GiveTurn, Serving, c
      <3> QED BY <2>1, <3>1
    <2>4. CASE ModemAdds
      <3>1. c.op = "add" /\ c.fence \in Fence
        BY <1>1, <2>4, AddedFence, ModemAddsFacts DEF c
      <3>2. PICK hw \in HwIds : modem' = [modem EXCEPT ![hw] = c.fence] /\ Reply(hw, TRUE)
        BY <2>4, ModemAddsFacts DEF c
      <3>3. modem'[hw] = c.fence
        BY <3>2 DEF Typed, ModemTyped
      <3>4. modem'[hw] # NoFence
        BY <3>1, <3>3, ConstantsAssumption DEF Fence, NoFence, Ids
      <3> QED BY <2>1, <3>1, <3>2, <3>4
    <2>5. CASE ModemChanges
      <3>1. Reply(c.hw, TRUE) /\ c.op # "add"
        BY <2>5 DEF ModemChanges, Serving, c
      <3> QED BY <2>1, <2>2, <3>1
    <2>6. CASE ModemFails
      <3>1. Reply(c.hw, FALSE) /\ ~ Possible(c)
        BY <1>4, <2>6 DEF ModemFails, c
      <3>2. c.op # "resume"
        <4>1. c.op = "resume" => c.hw \in HwIds /\ modem[c.hw] # NoFence
          BY <1>1, <1>3 DEF ResumesHold, ProperCall, Cmds
        <4> QED BY <3>1, <4>1 DEF Possible, Present
      <3> QED BY <2>1, <2>2, <3>1, <3>2
    <2> QED BY <1>2, <1>4, <2>3, <2>4, <2>5, <2>6 DEF LocApiStep
  <1>6. /\ \A n \in DOMAIN msgQ : n \in DOMAIN msgQ' /\ msgQ'[n] = msgQ[n]
        /\ \A n \in DOMAIN msgQ' :
             \/ n \in DOMAIN msgQ /\ msgQ'[n] = msgQ[n]
             \/ /\ msgQ'[n].k = c.reply.k /\ msgQ'[n].batch = c.reply.batch
                /\ msgQ'[n].k = "done" /\ msgQ'[n].ok /\ c.op = "add" /\ msgQ'[n].hw \in HwIds => modem'[msgQ'[n].hw] # NoFence
                /\ msgQ'[n].k = "done" /\ c.op = "resume" => msgQ'[n].ok
    <2>1. CASE UNCHANGED msgQ
      BY <2>1
    <2>2. ASSUME NEW m \in Messages, msgQ' = Append(msgQ, m)
          PROVE  /\ DOMAIN msgQ' = DOMAIN msgQ \cup {Len(msgQ) + 1} /\ msgQ'[Len(msgQ) + 1] = m
                 /\ \A n \in DOMAIN msgQ : msgQ'[n] = msgQ[n]
      BY <2>2, AppendFacts DEF Typed, MsgTyped
    <2> QED BY <1>5, <2>1, <2>2
  <1>7. c.reply.k = "done" => ForItem(batches, c)
    BY <1>1 DEF ProperCall, ForItem, ForSweep, ForRestart, ForPause, Calls, Ops, Blank
  <1>8. UNCHANGED <<batches, mapVars>>
    BY <1>1 DEF ModemKeeps
  <1>9. Unbroken'
    <2>1. c.reply.k # "engineUp"
      BY <1>1 DEF ProperCall, ForItem, ForSweep, ForRestart, ForPause, Calls, Ops, Blank
    <2> QED BY <1>1, <1>3, <1>4, <1>6, <2>1 DEF Unbroken
  <1>10. AddsHold'
    <2> SUFFICES ASSUME NEW h \in HwIds, NEW n \in DOMAIN msgQ', Announces(batches', msgQ'[n], h), modem'[h] = NoFence
                 PROVE  FALSE
      BY DEF AddsHold
    <2>1. CASE n \in DOMAIN msgQ /\ msgQ'[n] = msgQ[n]
      <3>1. Announces(batches, msgQ[n], h) /\ modem[h] # NoFence
        BY <1>3, <1>8, <2>1 DEF AddsHold
      <3>2. c.op = "remove" /\ c.hw = h
        BY <3>1, ModemLoses DEF c
      <3>3. InUse(h)
        BY <1>1, <3>2 DEF InUse, Cmds
      <3> QED BY <2>1, <3>1, <3>3 DEF MapsInv, Handed, HandedOver
    <2>2. CASE /\ msgQ'[n].k = c.reply.k /\ msgQ'[n].batch = c.reply.batch
               /\ msgQ'[n].k = "done" /\ msgQ'[n].ok /\ c.op = "add" /\ msgQ'[n].hw \in HwIds => modem'[msgQ'[n].hw] # NoFence
      BY <1>4, <1>7, <1>8, <2>2 DEF Announces, ForItem
    <2> QED BY <1>6, <2>1, <2>2
  <1>11. IdsHold'
    <2> SUFFICES ASSUME NEW h \in HwIds, NEW id \in Ids, geofenceIds[id] = h, modem'[h] = NoFence
                 PROVE  \E n \in DOMAIN msgQ' : Removes(batches, msgQ'[n], h, id)
      BY <1>8 DEF IdsHold, mapVars
    <2>1. CASE modem[h] = NoFence
      BY <1>3, <1>6, <2>1 DEF IdsHold
    <2>2. CASE modem[h] # NoFence
      <3>1. /\ c.op = "remove" /\ c.hw = h
            /\ ForSweep(c) \/ (ForItem(batches, c) /\ \E m : Answering(m, h, TRUE) /\ msgQ' = Append(msgQ, m))
        BY <2>2, ModemLoses DEF c
      <3>2. ~ ForSweep(c)
        BY <1>1, <3>1 DEF ForSweep, MapsInv, Handed, HandedOver, Sweeps, Blank
      <3>3. PICK m : Answering(m, h, TRUE) /\ msgQ' = Append(msgQ, m)
        BY <3>1, <3>2
      <3>4. Len(msgQ) + 1 \in DOMAIN msgQ' /\ msgQ'[Len(msgQ) + 1] = m
        BY <3>3, AppendFacts DEF Typed, MsgTyped, Answering
      <3>5. m.batch = c.reply.batch /\ m.item = c.reply.item /\ m.k = c.reply.k /\ m.ok /\ m.hw = h
        BY <3>3 DEF Answering, c
      <3> DEFINE i == batches[c.reply.batch].ids[c.reply.item]
      <3>6. c.reply.k = "done" /\ batches[c.reply.batch].cmd = "remove" /\ Item(batches, c.reply.batch, c.reply.item)
            /\ c.fence.id = i
        <4>1. \A x, mask : Watching(x, mask).id = x
          BY DEF Watching
        <4>2. ForItem(batches, c) /\ c.op = "remove"
          BY <3>1, <3>2
        <4> QED BY <4>1, <4>2 DEF ForItem
      <3>7. i \in Ids
        BY <3>6, ItemFacts DEF Typed
      <3> HIDE DEF i
      <3>8. Asks(c, h, i)
        BY <3>1, <3>6 DEF Asks
      <3>9. Names(h, i) /\ Names(h, id)
        BY <1>1, <3>8 DEF Names
      <3>10. i = id
        BY <3>7, <3>9 DEF MapsInv, OneName
      <3> QED BY <3>4, <3>5, <3>6, <3>10 DEF Removes, i
    <2> QED BY <2>1, <2>2
  <1>12. ResumesHold'
    <2> SUFFICES ASSUME NEW n \in DOMAIN apiQ', apiQ'[n].op = "resume", modem'[apiQ'[n].hw] = NoFence
                 PROVE  FALSE
      <3>1. ASSUME NEW n \in DOMAIN apiQ', apiQ'[n].op = "resume", NEW m \in DOMAIN apiQ', m < n, apiQ'[m].hw = apiQ'[n].hw
            PROVE  apiQ'[m].reply.k # "swept"
        <4>1. m + 1 < n + 1
          BY <1>1, <3>1
        <4> QED BY <1>1, <1>3, <3>1, <4>1 DEF ResumesHold
      <3> QED BY <3>1 DEF ResumesHold
    <2> DEFINE d == apiQ[n + 1]
               h == d.hw
               a == c.reply.batch
               b == d.reply.batch
    <2>1. /\ n + 1 \in DOMAIN apiQ /\ d.op = "resume" /\ ProperCall(batches, d) /\ h \in HwIds
          /\ modem[h] # NoFence /\ modem'[h] = NoFence /\ 1 < n + 1
      <3>1. n + 1 \in DOMAIN apiQ /\ apiQ'[n] = d /\ n \in Nat /\ n # 0
        BY <1>1 DEF Typed, ApiTyped
      <3>2. ProperCall(batches, d) /\ d.op = "resume"
        BY <3>1 DEF Typed, ApiTyped
      <3> QED BY <1>3, <3>1, <3>2 DEF ResumesHold, ProperCall, Cmds
    <2>2. c.hw = h /\ c.op = "remove" /\ (ForSweep(c) \/ ForItem(batches, c))
      BY <2>1, ModemLoses DEF c
    <2>3. ~ ForSweep(c)
      BY <1>1, <1>3, <2>1, <2>2 DEF ForSweep, ResumesHold, Blank
    <2>4. ForItem(batches, d)
      BY <2>1 DEF ProperCall, Cmds, ForSweep, ForRestart, ForPause
    <2>5. /\ c.reply.k = "done" /\ Item(batches, a, c.reply.item) /\ batches[a].cmd = "remove"
          /\ c.fence.id = batches[a].ids[c.reply.item]
          /\ d.reply.k = "done" /\ Item(batches, b, d.reply.item) /\ batches[b].cmd = "resume"
          /\ d.fence.id = batches[b].ids[d.reply.item]
      BY <2>1, <2>2, <2>3, <2>4 DEF ForItem, Watching
    <2> HIDE DEF d, h
    <2>6. Asks(c, h, c.fence.id) /\ Asks(d, h, d.fence.id)
      BY <2>1, <2>2, <2>5 DEF Asks, h
    <2>7. c.fence.id \in Ids /\ d.fence.id \in Ids
      BY <2>5, ItemFacts DEF Typed
    <2>8. c.fence.id = d.fence.id
      <3>1. Names(h, c.fence.id) /\ Names(h, d.fence.id)
        BY <1>1, <2>1, <2>6 DEF Names, d
      <3> QED BY <2>1, <2>7, <3>1 DEF MapsInv, OneName
    <2>9. Before(c.reply, d.reply)
      BY <1>1, <2>1, <2>5, RankFacts DEF Ordered, ApiOrdered, d
    <2>10. a < b
      BY <2>5, <2>9 DEF Before
    <2> HIDE DEF a, b
    <2> QED BY <2>5, <2>8, <2>10 DEF Sensible, Item, Items
  <1>13. ResumesWork'
    BY <1>3, <1>6, <1>7, <1>8 DEF ResumesWork, ForItem
  <1> QED BY <1>9, <1>10, <1>11, <1>12, <1>13

LEMMA CalmInvariant == Spec => [](NoReuse => CalmRun)
  <1>1. Init => CalmRun
    <2>1. ASSUME Init
          PROVE  Unbroken /\ AddsHold /\ IdsHold /\ ResumesHold /\ ResumesWork
      BY <2>1, ConstantsAssumption DEF Init, Unbroken, AddsHold, IdsHold, ResumesHold, ResumesWork, HwIds
    <2> QED BY <2>1 DEF CalmRun
  <1>2. ASSUME NoReuse', Typed, Typed', MapsInv, Ordered, Sensible, CalmRun, [Next]_vars
        PROVE  CalmRun'
    <2>1. CASE UNCHANGED vars
      BY <1>2, <2>1 DEF vars, mapVars, modemVars, CalmRun, Calm, Unbroken, AddsHold, IdsHold, ResumesHold, ResumesWork,
                        Announces, Removes
    <2>2. CASE ClientStep
      <3>1. /\ \E m \in Messages : msgQ' = Append(msgQ, m) /\ m.k \in {"command", "removeClient"}
            /\ UNCHANGED <<mapVars, modemVars, apiQ>> /\ Grows
        BY <1>2, <2>2, ClientPosts, ClientsTypedStep
      <3>2. happened \subseteq happened'
        <4>1. PICK c \in Clients : Destroy(c) \/ \E k, ids, masks : Issued(k, c, ids, masks)
          BY <1>2, <2>2, ClientActs
        <4>2. Destroy(c) => happened \subseteq happened'
          BY DEF Destroy, Happens
        <4>3. (\E k, ids, masks : Issued(k, c, ids, masks)) => happened \subseteq happened'
          BY DEF Issued, Issue
        <4> QED BY <4>1, <4>2, <4>3
      <3> QED BY <1>2, <3>1, <3>2, QuietCalm
    <2>3. CASE ModemReset
      BY <2>3 DEF ModemReset, Happens, CalmRun, Calm
    <2>4. ASSUME NEW hw \in HwIds, NEW type \in {"enter", "exit"}, Breach(hw, type)
          PROVE  CalmRun'
      <3>1. /\ \E m \in Messages : msgQ' = Append(msgQ, m) /\ m.k = "breach"
            /\ UNCHANGED <<mapVars, modemVars, apiQ>> /\ Grows
        BY <1>2, <2>4, BreachPosts, SameGrows DEF ModemKeeps
      <3>2. happened \subseteq happened'
        BY <2>4 DEF Breach, Happens
      <3> QED BY <1>2, <3>1, <3>2, QuietCalm
    <2> QED BY <1>2, <2>1, <2>2, <2>3, <2>4, AdapterCalm, ModemCalm DEF Next, ModemStep
  <1>3. Spec => [](NoReuse => MapsInv)
    BY MapsInvariant
  <1> QED BY <1>1, <1>2, <1>3, TypedInvariant, OrderedInvariant, SensibleInvariant, ReuseStays, PTL DEF Spec

-----------------------------------------------------------------------------
(* Answers *)

\* Who has left is known to have left, and waits for nothing.
ClientsKnown ==
  /\ \A c \in Clients : /\ live[c] => c \in clientData
                        /\ ~ live[c] => requests[c] = << >>
  /\ \A n \in DOMAIN msgQ : msgQ[n].k = "removeClient" => ~ live[msgQ[n].client]

\* What the LocApi thread and the modem tell the adapter.
LEMMA ModemPosts ==
  ASSUME Typed, LocApiStep \/ ModemStep
  PROVE  /\ ModemKeeps
         /\ \/ UNCHANGED msgQ
            \/ \E m \in Messages : msgQ' = Append(msgQ, m) /\ m.k \notin {"command", "removeClient"}
  <1>1. ModemKeeps
    BY DEF LocApiStep, GiveTurn, OpenLink, ModemAdds, ModemChanges, ModemFails, ModemRefuses, Serving,
           ModemStep, ModemReset, Breach
  <1>2. CASE LocApiStep
    <2> DEFINE c == Head(apiQ)
    <2>1. apiQ # << >> /\ ProperCall(batches, c) /\ c \in Calls
      BY <1>2, ServedCall
    <2> HIDE DEF c
    <2>2. c.reply.k \notin {"command", "removeClient"} /\ c.hw \in HwIds \cup {0}
      BY <2>1 DEF ProperCall, ForItem, ForSweep, ForRestart, ForPause, Calls, Ops, Blank
    <2>3. ASSUME NEW hw \in HwIds \cup {0}, NEW ok \in BOOLEAN, Reply(hw, ok)
          PROVE  \/ UNCHANGED msgQ
                 \/ \E m \in Messages : msgQ' = Append(msgQ, m) /\ m.k \notin {"command", "removeClient"}
      BY <2>1, <2>2, <2>3, ReplyPosts DEF Answering, c
    <2>4. CASE GiveTurn
      BY <1>1, <2>3, <2>4 DEF GiveTurn
    <2>5. CASE OpenLink
      <3> DEFINE m == [Blank EXCEPT !.k = "engineUp"]
      <3>1. m \in Messages /\ m.k = "engineUp"
        BY BlankTyped DEF Messages, Kinds, Blank
      <3>2. msgQ' = Append(msgQ, m)
        BY <2>5 DEF OpenLink, Post
      <3> HIDE DEF m
      <3> QED BY <1>1, <3>1, <3>2
    <2>6. CASE ModemAdds
      BY <1>1, <2>3, <2>6, ModemAddsFacts
    <2>7. CASE ModemChanges \/ ModemFails \/ ModemRefuses
      BY <1>1, <2>2, <2>3, <2>7 DEF ModemChanges, ModemFails, ModemRefuses, c
    <2> QED BY <1>1, <1>2, <2>4, <2>5, <2>6, <2>7 DEF LocApiStep
  <1>3. CASE ModemStep
    BY <1>1, <1>3, BreachPosts DEF ModemStep, ModemReset
  <1> QED BY <1>2, <1>3

LEMMA ClientsKnownInvariant == Spec => []ClientsKnown
  <1>1. Init => ClientsKnown
    BY DEF Init, ClientsKnown
  <1>2. ASSUME Typed, ClientsKnown, [Next]_vars
        PROVE  ClientsKnown'
    <2> USE <1>2
    <2>0. /\ live \in [Clients -> BOOLEAN] /\ requests \in [Clients -> Seq(DOMAIN batches)]
          /\ \A n \in DOMAIN msgQ : msgQ[n].k = "removeClient" => msgQ[n].client \in Clients
      BY DEF Typed, ClientsTyped, RequestsTyped, MsgTyped, Proper
    <2>a. ASSUME NEW m \in Messages, msgQ' = Append(msgQ, m)
          PROVE  \A n \in DOMAIN msgQ' : msgQ'[n] = m \/ \E k \in DOMAIN msgQ : msgQ'[n] = msgQ[k]
      BY <2>a, AppendFacts DEF Typed, MsgTyped
    <2>1. CASE UNCHANGED vars
      BY <2>1 DEF vars, clientVars, ClientsKnown
    <2>2. ASSUME NEW c \in Clients, Destroy(c)
          PROVE  ClientsKnown'
      <3> DEFINE m == [Blank EXCEPT !.k = "removeClient", !.client = c]
      <3>1. m \in Messages /\ m.client = c
        BY RemoveClientTyped
      <3>2. /\ live' = [live EXCEPT ![c] = FALSE] /\ requests' = [requests EXCEPT ![c] = << >>]
            /\ msgQ' = Append(msgQ, m) /\ UNCHANGED clientData
        BY <2>2 DEF Destroy, Post
      <3> HIDE DEF m
      <3> QED BY <2>0, <2>a, <3>1, <3>2 DEF ClientsKnown
    <2>3. ASSUME NEW c \in Clients, NEW k, NEW ids, NEW masks, Issue(k, c, ids, masks)
          PROVE  ClientsKnown'
      <3>1. PICK m \in Messages : msgQ' = Append(msgQ, m) /\ m.k = "command"
        <4>1. Len(batches) + 1 \in 1 .. MaxCommands /\ "command" \in Kinds /\ 0 \in 0 .. MaxBatch
          BY <2>3, BlankTyped, ConstantsAssumption DEF Issue, Typed, BatchesTyped, Kinds
        <4> QED BY <2>3, <4>1, OfTyped DEF Issue, Post
      <3>2. live[c] /\ requests' = [requests EXCEPT ![c] = Append(@, Len(batches) + 1)] /\ UNCHANGED <<live, clientData>>
        BY <2>3 DEF Issue
      <3> QED BY <2>0, <2>a, <3>1, <3>2 DEF ClientsKnown
    <2>4. CASE ClientStep
      BY <2>2, <2>3, <2>4, ClientActs DEF Issued
    <2>5. CASE AdapterStep
      <3>1. /\ UNCHANGED live
            /\ \A n \in DOMAIN msgQ' : n + 1 \in DOMAIN msgQ /\ msgQ'[n] = msgQ[n + 1]
            /\ msg = msgQ[1] /\ 1 \in DOMAIN msgQ
        <4>1. msgQ # << >> /\ msgQ' = Tail(msgQ) /\ UNCHANGED live
          BY <2>5, AdapterAnswers DEF AdapterKeeps
        <4> QED BY <4>1, TailFacts DEF Typed, MsgTyped, msg
      <3>2. \A c \in Clients : c \notin clientData' => c \notin clientData \/ ~ live[c]
        <4>1. CASE RemoveClient
          BY <3>1, <4>1 DEF RemoveClient, Receive, ClientsKnown
        <4>2. CASE ~ RemoveClient
          <5>1. UNCHANGED clientData
            BY <2>5, <4>2 DEF AdapterStep, StartBatch, AddTurn, FoundTurn, UnknownTurn, AddDone, RemoveDone, PauseDone,
                   ResumeDone, ResumeRefused, ModifyDone, Swept, RestartGeofences, Restored, BreachReported, Turn, Done
          <5> QED BY <5>1
        <4> QED BY <4>1, <4>2
      <3>3. \A c \in Clients : requests[c] = << >> => requests'[c] = << >>
        <4>1. ASSUME Item(batches, msg.batch, msg.item), NEW err \in Errors, AnswerIfLast(msg.batch, msg.item, err)
              PROVE  <3>3
          BY <2>0, <4>1, AnswerEffect DEF Typed
        <4>2. UNCHANGED requests \/ \E err \in Errors : /\ Item(batches, msg.batch, msg.item)
                                                        /\ AnswerIfLast(msg.batch, msg.item, err)
          BY <2>5, AdapterAnswers DEF Store
        <4> QED BY <4>1, <4>2
      <3> QED BY <3>1, <3>2, <3>3 DEF ClientsKnown
    <2>6. CASE LocApiStep \/ ModemStep
      <3>1. UNCHANGED <<live, requests, clientData>>
        BY <2>6, ModemPosts DEF ModemKeeps, clientVars
      <3> QED BY <2>a, <2>6, <3>1, ModemPosts DEF ClientsKnown
    <2> QED BY <2>1, <2>4, <2>5, <2>6 DEF Next
  <1> QED BY <1>1, <1>2, TypedInvariant, PTL DEF Spec

\* A batch is answered when its last item is through, and then only.
AnsweredBatch(b) ==
  /\ batches[b].freed \/ batches[b].told # 0 => ~ Pending(b, LastOf(b))
  /\ ~ batches[b].freed => Pending(b, LastOf(b)) \/ MayBeForgotten(b)
  /\ batches[b].freed /\ live[batches[b].client] => batches[b].told = 1
  /\ batches[b].told <= 1

Answered == \A b \in DOMAIN batches : AnsweredBatch(b)

\* Steps that answer nothing to a batch.
LEMMA BatchKept ==
  ASSUME Typed, Grows, NEW b \in DOMAIN batches, AnsweredBatch(b),
         batches'[b].freed = batches[b].freed, batches'[b].told = batches[b].told,
         Pending(b, LastOf(b))' <=> Pending(b, LastOf(b)),
         happened \subseteq happened', \A c \in Clients : live'[c] => live[c]
  PROVE  AnsweredBatch(b)'
  <1>1. batches'[b].client = batches[b].client /\ batches[b].client \in Clients /\ LastOf(b)' = LastOf(b)
    BY LastItem DEF Grows, LastOf
  <1>2. MayBeForgotten(b) => MayBeForgotten(b)'
    BY DEF MayBeForgotten, Grows
  <1> QED BY <1>1, <1>2 DEF AnsweredBatch

LEMMA AdapterAnswered ==
  ASSUME Typed, Ordered, ClientsKnown, CalmRun, Answered, AdapterStep
  PROVE  Answered'
  <1>0. PICK c, j : c = msg.batch /\ j = msg.item
    OBVIOUS
  <1>1. /\ msgQ # << >> /\ Grows /\ DOMAIN batches' = DOMAIN batches /\ UNCHANGED <<live, happened>>
        /\ msg = msgQ[1] /\ 1 \in DOMAIN msgQ /\ Proper(batches, msg)
    BY AdapterAnswers, CommandsKept, LosesFacts DEF AdapterKeeps
  <1> SUFFICES ASSUME NEW b \in DOMAIN batches
               PROVE  AnsweredBatch(b)'
    BY <1>1 DEF Answered
  <1>2. AnsweredBatch(b) /\ LastOf(b) \in Items(b)
    BY LastItem DEF Answered
  <1>3. ASSUME batches'[b].freed = batches[b].freed, batches'[b].told = batches[b].told,
               SamePending \/ (EndsPending(c, j) /\ (b # c \/ LastOf(b) # j))
        PROVE  AnsweredBatch(b)'
    <2>1. Pending(b, LastOf(b))' <=> Pending(b, LastOf(b))
      <3>1. LastOf(b)' = LastOf(b)
        BY <1>1 DEF Grows, LastOf
      <3> QED BY <1>2, <1>3, <3>1 DEF SamePending, EndsPending
    <2> QED BY <1>1, <1>2, <1>3, <2>1, BatchKept
  <1>4. CASE ~ Finishing
    <2>1. SamePending
      BY <1>4, AdapterPending
    <2>2. batches'[b].freed = batches[b].freed /\ batches'[b].told = batches[b].told
      <3>1. CASE UNCHANGED batches
        BY <3>1
      <3>2. CASE Item(batches, c, j) /\ Store(c, j, "ok")
        BY <3>2 DEF Store, Typed, BatchesTyped, Commands
      <3>3. UNCHANGED batches \/ (Item(batches, c, j) /\ Store(c, j, "ok"))
        <4>1. FoundTurn => msg.k = "turn" /\ Store(c, j, "ok")
          BY <1>0 DEF FoundTurn, Turn, Receive
        <4>2. FoundTurn \/ UNCHANGED batches
          BY <1>4 DEF AdapterStep, Finishing, StartBatch, AddTurn, RemoveClient, Swept, RestartGeofences, Restored,
                      BreachReported
        <4> QED BY <1>0, <1>1, <4>1, <4>2 DEF Proper
      <3> QED BY <3>1, <3>2, <3>3
    <2> QED BY <1>3, <2>1, <2>2
  <1>5. CASE ResumeRefused
    <2>1. UNCHANGED batches /\ msg.k = "done" /\ ~ msg.ok /\ batches[c].cmd = "resume" /\ EndsPending(c, j)
      BY <1>0, <1>5, AdapterPending DEF ResumeRefused, Done, Receive, cmd, Finishing
    <2>2. ~ Calm
      BY <1>0, <1>1, <2>1 DEF CalmRun, ResumesWork
    <2>3. CASE b = c /\ LastOf(b) = j
      <3>1. MayBeForgotten(b)' /\ ~ Pending(b, j)' /\ LastOf(b)' = j
        BY <1>1, <2>1, <2>2, <2>3 DEF MayBeForgotten, Calm, EndsPending, LastOf
      <3> QED BY <1>1, <1>2, <2>1, <3>1 DEF AnsweredBatch
    <2> QED BY <1>3, <2>1, <2>3
  <1>6. CASE Finishing /\ ~ ResumeRefused
    <2>1. EndsPending(c, j) /\ msg.k \in {"turn", "done"}
      BY <1>0, <1>6, AdapterPending DEF Finishing, UnknownTurn, AddDone, RemoveDone, PauseDone, ResumeDone, ModifyDone, Turn,
                                 Done, Receive
    <2>2. Item(batches, c, j)
      BY <1>0, <1>1, <2>1 DEF Proper
    <2>3. PICK err \in Errors : AnswerIfLast(c, j, err)
      <3>1. {"unknown", "ok", Result} \subseteq Errors
        BY DEF Errors, Result
      <3>2. \E err \in {"unknown", "ok", Result} : AnswerIfLast(c, j, err)
        BY <1>0, <1>6 DEF Finishing, UnknownTurn, AddDone, RemoveDone, PauseDone, ResumeDone, ModifyDone
      <3> QED BY <3>1, <3>2
    <2>4. /\ batches'[b].freed <=> batches[b].freed \/ (b = c /\ j = LastOf(c))
          /\ batches'[b].told = IF b = c /\ j = LastOf(c) /\ batches[c].client \in clientData
                                THEN batches[b].told + 1 ELSE batches[b].told
      BY <2>2, <2>3, AnswerEffect DEF Typed
    <2>5. CASE b = c /\ j = LastOf(c)
      <3>1. /\ batches[b].told = 0 /\ ~ Pending(b, j)' /\ LastOf(b)' = j
        BY <1>1, <1>2, <2>1, <2>5 DEF AnsweredBatch, EndsPending, LastOf, Grows
      <3>2. live[batches[b].client] => batches[b].client \in clientData
        BY LastItem DEF ClientsKnown
      <3> QED BY <1>1, <2>4, <2>5, <3>1, <3>2 DEF AnsweredBatch, Grows
    <2>6. CASE ~ (b = c /\ j = LastOf(c))
      <3>1. batches[b].freed \in BOOLEAN /\ batches'[b].freed \in BOOLEAN
        <4>1. batches[b] \in Commands /\ batches'[b] \in Commands
          BY <1>1, AdapterTyped DEF Typed, BatchesTyped
        <4> QED BY <4>1 DEF Commands
      <3>2. batches'[b].freed = batches[b].freed
        BY <2>4, <2>6, <3>1
      <3> QED BY <1>3, <2>1, <2>4, <2>6, <3>2
    <2> QED BY <2>5, <2>6
  <1> QED BY <1>4, <1>5, <1>6

LEMMA AnsweredInvariant == Spec => [](NoReuse => Answered)
  <1>1. Init => Answered
    BY DEF Init, Answered
  <1>2. ASSUME NoReuse', Typed, Ordered, ClientsKnown, CalmRun, Answered, [Next]_vars
        PROVE  Answered'
    <2> USE <1>2
    <2>1. CASE UNCHANGED vars
      BY <2>1 DEF vars, clientVars, Answered, AnsweredBatch, Pending, LastOf, MayBeForgotten
    <2>2. ASSUME SamePending, Grows, UNCHANGED batches, happened \subseteq happened', \A c \in Clients : live'[c] => live[c]
          PROVE  Answered'
      <3> SUFFICES ASSUME NEW b \in DOMAIN batches
                   PROVE  AnsweredBatch(b)'
        BY <2>2 DEF Answered
      <3>1. LastOf(b) \in Items(b) /\ LastOf(b)' = LastOf(b)
        BY <2>2, LastItem DEF LastOf
      <3>2. Pending(b, LastOf(b))' <=> Pending(b, LastOf(b))
        BY <2>2, <3>1 DEF SamePending
      <3> QED BY <2>2, <3>2, BatchKept DEF Answered
    <2>3. ASSUME NEW c \in Clients, Destroy(c)
          PROVE  Answered'
      <3>1. UNCHANGED batches /\ happened \subseteq happened' /\ \A d \in Clients : live'[d] => live[d]
        BY <2>3 DEF Destroy, Happens, Typed, ClientsTyped
      <3> QED BY <2>2, <2>3, <3>1, LeavePending, SameGrows
    <2>4. CASE LocApiStep \/ ModemStep
      <3>1. UNCHANGED <<batches, live>>
        BY <2>4, ModemPosts DEF ModemKeeps, clientVars
      <3>2. happened \subseteq happened'
        BY <2>4 DEF LocApiStep, GiveTurn, OpenLink, ModemAdds, ModemChanges, ModemFails, ModemRefuses, Happens, Reuses,
                    ModemStep, ModemReset, Breach
      <3> QED BY <2>2, <2>4, <3>1, <3>2, ModemPending, SameGrows
    <2>5. ASSUME NEW c \in Clients, NEW k, NEW ids, NEW masks, Issued(k, c, ids, masks), Grows
          PROVE  Answered'
      <3> DEFINE r == Batch(k, c, ids, masks)
      <3>0. PICK N : N = Len(batches) + 1
        OBVIOUS
      <3>1. /\ Issue(k, c, ids, masks) /\ batches' = Append(batches, r) /\ batches \in Seq(Commands)
            /\ UNCHANGED <<live, happened>>
        BY <2>5 DEF Issued, Issue, Typed, BatchesTyped
      <3>2. r.freed = FALSE /\ r.told = 0
        BY DEF Batch
      <3> HIDE DEF r
      <3>3. /\ DOMAIN batches' = DOMAIN batches \cup {N} /\ batches'[N] = r
            /\ \A b \in DOMAIN batches : batches'[b] = batches[b]
        BY <3>0, <3>1
      <3>4. (\A i : Pending(N, i)') /\ \A a \in DOMAIN batches : \A i : Pending(a, i)' <=> Pending(a, i)
        BY <3>0, <3>1, IssuePending
      <3>5. ASSUME NEW b \in DOMAIN batches
            PROVE  AnsweredBatch(b)'
        <4>1. LastOf(b)' = LastOf(b)
          BY <3>3 DEF LastOf
        <4>2. Pending(b, LastOf(b))' <=> Pending(b, LastOf(b))
          BY <3>4, <4>1
        <4> QED BY <2>5, <3>1, <3>3, <4>2, BatchKept DEF Answered
      <3>6. AnsweredBatch(N)'
        <4>1. ~ batches'[N].freed /\ batches'[N].told = 0
          BY <3>2, <3>3
        <4>2. Pending(N, LastOf(N))'
          BY <3>4
        <4> QED BY <4>1, <4>2 DEF AnsweredBatch
      <3> QED BY <3>3, <3>5, <3>6 DEF Answered
    <2>6. CASE ClientStep
      BY <2>3, <2>5, <2>6, ClientActs, ClientsTypedStep
    <2> QED BY <2>1, <2>4, <2>6, AdapterAnswered DEF Next
  <1>3. Spec => [](NoReuse => CalmRun)
    BY CalmInvariant
  <1> QED BY <1>1, <1>2, <1>3, TypedInvariant, OrderedInvariant, ClientsKnownInvariant, ReuseStays, PTL DEF Spec

\* However the turns and answers of many commands overlap, a command is answered
\* at most once, and when nothing is left to do it has been answered, unless its
\* client has left, or it is a resume and the modem restarted or refused
\* something: all this until the modem hands a hardware id out again.
THEOREM CommandsAnsweredOnce == Spec => []AnsweredOnce
  <1>1. ASSUME Typed, Answered
        PROVE  AnsweredOnce
    <2> SUFFICES ASSUME NEW b \in DOMAIN batches
                 PROVE  /\ batches[b].told <= 1
                        /\ AtRest /\ ~ MayBeForgotten(b) /\ live[batches[b].client] => batches[b].told = 1
      BY DEF AnsweredOnce
    <2>1. AtRest => ~ Pending(b, LastOf(b))
      BY DEF AtRest, Pending
    <2> QED BY <1>1, <2>1 DEF Answered, AnsweredBatch
  <1>2. ~ NoReuse => AnsweredOnce
    BY DEF AnsweredOnce
  <1>3. Spec => [](NoReuse => Answered)
    BY AnsweredInvariant
  <1> QED BY <1>1, <1>2, <1>3, TypedInvariant, PTL

-----------------------------------------------------------------------------
(* Requests *)

NoneOvertakes == \A b \in DOMAIN batches : ~ Overtakes(b)

\* A fence is unknown when its turn comes, and that is the end of its item.
UnknownsAreOver == \A b \in DOMAIN batches : \A i \in Items(b) : batches[b].errs[i] = "unknown" => ~ Pending(b, i)

\* The requests of a client are for commands of its own, oldest first, ...
InLine == \A c \in Clients :
            /\ \A m, n \in DOMAIN requests[c] : m < n => requests[c][m] < requests[c][n]
            /\ \A n \in DOMAIN requests[c] : batches[requests[c][n]].client = c

Waits(b) == \E n \in DOMAIN requests[batches[b].client] : requests[batches[b].client][n] = b

\* ... and, if nothing overtakes, for those that are not answered yet.
Waiting == NoneOvertakes =>
             \A b \in DOMAIN batches : /\ batches[b].heard \in {0, b}
                                       /\ live[batches[b].client] => (Waits(b) <=> ~ batches[b].freed)

\* The item of a message is pending, and the only one whose error changes.
LEMMA WrittenErrs ==
  ASSUME Typed, AdapterStep
  PROVE  /\ msg.k \in {"turn", "done"} => \A b, i : b = msg.batch /\ i = msg.item => Pending(b, i)
         /\ \A b \in DOMAIN batches : \A i \in Items(b) :
              \/ batches'[b].errs[i] = batches[b].errs[i]
              \/ msg.k \in {"turn", "done"} /\ b = msg.batch /\ i = msg.item /\ (Finishing \/ batches'[b].errs[i] = "ok")
  <1>0. PICK c, j : c = msg.batch /\ j = msg.item
    OBVIOUS
  <1>1. msgQ # << >> /\ 1 \in DOMAIN msgQ /\ msg = msgQ[1]
    BY AdapterAnswers, LosesFacts
  <1>2. msg.k \in {"turn", "done"} => Pending(c, j)
    BY <1>0, <1>1, RankFacts DEF Pending, MsgHolds
  <1>3. ASSUME Item(batches, c, j), NEW err, NEW i \in Items(c)
        PROVE  /\ Written(c, j, err)[i] = batches[c].errs[i] \/ (i = j /\ Written(c, j, err)[i] = err)
    BY <1>3, LastItem DEF Written, Item
  <1>4. ASSUME NEW b \in DOMAIN batches, NEW i \in Items(b)
        PROVE  \/ batches'[b].errs[i] = batches[b].errs[i]
               \/ msg.k \in {"turn", "done"} /\ b = msg.batch /\ i = msg.item /\ (Finishing \/ batches'[b].errs[i] = "ok")
    <2>1. CASE UNCHANGED batches
      BY <2>1
    <2>2. CASE FoundTurn /\ Item(batches, c, j) /\ Store(c, j, "ok")
      <3>1. msg.k = "turn"
        BY <2>2 DEF FoundTurn, Turn, Receive
      <3>2. batches'[b].errs = IF b = c THEN Written(c, j, "ok") ELSE batches[b].errs
        BY <2>2 DEF Store, Item, Typed, BatchesTyped, Commands
      <3> QED BY <1>0, <1>3, <2>2, <3>1, <3>2
    <2>3. ASSUME msg.k \in {"turn", "done"}, Item(batches, c, j), NEW err \in Errors, AnswerIfLast(c, j, err), Finishing
          PROVE  \/ batches'[b].errs[i] = batches[b].errs[i]
                 \/ b = c /\ i = j
      <3>1. batches'[b].errs = IF b = c THEN Written(c, j, err) ELSE batches[b].errs
        BY <2>3, AnswerEffect DEF Typed
      <3> QED BY <1>0, <1>3, <2>3, <3>1
    <2>4. CASE Finishing /\ ~ ResumeRefused
      <3>1. \E err \in Errors : AnswerIfLast(c, j, err)
        <4>1. {"unknown", "ok", Result} \subseteq Errors
          BY DEF Errors, Result
        <4>2. \E err \in {"unknown", "ok", Result} : AnswerIfLast(c, j, err)
          BY <1>0, <2>4 DEF Finishing, UnknownTurn, AddDone, RemoveDone, PauseDone, ResumeDone, ModifyDone
        <4> QED BY <4>1, <4>2
      <3>2. msg.k \in {"turn", "done"}
        BY <2>4 DEF Finishing, UnknownTurn, AddDone, RemoveDone, PauseDone, ResumeDone, ModifyDone, Turn, Done, Receive
      <3>3. Item(batches, c, j)
        BY <1>0, <1>1, <3>2, MsgProper DEF Typed, Proper
      <3>4. batches'[b].errs[i] = batches[b].errs[i] \/ (b = c /\ i = j)
        BY <2>3, <2>4, <3>1, <3>2, <3>3
      <3> QED BY <1>0, <2>4, <3>2, <3>4
    <2>5. CASE ~ Finishing \/ ResumeRefused
      <3>1. UNCHANGED batches \/ FoundTurn
        BY <2>5 DEF AdapterStep, Finishing, StartBatch, AddTurn, RemoveClient, Swept, RestartGeofences, Restored,
                    BreachReported, ResumeRefused
      <3>2. FoundTurn => Item(batches, c, j) /\ Store(c, j, "ok")
        <4>1. FoundTurn => msg.k = "turn" /\ Store(c, j, "ok")
          BY <1>0 DEF FoundTurn, Turn, Receive
        <4> QED BY <1>0, <1>1, <4>1, MsgProper DEF Typed, Proper
      <3> QED BY <2>1, <2>2, <3>1, <3>2
    <2> QED BY <2>4, <2>5
  <1> QED BY <1>0, <1>2, <1>4

LEMMA AdapterUnknowns ==
  ASSUME Typed, Ordered, UnknownsAreOver, AdapterStep
  PROVE  UnknownsAreOver' /\ (NoneOvertakes' => NoneOvertakes)
  <1>0. PICK c, j : c = msg.batch /\ j = msg.item
    OBVIOUS
  <1>1. Grows /\ DOMAIN batches' = DOMAIN batches /\ UNCHANGED happened
    BY AdapterAnswers, CommandsKept DEF AdapterKeeps
  <1>2. \A b \in DOMAIN batches : \A i \in Items(b) :
          \/ batches'[b].errs[i] = batches[b].errs[i]
          \/ b = c /\ i = j /\ Pending(c, j) /\ (Finishing \/ batches'[b].errs[i] = "ok")
    BY <1>0, WrittenErrs
  <1>3. Finishing => EndsPending(c, j)
    BY <1>0, AdapterPending
  <1>4. UnknownsAreOver'
    <2> SUFFICES ASSUME NEW b \in DOMAIN batches, NEW i \in Items(b), batches'[b].errs[i] = "unknown", Pending(b, i)'
                 PROVE  FALSE
      BY <1>1 DEF UnknownsAreOver, Grows, Items
    <2>1. CASE Finishing
      BY <1>2, <1>3, <2>1 DEF EndsPending, UnknownsAreOver
    <2>2. CASE ~ Finishing
      BY <1>2, <2>2, AdapterPending DEF SamePending, UnknownsAreOver
    <2> QED BY <2>1, <2>2
  <1>5. ASSUME NEW b \in DOMAIN batches, Overtakes(b)
        PROVE  Overtakes(b)'
    <2>1. CASE MayBeForgotten(b)
      BY <1>1, <2>1 DEF MayBeForgotten, Overtakes, Grows
    <2>2. ASSUME NEW i \in Items(b), batches[b].errs[i] = "unknown"
          PROVE  Overtakes(b)'
      <3>1. ~ Pending(b, i)
        BY <2>2 DEF UnknownsAreOver
      <3>2. batches'[b].errs[i] = "unknown"
        BY <1>2, <2>2, <3>1
      <3> QED BY <1>1, <2>2, <3>2 DEF Overtakes, Grows, Items
    <2> QED BY <1>5, <2>1, <2>2 DEF Overtakes
  <1> QED BY <1>1, <1>4, <1>5 DEF NoneOvertakes

\* When the modem's answer for the last item of a batch is next, no older batch
\* waits for its own.
LEMMA OldestAnswers ==
  ASSUME Typed, Ordered, Answered, NoneOvertakes, msgQ # << >>, msg.k = "done",
         NEW h \in DOMAIN batches, ~ batches[h].freed
  PROVE  msg.batch <= h /\ msg.batch \in Nat /\ h \in Nat
  <1>1. msg = msgQ[1] /\ 1 \in DOMAIN msgQ /\ MsgRank(msg) = 5
    BY TailFacts, RankFacts DEF Typed, MsgTyped, msg
  <1>2. h \in Nat /\ msg.batch \in Nat
    BY <1>1, NumberFacts, LastItem
  <1>3. Pending(h, LastOf(h))
    BY DEF Answered, AnsweredBatch, NoneOvertakes, Overtakes
  <1>4. ASSUME NEW n \in DOMAIN msgQ, MsgRank(msgQ[n]) > 0, msgQ[n].batch = h
        PROVE  msg.batch <= h
    <2>1. CASE n = 1
      BY <1>1, <1>2, <1>4, <2>1
    <2>2. CASE n # 1
      <3>1. 1 < n /\ MsgRank(msg) >= MsgRank(msgQ[n]) /\ MsgRank(msgQ[n]) \in Nat
        BY <1>1, <2>2, RankFacts, NumberFacts DEF Typed, MsgTyped
      <3>2. Before(msg, msgQ[n])
        BY <1>1, <1>4, <3>1 DEF Ordered, MsgOrdered
      <3> QED BY <1>2, <1>4, <3>2 DEF Before
    <2> QED BY <2>1, <2>2
  <1>5. ASSUME NEW n \in DOMAIN apiQ, ApiRank(apiQ[n]) > 0, apiQ[n].reply.batch = h
        PROVE  msg.batch <= h
    <2>1. Before(msg, apiQ[n].reply)
      BY <1>1, <1>5, RankFacts DEF Ordered, BothOrdered
    <2> QED BY <1>2, <1>5, <2>1 DEF Before
  <1> QED BY <1>2, <1>3, <1>4, <1>5 DEF Pending, MsgHolds, ApiHolds

\* What an answer changes: it takes the first request of its client.
Takes(b, j, err, c) ==
  /\ DOMAIN batches' = DOMAIN batches /\ b \in DOMAIN batches
  /\ \A a \in DOMAIN batches :
       /\ batches'[a].freed <=> batches[a].freed \/ (a = b /\ j = LastOf(b))
       /\ batches'[a].heard =
            IF j = LastOf(b) /\ c \in clientData /\ requests[c] # << >> /\ a = Head(requests[c])
            THEN b ELSE batches[a].heard
       /\ batches'[a].client = batches[a].client
       /\ batches'[a].errs = IF a = b THEN Written(b, j, err) ELSE batches[a].errs
  /\ \/ UNCHANGED requests /\ ~ (j = LastOf(b) /\ c \in clientData /\ requests[c] # << >>)
     \/ /\ j = LastOf(b) /\ c \in clientData /\ requests[c] # << >> /\ requests'[c] = Tail(requests[c])
        /\ \A d \in Clients \ {c} : requests'[d] = requests[d]

LEMMA AnswerTakes ==
  ASSUME BatchesTyped, RequestsTyped, NEW b, NEW j, Item(batches, b, j), NEW err \in Errors,
         AnswerIfLast(b, j, err), NEW c, c = batches[b].client
  PROVE  Takes(b, j, err, c)
  <1>1. Grows
    BY AnswerTyped
  <1>2. ASSUME NEW a \in DOMAIN batches
        PROVE  /\ batches'[a].freed <=> batches[a].freed \/ (a = b /\ j = LastOf(b))
               /\ batches'[a].heard =
                    IF j = LastOf(b) /\ c \in clientData /\ requests[c] # << >> /\ a = Head(requests[c])
                    THEN b ELSE batches[a].heard
               /\ batches'[a].errs = IF a = b THEN Written(b, j, err) ELSE batches[a].errs
               /\ batches'[a].client = batches[a].client
    <2>1. batches'[a].client = batches[a].client
      BY <1>1 DEF Grows
    <2> QED BY <1>2, <2>1, AnswerEffect
  <1>3. DOMAIN batches' = DOMAIN batches /\ b \in DOMAIN batches
    BY AnswerEffect DEF Item
  <1>4. c \in Clients /\ requests \in [Clients -> Seq(DOMAIN batches)]
    <2>1. batches[b] \in Commands
      BY DEF BatchesTyped, Item
    <2> QED BY <2>1 DEF RequestsTyped, Commands
  <1>5. CASE j # LastOf(b)
    <2>1. UNCHANGED requests
      BY <1>5 DEF AnswerIfLast, IsLast, LastOf, Store
    <2> QED BY <1>2, <1>3, <1>5, <2>1 DEF Takes
  <1>6. CASE j = LastOf(b)
    <2>1. \/ ~ (c \in clientData /\ requests[c] # << >>) /\ UNCHANGED requests
          \/ c \in clientData /\ requests[c] # << >> /\ requests' = [requests EXCEPT ![c] = Tail(@)]
      BY <1>6 DEF AnswerIfLast, IsLast, LastOf, Answer
    <2>2. \/ UNCHANGED requests /\ ~ (j = LastOf(b) /\ c \in clientData /\ requests[c] # << >>)
          \/ /\ j = LastOf(b) /\ c \in clientData /\ requests[c] # << >> /\ requests'[c] = Tail(requests[c])
             /\ \A d \in Clients \ {c} : requests'[d] = requests[d]
      BY <1>4, <1>6, <2>1
    <2> QED BY <1>2, <1>3, <2>2 DEF Takes
  <1> QED BY <1>5, <1>6

LEMMA AnswerInLine ==
  ASSUME Typed, InLine, NEW b, NEW j, NEW err, NEW c, c \in Clients, Takes(b, j, err, c)
  PROVE  InLine'
  <1>6. /\ DOMAIN batches' = DOMAIN batches
        /\ \A a \in DOMAIN batches : batches'[a].client = batches[a].client
        /\ \/ UNCHANGED requests
           \/ /\ requests[c] # << >> /\ requests'[c] = Tail(requests[c])
              /\ \A d \in Clients \ {c} : requests'[d] = requests[d]
    BY DEF Takes
  <1>7. requests \in [Clients -> Seq(DOMAIN batches)]
    BY DEF Typed, RequestsTyped
  <1>1. ASSUME NEW d \in Clients, requests[d] # << >>
        PROVE  /\ \A n \in DOMAIN Tail(requests[d]) : n + 1 \in DOMAIN requests[d] /\ Tail(requests[d])[n] = requests[d][n + 1]
               /\ \A m, n \in DOMAIN Tail(requests[d]) : m < n => m + 1 < n + 1
    BY <1>7, <1>1
  <1>2. \A d \in Clients : \A n \in DOMAIN requests[d] : requests[d][n] \in DOMAIN batches
    BY <1>7
  <1>3. ASSUME NEW d \in Clients, requests'[d] = requests[d]
        PROVE  /\ \A m, n \in DOMAIN requests'[d] : m < n => requests'[d][m] < requests'[d][n]
               /\ \A n \in DOMAIN requests'[d] : batches'[requests'[d][n]].client = d
    <2>1. \A n \in DOMAIN requests[d] : batches'[requests[d][n]].client = batches[requests[d][n]].client
      BY <1>6, <1>2
    <2> QED BY <1>3, <2>1 DEF InLine
  <1>4. ASSUME NEW d \in Clients, requests[d] # << >>, requests'[d] = Tail(requests[d])
        PROVE  /\ \A m, n \in DOMAIN requests'[d] : m < n => requests'[d][m] < requests'[d][n]
               /\ \A n \in DOMAIN requests'[d] : batches'[requests'[d][n]].client = d
    BY <1>6, <1>1, <1>2, <1>4 DEF InLine
  <1>5. ASSUME NEW d \in Clients
        PROVE  requests'[d] = requests[d] \/ (requests[d] # << >> /\ requests'[d] = Tail(requests[d]))
    BY <1>6, <1>7
  <1> QED BY <1>3, <1>4, <1>5 DEF InLine

\* An answer takes the oldest request, which is its own.
LEMMA AnswerWaiting ==
  ASSUME Typed, Typed', Ordered, ClientsKnown, Answered, InLine, Waiting, NoneOvertakes, NoneOvertakes',
         msgQ # << >>, UNCHANGED live, NEW b, b = msg.batch, NEW j, j = msg.item, Item(batches, b, j), Pending(b, j),
         NEW err \in Errors, AnswerIfLast(b, j, err), msg.k = "done" \/ err = "unknown"
  PROVE  Waiting'
  <1>0. PICK c : c = batches[b].client
    OBVIOUS
  <1>1. /\ DOMAIN batches' = DOMAIN batches /\ b \in DOMAIN batches
        /\ \A a \in DOMAIN batches :
             /\ batches'[a].freed <=> batches[a].freed \/ (a = b /\ j = LastOf(b))
             /\ batches'[a].heard =
                  IF j = LastOf(b) /\ c \in clientData /\ requests[c] # << >> /\ a = Head(requests[c])
                  THEN b ELSE batches[a].heard
             /\ batches'[a].client = batches[a].client
             /\ batches'[a].errs = IF a = b THEN Written(b, j, err) ELSE batches[a].errs
        /\ \/ UNCHANGED requests /\ ~ (j = LastOf(b) /\ c \in clientData /\ requests[c] # << >>)
           \/ /\ j = LastOf(b) /\ c \in clientData /\ requests[c] # << >> /\ requests'[c] = Tail(requests[c])
              /\ \A d \in Clients \ {c} : requests'[d] = requests[d]
    <2>1. BatchesTyped /\ RequestsTyped
      BY DEF Typed
    <2>2. Takes(b, j, err, c)
      BY <1>0, <2>1, AnswerTakes
    <2> QED BY <2>2 DEF Takes
  <1>2. c \in Clients /\ requests \in [Clients -> Seq(DOMAIN batches)] /\ live \in [Clients -> BOOLEAN]
        /\ \A a \in DOMAIN batches : batches[a].client \in Clients /\ a \in Nat
    BY <1>0, <1>1, LastItem DEF Typed, RequestsTyped, ClientsTyped
  <1>3. ASSUME UNCHANGED requests, NEW a \in DOMAIN batches, batches'[a].heard = batches[a].heard,
               live[batches[a].client] => (batches'[a].freed <=> batches[a].freed)
        PROVE  /\ batches'[a].heard \in {0, a}
               /\ live'[batches'[a].client] => (Waits(a)' <=> ~ batches'[a].freed)
    <2>1. batches'[a].client = batches[a].client /\ requests' = requests /\ live' = live
      BY <1>1, <1>3
    <2>2. Waits(a)' <=> Waits(a)
      BY <2>1 DEF Waits
    <2> QED BY <1>3, <2>1, <2>2 DEF Waiting
  <1>4. CASE j # LastOf(b)
    <2>1. UNCHANGED requests /\ \A a \in DOMAIN batches : batches'[a].heard = batches[a].heard
          /\ (batches'[a].freed <=> batches[a].freed)
      BY <1>1, <1>4
    <2>2. Waiting'
      BY <1>1, <1>3, <2>1 DEF Waiting
    <2> QED BY <2>2
  <1>5. CASE j = LastOf(b) /\ ~ live[c]
    <2>1. requests[c] = << >>
      BY <1>2, <1>5 DEF ClientsKnown
    <2>2. UNCHANGED requests /\ \A a \in DOMAIN batches : batches'[a].heard = batches[a].heard
          /\ (live[batches[a].client] => (batches'[a].freed <=> batches[a].freed))
      BY <1>0, <1>1, <1>5, <2>1
    <2>3. Waiting'
      BY <1>1, <1>3, <2>2 DEF Waiting
    <2> QED BY <2>3
  <1>6. CASE j = LastOf(b) /\ live[c]
    <2>1. ~ batches[b].freed
      BY <1>1, <1>6 DEF Answered, AnsweredBatch
    <2>2. msg.k = "done"
      <3>1. batches'[b].errs = Written(b, j, err) /\ j \in DOMAIN batches[b].errs /\ j \in Items(b)'
        <4>1. DOMAIN batches[b].errs = Items(b) /\ j \in Items(b)
          BY <1>1, LastItem DEF Item, Items
        <4>2. Grows
          BY AnswerTyped DEF Typed
        <4> QED BY <1>1, <4>1, <4>2 DEF Items, Grows
      <3>2. batches'[b].errs[j] = err
        BY <1>6, <2>1, <3>1 DEF Written
      <3>3. err # "unknown"
        BY <1>1, <3>1, <3>2 DEF NoneOvertakes, Overtakes
      <3> QED BY <3>3
    <2>3. c \in clientData /\ Waits(b)
      BY <1>0, <1>1, <1>2, <1>6, <2>1 DEF ClientsKnown, Waiting
    <2>s. PICK s : s = requests[c]
      OBVIOUS
    <2>4. s \in Seq(DOMAIN batches) /\ s # << >> /\ 1 \in DOMAIN s /\ Head(s) = s[1] /\ s[1] \in DOMAIN batches
      <3>1. s # << >> /\ s \in Seq(DOMAIN batches)
        BY <1>0, <1>2, <2>3, <2>s DEF Waits
      <3> QED BY <3>1
    <2>5. batches[s[1]].client = c /\ ~ batches[s[1]].freed
      <3>1. batches[s[1]].client = c
        BY <1>2, <2>4, <2>s DEF InLine
      <3> QED BY <1>6, <2>4, <2>s, <3>1 DEF Waiting, Waits
    <2>6. b <= s[1]
      BY <2>2, <2>4, <2>5, OldestAnswers
    <2>7. PICK n \in DOMAIN s : s[n] = b
      BY <1>0, <2>3, <2>s DEF Waits
    <2>a. \A k \in DOMAIN s : (k = 1 \/ 1 < k) /\ (1 < k => s[1] < s[k]) /\ s[k] \in Nat
      <3>1. \A k \in DOMAIN s : k = 1 \/ 1 < k
        BY <2>4
      <3>2. \A k \in DOMAIN s : 1 < k => s[1] < s[k]
        BY <1>2, <2>4, <2>s DEF InLine
      <3>3. \A k \in DOMAIN s : s[k] \in Nat
        BY <1>2, <2>4
      <3> QED BY <3>1, <3>2, <3>3
    <2>8. s[1] = b
      <3>1. s[1] \in Nat /\ b \in Nat
        BY <1>1, <1>2, <2>4
      <3> QED BY <2>6, <2>7, <2>a, <3>1
    <2>9. requests'[c] = Tail(s) /\ \A d \in Clients \ {c} : requests'[d] = requests[d]
      BY <1>1, <1>6, <2>3, <2>4, <2>s
    <2>10. ASSUME NEW a \in DOMAIN batches
           PROVE  (\E k \in DOMAIN Tail(s) : Tail(s)[k] = a) <=> a # b /\ \E k \in DOMAIN s : s[k] = a
      <3>1. /\ \A k \in DOMAIN Tail(s) : k + 1 \in DOMAIN s /\ 1 < k + 1 /\ Tail(s)[k] = s[k + 1]
            /\ \A k \in DOMAIN s : k = 1 \/ (k - 1 \in DOMAIN Tail(s) /\ s[k] = Tail(s)[k - 1])
        BY <2>4
      <3>4. \A k \in DOMAIN Tail(s) : Tail(s)[k] # b
        BY <2>4, <2>8, <2>a, <3>1
      <3> QED BY <2>8, <3>1, <3>4
    <2>11. ASSUME NEW a \in DOMAIN batches
           PROVE  /\ batches'[a].heard \in {0, a}
                  /\ live'[batches'[a].client] => (Waits(a)' <=> ~ batches'[a].freed)
      <3>1. batches'[a].heard \in {0, a}
        BY <1>1, <1>6, <2>3, <2>4, <2>8, <2>s DEF Waiting
      <3>2. batches'[a].client = batches[a].client /\ live' = live /\ batches[a].client \in Clients
        BY <1>1, <1>2
      <3>3. CASE batches[a].client = c
        <4>1. requests'[c] = Tail(s)
          BY <1>2, <2>9
        <4>2. (\E k \in DOMAIN s : s[k] = a) <=> ~ batches[a].freed
          BY <1>6, <2>s, <3>3 DEF Waiting, Waits
        <4>3. Waits(a)' <=> \E k \in DOMAIN Tail(s) : Tail(s)[k] = a
          BY <3>2, <3>3, <4>1 DEF Waits
        <4>4. ~ batches'[a].freed <=> ~ batches[a].freed /\ a # b
          BY <1>1, <1>6
        <4> QED BY <2>10, <3>1, <4>2, <4>3, <4>4
      <3>4. CASE batches[a].client # c
        <4>1. requests'[batches[a].client] = requests[batches[a].client] /\ a # b
          BY <1>0, <1>2, <2>9, <3>2, <3>4
        <4>2. Waits(a)' <=> Waits(a)
          BY <3>2, <4>1 DEF Waits
        <4>3. batches'[a].freed <=> batches[a].freed
          BY <1>1, <4>1
        <4> QED BY <3>1, <3>2, <4>2, <4>3 DEF Waiting
      <3> QED BY <3>3, <3>4
    <2>12. Waiting'
      BY <1>1, <2>11 DEF Waiting
    <2> QED BY <2>12
  <1> QED BY <1>4, <1>5, <1>6

\* What the adapter does to the requests.
LEMMA AdapterWaiting ==
  ASSUME Typed, Typed', Ordered, ClientsKnown, Answered, UnknownsAreOver, InLine, Waiting, AdapterStep
  PROVE  InLine' /\ Waiting'
  <1>0. PICK b, j : b = msg.batch /\ j = msg.item
    OBVIOUS
  <1>1. msgQ # << >> /\ DOMAIN batches' = DOMAIN batches /\ UNCHANGED live /\ Proper(batches, msg)
        /\ (NoneOvertakes' => NoneOvertakes)
    BY AdapterAnswers, CommandsKept, AdapterUnknowns
  <1>2. ASSUME UNCHANGED requests,
               \A a \in DOMAIN batches : /\ batches'[a].client = batches[a].client /\ batches'[a].freed = batches[a].freed
                                         /\ batches'[a].heard = batches[a].heard
        PROVE  InLine' /\ Waiting'
    <2>1. \A c \in Clients : \A n \in DOMAIN requests[c] : requests[c][n] \in DOMAIN batches
      BY DEF Typed, RequestsTyped
    <2>2. InLine'
      <3>1. \A c \in Clients : \A n \in DOMAIN requests[c] :
              batches'[requests[c][n]].client = batches[requests[c][n]].client
        BY <1>2, <2>1
      <3> QED BY <1>2, <3>1 DEF InLine
    <2>3. \A a \in DOMAIN batches : Waits(a)' <=> Waits(a)
      BY <1>2 DEF Waits
    <2> QED BY <1>1, <1>2, <2>2, <2>3 DEF Waiting
  <1>3. CASE UNCHANGED <<batches, requests>>
    BY <1>2, <1>3
  <1>4. CASE FoundTurn
    <2>1. Item(batches, b, j) /\ Store(b, j, "ok") /\ UNCHANGED requests
      <3>1. msg.k = "turn" /\ Store(b, j, "ok")
        BY <1>0, <1>4 DEF FoundTurn, Turn, Receive
      <3>2. UNCHANGED requests
        BY <3>1 DEF Store
      <3> QED BY <1>0, <1>1, <3>1, <3>2 DEF Proper
    <2>2. \A a \in DOMAIN batches : /\ batches'[a].client = batches[a].client /\ batches'[a].freed = batches[a].freed
                                    /\ batches'[a].heard = batches[a].heard
      <3>1. batches \in Seq(Commands) /\ \A a \in DOMAIN batches : batches[a] \in Commands
        BY DEF Typed, BatchesTyped
      <3>2. \A a \in DOMAIN batches : batches'[a] = IF a = b THEN [batches[a] EXCEPT !.errs = Written(b, j, "ok")]
                                                             ELSE batches[a]
        BY <2>1, <3>1 DEF Store, Item
      <3> QED BY <3>1, <3>2 DEF Commands
    <2> QED BY <1>2, <2>1, <2>2
  <1>5. CASE Finishing /\ ~ ResumeRefused
    <2>1. Pending(b, j) /\ msg.k \in {"turn", "done"}
      <3>1. EndsPending(b, j)
        BY <1>0, <1>5, AdapterPending
      <3> QED BY <1>5, <3>1 DEF EndsPending, Finishing, UnknownTurn, AddDone, RemoveDone, PauseDone, ResumeDone, ModifyDone,
                                Turn, Done, Receive
    <2>2. Item(batches, b, j)
      BY <1>0, <1>1, <2>1 DEF Proper
    <2>3. PICK err \in Errors : AnswerIfLast(b, j, err) /\ (msg.k = "done" \/ err = "unknown")
      <3>1. {"unknown", "ok", Result} \subseteq Errors
        BY DEF Errors, Result
      <3>2. CASE UnknownTurn
        BY <1>0, <3>1, <3>2 DEF UnknownTurn
      <3>3. CASE AddDone \/ RemoveDone \/ PauseDone \/ ResumeDone \/ ModifyDone
        <4>1. \E err \in {"ok", Result} : AnswerIfLast(b, j, err)
          BY <1>0, <3>3 DEF AddDone, RemoveDone, PauseDone, ResumeDone, ModifyDone
        <4>2. msg.k = "done"
          BY <3>3 DEF AddDone, RemoveDone, PauseDone, ResumeDone, ModifyDone, Done, Receive
        <4> QED BY <3>1, <4>1, <4>2
      <3> QED BY <1>5, <3>2, <3>3 DEF Finishing
    <2>4. PICK c : c = batches[b].client
      OBVIOUS
    <2>5. c \in Clients
      BY <2>2, <2>4, LastItem DEF Item
    <2>6. Takes(b, j, err, c)
      BY <2>2, <2>3, <2>4, AnswerTakes DEF Typed
    <2>7. InLine'
      BY <2>5, <2>6, AnswerInLine
    <2>8. CASE NoneOvertakes'
      BY <1>0, <1>1, <2>1, <2>2, <2>3, <2>7, <2>8, AnswerWaiting
    <2>9. CASE ~ NoneOvertakes'
      BY <2>7, <2>9 DEF Waiting
    <2> QED BY <2>8, <2>9
  <1>6. UNCHANGED <<batches, requests>> \/ FoundTurn \/ (Finishing /\ ~ ResumeRefused)
    BY DEF AdapterStep, Finishing, StartBatch, AddTurn, RemoveClient, Swept, RestartGeofences, Restored, BreachReported,
           ResumeRefused, clientVars
  <1> QED BY <1>3, <1>4, <1>5, <1>6

\* A new command is asked for by the last request.
LEMMA IssueRequests ==
  ASSUME Typed, Typed', Ordered, UnknownsAreOver, InLine, Waiting, NEW c \in Clients, NEW k, NEW ids, NEW masks,
         Issued(k, c, ids, masks), Grows
  PROVE  UnknownsAreOver' /\ InLine' /\ Waiting'
  <1> DEFINE r == Batch(k, c, ids, masks)
  <1>0. PICK N : N = Len(batches) + 1
    OBVIOUS
  <1>1. /\ Issue(k, c, ids, masks) /\ batches' = Append(batches, r) /\ batches \in Seq(Commands)
        /\ UNCHANGED <<live, happened>> /\ live[c] /\ requests' = [requests EXCEPT ![c] = Append(@, N)]
    BY <1>0 DEF Issued, Issue, Typed, BatchesTyped
  <1>2. /\ r.freed = FALSE /\ r.heard = 0 /\ r.client = c
        /\ \A i \in DOMAIN r.ids : r.errs[i] = "unset"
    BY DEF Batch
  <1> HIDE DEF r
  <1>3. /\ DOMAIN batches' = DOMAIN batches \cup {N} /\ batches'[N] = r
        /\ \A b \in DOMAIN batches : batches'[b] = batches[b] /\ b \in Nat /\ b < N
    BY <1>0, <1>1
  <1>4. \A a \in DOMAIN batches : \A i : Pending(a, i)' <=> Pending(a, i)
    BY <1>0, <1>1, IssuePending
  <1>5. UnknownsAreOver'
    <2>1. ASSUME NEW b \in DOMAIN batches, NEW i \in Items(b), batches'[b].errs[i] = "unknown"
          PROVE  ~ Pending(b, i)'
      BY <1>3, <1>4, <2>1 DEF UnknownsAreOver
    <2>2. ASSUME NEW i \in DOMAIN r.ids
          PROVE  batches'[N].errs[i] # "unknown"
      BY <1>2, <1>3, <2>2
    <2> QED BY <1>3, <2>1, <2>2 DEF UnknownsAreOver, Items
  <1>6. /\ \A d \in Clients : \A n \in DOMAIN requests[d] : requests[d][n] \in DOMAIN batches
        /\ DOMAIN requests'[c] = DOMAIN requests[c] \cup {Len(requests[c]) + 1}
        /\ requests'[c][Len(requests[c]) + 1] = N
        /\ \A n \in DOMAIN requests[c] : requests'[c][n] = requests[c][n] /\ n \in Nat /\ n < Len(requests[c]) + 1
        /\ \A d \in Clients \ {c} : requests'[d] = requests[d]
        /\ Len(requests[c]) \in Nat
    BY <1>1 DEF Typed, RequestsTyped
  <1>7. InLine'
    <2>1. ASSUME NEW m \in DOMAIN requests'[c], NEW n \in DOMAIN requests'[c], m < n
          PROVE  requests'[c][m] < requests'[c][n]
      <3>1. m \in DOMAIN requests[c]
        BY <1>6, <2>1
      <3> QED BY <1>3, <1>6, <2>1, <3>1 DEF InLine
    <2>2. \A n \in DOMAIN requests'[c] : batches'[requests'[c][n]].client = c
      BY <1>2, <1>3, <1>6 DEF InLine
    <2>3. ASSUME NEW d \in Clients \ {c}
          PROVE  /\ \A m, n \in DOMAIN requests'[d] : m < n => requests'[d][m] < requests'[d][n]
                 /\ \A n \in DOMAIN requests'[d] : batches'[requests'[d][n]].client = d
      <3>1. \A n \in DOMAIN requests[d] : batches'[requests[d][n]] = batches[requests[d][n]]
        BY <1>3, <1>6
      <3> QED BY <1>6, <3>1 DEF InLine
    <2> QED BY <2>1, <2>2, <2>3 DEF InLine
  <1>8. Waiting'
    <2>1. NoneOvertakes' => NoneOvertakes
      <3>1. ASSUME NEW b \in DOMAIN batches, Overtakes(b)
            PROVE  Overtakes(b)'
        BY <1>1, <1>3, <3>1 DEF Overtakes, MayBeForgotten, Items
      <3> QED BY <1>3, <3>1 DEF NoneOvertakes
    <2>2. ASSUME NoneOvertakes, NEW b \in DOMAIN batches
          PROVE  /\ batches'[b].heard \in {0, b}
                 /\ live'[batches'[b].client] => (Waits(b)' <=> ~ batches'[b].freed)
      <3>1. batches'[b] = batches[b] /\ batches[b].client \in Clients /\ b # N /\ live' = live
        BY <1>1, <1>3, LastItem
      <3>2. Waits(b)' <=> Waits(b)
        BY <1>6, <3>1 DEF Waits
      <3> QED BY <2>2, <3>1, <3>2 DEF Waiting
    <2>3. /\ batches'[N].heard = 0 /\ ~ batches'[N].freed
          /\ Waits(N)'
      BY <1>2, <1>3, <1>6 DEF Waits
    <2> QED BY <1>3, <2>1, <2>2, <2>3 DEF Waiting
  <1> QED BY <1>5, <1>7, <1>8

LEMMA RequestsInvariant == Spec => [](NoReuse => (UnknownsAreOver /\ InLine /\ Waiting))
  <1>1. Init => UnknownsAreOver /\ InLine /\ Waiting
    BY DEF Init, UnknownsAreOver, InLine, Waiting
  <1>2. ASSUME NoReuse', Typed, Typed', Ordered, ClientsKnown, Answered, UnknownsAreOver /\ InLine /\ Waiting, [Next]_vars
        PROVE  UnknownsAreOver' /\ InLine' /\ Waiting'
    <2> USE <1>2
    <2>1. ASSUME UNCHANGED batches, SamePending, happened \subseteq happened', \A c \in Clients : live'[c] => live[c],
                 NEW S \in SUBSET Clients, \A c \in S : ~ live'[c] /\ requests'[c] = << >>,
                 \A c \in Clients \ S : requests'[c] = requests[c]
          PROVE  UnknownsAreOver' /\ InLine' /\ Waiting'
      <3>1. UnknownsAreOver'
        BY <2>1 DEF UnknownsAreOver, SamePending, Items
      <3>2. InLine'
        BY <2>1 DEF InLine
      <3>3. NoneOvertakes' => NoneOvertakes
        BY <2>1 DEF NoneOvertakes, Overtakes, MayBeForgotten, Items
      <3>4. ASSUME NoneOvertakes, NEW b \in DOMAIN batches
            PROVE  /\ batches'[b].heard \in {0, b}
                   /\ live'[batches'[b].client] => (Waits(b)' <=> ~ batches'[b].freed)
        <4>1. batches[b].client \in Clients
          BY LastItem
        <4>2. CASE batches[b].client \in S
          BY <2>1, <3>4, <4>2 DEF Waiting
        <4>3. CASE batches[b].client \notin S
          <5>1. Waits(b)' <=> Waits(b)
            BY <2>1, <4>1, <4>3 DEF Waits
          <5> QED BY <2>1, <3>4, <4>1, <5>1 DEF Waiting
        <4> QED BY <4>2, <4>3
      <3>5. Waiting'
        BY <2>1, <3>3, <3>4 DEF Waiting
      <3> QED BY <3>1, <3>2, <3>5
    <2>2. CASE UNCHANGED vars
      <3>1. UnknownsAreOver'
        BY <2>2 DEF vars, clientVars, UnknownsAreOver, Items, Pending
      <3>2. InLine'
        BY <2>2 DEF vars, clientVars, InLine
      <3>3. Waiting'
        BY <2>2 DEF vars, clientVars, Waiting, Waits, NoneOvertakes, Overtakes, MayBeForgotten, Items
      <3> QED BY <3>1, <3>2, <3>3
    <2>3. ASSUME NEW c \in Clients, Destroy(c)
          PROVE  UnknownsAreOver' /\ InLine' /\ Waiting'
      <3>1. /\ UNCHANGED batches /\ happened \subseteq happened' /\ SamePending
            /\ \A d \in Clients : live'[d] => live[d]
            /\ ~ live'[c] /\ requests'[c] = << >> /\ \A d \in Clients \ {c} : requests'[d] = requests[d]
        <4>1. SamePending
          BY <2>3, LeavePending
        <4> QED BY <2>3, <4>1 DEF Destroy, Happens, Typed, ClientsTyped, RequestsTyped
      <3>2. {c} \in SUBSET Clients
        OBVIOUS
      <3> QED BY <2>1, <3>1, <3>2
    <2>4. CASE LocApiStep \/ ModemStep
      <3>1. UNCHANGED <<batches, live, requests>>
        BY <2>4, ModemPosts DEF ModemKeeps, clientVars
      <3>2. happened \subseteq happened'
        BY <2>4 DEF LocApiStep, GiveTurn, OpenLink, ModemAdds, ModemChanges, ModemFails, ModemRefuses, Happens, Reuses,
                    ModemStep, ModemReset, Breach
      <3>3. SamePending
        BY <2>4, ModemPending
      <3>4. {} \in SUBSET Clients
        OBVIOUS
      <3> QED BY <2>1, <3>1, <3>2, <3>3, <3>4
    <2>5. CASE ClientStep
      BY <2>3, <2>5, ClientActs, ClientsTypedStep, IssueRequests
    <2>6. CASE AdapterStep
      BY <2>6, AdapterWaiting, AdapterUnknowns
    <2> QED BY <2>2, <2>4, <2>5, <2>6 DEF Next
  <1>3. Spec => [](NoReuse => Answered)
    BY AnsweredInvariant
  <1> QED BY <1>1, <1>2, <1>3, TypedInvariant, OrderedInvariant, ClientsKnownInvariant, ReuseStays, PTL DEF Spec

\* The client base hands every answer to the oldest request of the client. That
\* is the one made for the command, if no fence turns out to be unknown, no resume
\* is forgotten and no hardware id is handed out again: then the commands of a
\* client end in the order they came.
THEOREM AnswersFindRequests == Spec => []AnswersReachRequests
  <1>1. Waiting => AnswersReachRequests
    BY DEF Waiting, NoneOvertakes, AnswersReachRequests
  <1>2. ~ NoReuse => AnswersReachRequests
    BY DEF AnswersReachRequests
  <1>3. Spec => [](NoReuse => (UnknownsAreOver /\ InLine /\ Waiting))
    BY RequestsInvariant
  <1> QED BY <1>1, <1>2, <1>3, PTL

-----------------------------------------------------------------------------
(* Restarts of the modem *)

\* The answer to the head of the LocApi queue.
Replied(hw, ok) ==
  \/ Head(apiQ).reply.k = "ignore" /\ UNCHANGED msgQ
  \/ Head(apiQ).reply.k # "ignore" /\ \E m : Answering(m, hw, ok) /\ msgQ' = Append(msgQ, m)

\* What the LocApi thread and the modem do.
Declines == /\ LocApiStep /\ UNCHANGED modemVars /\ Head(apiQ).op # "open"
            /\ \E hw \in HwIds \cup {0}, ok \in BOOLEAN :
                 /\ ok => Head(apiQ).op = "turn"
                 /\ Head(apiQ).op # "turn" => hw = Head(apiQ).hw
                 /\ Replied(hw, ok)
Adds(hw) == /\ LocApiStep /\ link /\ UNCHANGED link /\ usedHw' = usedHw \cup {hw}
            /\ NoReuse' => hw \notin usedHw /\ UNCHANGED happened
            /\ Head(apiQ).op = "add" /\ Head(apiQ).fence \in Fence /\ Replied(hw, TRUE)
            /\ modem' = [modem EXCEPT ![hw] = Head(apiQ).fence]
Changes(hw) == /\ LocApiStep /\ link /\ UNCHANGED <<link, usedHw, happened>>
               /\ Head(apiQ).op \in Cmds \ {"add"} /\ Head(apiQ).hw = hw /\ modem[hw] \in Fence
               /\ Replied(hw, TRUE)
               /\ modem' = [modem EXCEPT ![hw] = Changed(@, Head(apiQ))]
Opens == /\ LocApiStep /\ Head(apiQ).op = "open" /\ link' = TRUE /\ UNCHANGED <<modem, usedHw, happened>>
         /\ \E m \in Messages : msgQ' = Append(msgQ, m) /\ m.k = "engineUp"
Resets == /\ ModemReset /\ Open \in Calls /\ apiQ' = Append(apiQ, Open) /\ UNCHANGED <<msgQ, usedHw>>
          /\ link /\ link' = FALSE /\ happened' = happened \cup {"reset"} /\ modem' = [h \in HwIds |-> NoFence]
Breaches == /\ UNCHANGED <<apiQ, modemVars>> /\ ("reset" \in happened' => "reset" \in happened)
            /\ \E m \in Messages : /\ msgQ' = Append(msgQ, m) /\ m.k = "breach" /\ m.hw \in HwIds
                                   /\ modem[m.hw] # NoFence /\ m.fence.id = modem[m.hw].id

LEMMA ModemDoes ==
  ASSUME Typed, LocApiStep \/ ModemStep
  PROVE  /\ ModemKeeps /\ Grows /\ happened \subseteq happened'
         /\ LocApiStep => ("reset" \in happened' => "reset" \in happened)
         /\ \/ Declines \/ Opens \/ Resets \/ Breaches
            \/ \E hw \in HwIds : Adds(hw) \/ Changes(hw)
  <1>1. ModemKeeps /\ Grows
    BY ModemPosts, CommandsKept
  <1>2. happened \subseteq happened' /\ (LocApiStep => ("reset" \in happened' => "reset" \in happened))
    <2>1. ASSUME LocApiStep
          PROVE  UNCHANGED happened \/ \E x \in {"reuse", "refusal"} : happened' = happened \cup {x}
      BY <2>1 DEF LocApiStep, GiveTurn, OpenLink, ModemAdds, ModemChanges, ModemFails, ModemRefuses, Happens, Reuses
    <2>2. ASSUME ModemStep
          PROVE  \E x \in {"reset", "breach"} : happened' = happened \cup {x}
      BY <2>2 DEF ModemStep, ModemReset, Breach, Happens
    <2> QED BY <2>1, <2>2
  <1>3. CASE LocApiStep
    <2>1. /\ apiQ # << >> /\ ProperCall(batches, Head(apiQ)) /\ Head(apiQ) \in Calls
      BY <1>3, ServedCall
    <2>2. Head(apiQ).hw \in HwIds \cup {0} /\ (Head(apiQ).op \in Cmds \ {"add"} => Head(apiQ).hw \in HwIds)
      BY <2>1 DEF Calls, ProperCall
    <2>3. \A hw \in HwIds \cup {0}, ok \in BOOLEAN : Reply(hw, ok) => Replied(hw, ok)
      BY <2>1, ReplyPosts DEF Replied
    <2>4. CASE GiveTurn
      <3>1. Reply(0, TRUE) /\ Head(apiQ).op = "turn" /\ UNCHANGED modemVars
        BY <2>4 DEF GiveTurn, Serving
      <3> QED BY <1>1, <1>2, <1>3, <2>3, <3>1 DEF Declines
    <2>5. CASE ModemFails \/ ModemRefuses
      <3>1. Reply(Head(apiQ).hw, FALSE) /\ UNCHANGED modemVars /\ Head(apiQ).op # "open"
        BY <2>5 DEF ModemFails, ModemRefuses, Serving, Cmds
      <3> QED BY <1>1, <1>2, <1>3, <2>2, <2>3, <3>1 DEF Declines
    <2>6. CASE ModemAdds
      <3>1. PICK hw \in HwIds : /\ NoReuse' => hw \notin usedHw /\ UNCHANGED happened
                                /\ modem' = [modem EXCEPT ![hw] = Head(apiQ).fence]
                                /\ usedHw' = usedHw \cup {hw} /\ Reply(hw, TRUE)
        BY <2>6, ModemAddsFacts
      <3>2. Head(apiQ).op = "add" /\ Head(apiQ).fence \in Fence
        BY <2>1, <2>6, ModemAddsFacts, AddedFence
      <3>3. link /\ UNCHANGED link
        BY <2>6 DEF ModemAdds
      <3>4. Adds(hw)
        BY <1>3, <2>3, <3>1, <3>2, <3>3 DEF Adds
      <3> QED BY <1>1, <1>2, <3>4
    <2>7. CASE ModemChanges
      <3>1. /\ Head(apiQ).op \in Cmds \ {"add"} /\ link /\ Head(apiQ).hw \in Present(modem)
            /\ modem' = [modem EXCEPT ![Head(apiQ).hw] = Changed(@, Head(apiQ))]
            /\ Reply(Head(apiQ).hw, TRUE) /\ UNCHANGED <<link, usedHw, happened>>
        BY <2>7 DEF ModemChanges, Serving
      <3>2. modem[Head(apiQ).hw] \in Fence
        BY <3>1 DEF Present, Typed, ModemTyped
      <3>3. Changes(Head(apiQ).hw)
        BY <1>3, <2>2, <2>3, <3>1, <3>2 DEF Changes
      <3> QED BY <1>1, <1>2, <2>2, <3>1, <3>3
    <2>8. CASE OpenLink
      <3> DEFINE m == [Blank EXCEPT !.k = "engineUp"]
      <3>1. m \in Messages /\ m.k = "engineUp"
        BY BlankTyped DEF Messages, Kinds, Blank
      <3>2. msgQ' = Append(msgQ, m) /\ Head(apiQ).op = "open" /\ link' = TRUE /\ UNCHANGED <<modem, usedHw, happened>>
        BY <2>8 DEF OpenLink, Post, Serving
      <3> HIDE DEF m
      <3> QED BY <1>1, <1>2, <1>3, <3>1, <3>2 DEF Opens
    <2> QED BY <1>3, <2>4, <2>5, <2>6, <2>7, <2>8 DEF LocApiStep
  <1>4. CASE ModemReset
    <2>1. Open \in Calls
      BY BlankTyped DEF Open, Call, Calls, Ops
    <2>2. apiQ' = Append(apiQ, Open)
      BY <1>4, <2>1 DEF ModemReset, Request, Typed, ApiTyped
    <2>3. Resets
      BY <1>4, <2>1, <2>2 DEF ModemReset, Resets, Happens
    <2> QED BY <1>1, <1>2, <1>4, <2>3
  <1>5. ASSUME NEW hw \in HwIds, NEW type \in {"enter", "exit"}, Breach(hw, type)
        PROVE  Breaches
    <2>1. "reset" \in happened' => "reset" \in happened
      BY <1>5 DEF Breach, Happens
    <2> QED BY <1>5, <2>1, BreachPosts DEF Breaches
  <1>6. CASE ModemStep
    BY <1>1, <1>2, <1>4, <1>5, <1>6 DEF ModemStep
  <1> QED BY <1>3, <1>6

\* What the adapter's thread does to the queues.
LEMMA AdapterQueues ==
  ASSUME Typed, AdapterStep
  PROVE  /\ msgQ # << >> /\ msgQ' = Tail(msgQ) /\ 1 \in DOMAIN msgQ /\ msg = msgQ[1] /\ Proper(batches, msg)
         /\ \A n \in DOMAIN msgQ' : n \in Nat /\ n + 1 \in DOMAIN msgQ /\ n + 1 > 1 /\ msgQ'[n] = msgQ[n + 1]
         /\ \A n \in DOMAIN msgQ : n \in Nat /\ (n = 1 \/ (n > 1 /\ n - 1 \in DOMAIN msgQ' /\ msgQ'[n - 1] = msgQ[n]))
         /\ Grows /\ DOMAIN batches' = DOMAIN batches
         /\ UNCHANGED <<live, dict, owner, nextId, link, modem, usedHw, happened>>
  <1>1. /\ msgQ # << >> /\ msgQ' = Tail(msgQ) /\ Proper(batches, msg) /\ AdapterKeeps
    BY AdapterAnswers
  <1> QED BY <1>1, CommandsKept, TailFacts DEF Typed, MsgTyped, msg, AdapterKeeps, modemVars

LEMMA AdapterAddsCalls ==
  ASSUME Typed, AdapterStep
  PROVE  /\ DOMAIN apiQ \subseteq DOMAIN apiQ'
         /\ \A n \in DOMAIN apiQ : apiQ'[n] = apiQ[n]
         /\ \A n \in DOMAIN apiQ' : n \in DOMAIN apiQ \/ Other(apiQ'[n]) \/ (FoundTurn /\ apiQ'[n] = FoundCall)
  <1>0. apiQ \in Seq(Calls)
    BY DEF Typed, ApiTyped
  <1>1. CASE FoundTurn /\ FoundCall \in Calls /\ apiQ' = Append(apiQ, FoundCall)
    BY <1>0, <1>1, AppendFacts
  <1>2. ASSUME NEW s \in Seq(Calls), Request(s), \A k \in DOMAIN s : Other(s[k])
        PROVE  /\ DOMAIN apiQ \subseteq DOMAIN apiQ'
               /\ \A n \in DOMAIN apiQ : apiQ'[n] = apiQ[n]
               /\ \A n \in DOMAIN apiQ' : n \in DOMAIN apiQ \/ Other(apiQ'[n])
    BY <1>0, <1>2, ConcatFacts DEF Request
  <1> QED BY <1>1, <1>2, AdapterRequests

LEMMA FoundReply == FoundCall.reply.k = "done"
  <1>1. Of("done", msg.batch, msg.item).k = "done"
    BY DEF Of, Blank
  <1> QED BY <1>1 DEF FoundCall, Call

\* A message that comes, and the calls that go.
LEMMA Comes ==
  ASSUME Typed, NEW m \in Messages, msgQ' = Append(msgQ, m)
  PROVE  /\ DOMAIN msgQ' = DOMAIN msgQ \cup {Len(msgQ) + 1} /\ msgQ'[Len(msgQ) + 1] = m /\ Len(msgQ) + 1 \in Nat
         /\ \A n \in DOMAIN msgQ : n \in Nat /\ n < Len(msgQ) + 1 /\ msgQ'[n] = msgQ[n]
  BY AppendFacts DEF Typed, MsgTyped

LEMMA Goes ==
  ASSUME Typed, LocApiStep
  PROVE  /\ Head(apiQ) = apiQ[1] /\ 1 \in DOMAIN apiQ /\ ProperCall(batches, apiQ[1])
         /\ \A n \in DOMAIN apiQ' : n \in Nat /\ n + 1 \in DOMAIN apiQ /\ n + 1 > 1 /\ apiQ'[n] = apiQ[n + 1]
         /\ \A n \in DOMAIN apiQ : n \in Nat /\ (n = 1 \/ (n > 1 /\ n - 1 \in DOMAIN apiQ' /\ apiQ'[n - 1] = apiQ[n]))
  BY ServedCall, TailFacts DEF Typed, ApiTyped

\* While the modem restarts it has no fences, and until it does nothing speaks of
\* a restart.
Opening == \E n \in DOMAIN apiQ : apiQ[n].op = "open"

OneRestart ==
  /\ \A m, n \in DOMAIN apiQ : apiQ[m].op = "open" /\ apiQ[n].op = "open" => m = n
  /\ Opening => ~ link
  /\ ~ link => \A h \in HwIds : modem[h] = NoFence
  /\ "reset" \notin happened =>
       /\ link
       /\ \A n \in DOMAIN apiQ : apiQ[n].reply.k \notin {"restored", "ignore"}
       /\ \A n \in DOMAIN msgQ : msgQ[n].k \notin {"restored", "engineUp"}

LEMMA OneRestartInvariant == Spec => []OneRestart
  <1>1. Init => OneRestart
    BY DEF Init, OneRestart, Opening
  <1>2. ASSUME Typed, OneRestart, [Next]_vars
        PROVE  OneRestart'
    <2> USE <1>2
    <2>0. link \in BOOLEAN /\ 0 \notin HwIds
      BY ConstantsAssumption DEF Typed, ModemTyped, HwIds
    <2>1. CASE UNCHANGED vars
      BY <2>1 DEF vars, modemVars, OneRestart, Opening
    <2>2. CASE ClientStep
      <3>1. PICK m \in Messages : msgQ' = Append(msgQ, m) /\ m.k \in {"command", "removeClient"}
        BY <2>2, ClientPosts
      <3>2. UNCHANGED <<apiQ, modemVars>> /\ ("reset" \in happened => "reset" \in happened')
        <4>1. PICK c \in Clients : Destroy(c) \/ \E k, ids, masks : Issued(k, c, ids, masks)
          BY <2>2, ClientActs
        <4>2. happened \subseteq happened'
          BY <4>1 DEF Destroy, Happens, Issued, Issue
        <4> QED BY <2>2, <4>2, ClientPosts
      <3> QED BY <3>1, <3>2, Comes DEF OneRestart, Opening, modemVars
    <2>3. CASE AdapterStep
      <3>1. \A n \in DOMAIN apiQ' : n \in DOMAIN apiQ \/ apiQ'[n].op # "open"
        <4>1. FoundTurn => FoundCall.op # "open"
          <5>1. FoundTurn => cmd.cmd \in Cmds
            BY DEF FoundTurn, Turn
          <5> QED BY <5>1 DEF FoundCall, Call, Cmds
        <4> QED BY <2>3, <4>1, AdapterAddsCalls DEF Other
      <3>2. "reset" \notin happened => \A n \in DOMAIN apiQ' : n \in DOMAIN apiQ \/ apiQ'[n].reply.k \notin {"restored", "ignore"}
        <4>1. "reset" \notin happened => ~ RestartGeofences /\ ~ Restored
          BY <2>3, AdapterQueues DEF OneRestart, RestartGeofences, Restored, Receive
        <4> QED BY <2>3, <4>1, AdapterAddsCalls, FoundReply DEF Other
      <3> QED BY <2>3, <3>1, <3>2, AdapterQueues, AdapterAddsCalls DEF OneRestart, Opening
    <2>4. CASE LocApiStep \/ ModemStep
      <3>0. Grows /\ happened \subseteq happened' /\ (LocApiStep => ("reset" \in happened' => "reset" \in happened))
        BY <2>4, ModemDoes
      <3>a. ASSUME LocApiStep
            PROVE  /\ \A m, n \in DOMAIN apiQ' : apiQ'[m].op = "open" /\ apiQ'[n].op = "open" => m = n
                   /\ Opening' => Opening /\ apiQ[1].op # "open"
                   /\ "reset" \notin happened => \A n \in DOMAIN apiQ' : apiQ'[n].reply.k \notin {"restored", "ignore"}
        BY <3>a, Goes DEF OneRestart, Opening
      <3>b. ASSUME NEW hw \in HwIds \cup {0}, NEW ok \in BOOLEAN, Replied(hw, ok), LocApiStep,
                   "reset" \notin happened
            PROVE  \A n \in DOMAIN msgQ' : msgQ'[n].k \notin {"restored", "engineUp"}
        <4>1. ASSUME NEW m, Answering(m, hw, ok), msgQ' = Append(msgQ, m)
              PROVE  \A n \in DOMAIN msgQ' : msgQ'[n].k \notin {"restored", "engineUp"}
          <5>1. m \in Messages /\ m.k = apiQ[1].reply.k /\ m.k \notin {"restored", "engineUp"}
            BY <3>b, <4>1, Goes DEF Answering, OneRestart, ProperCall, ForItem, ForSweep, ForRestart, ForPause, Calls, Ops, Blank
          <5> QED BY <3>b, <4>1, <5>1, Comes DEF OneRestart
        <4> QED BY <3>b, <4>1 DEF Replied, OneRestart
      <3>1. CASE Declines
        <4>1. LocApiStep /\ UNCHANGED <<link, modem>>
          BY <3>1 DEF Declines, modemVars
        <4>2. PICK hw \in HwIds \cup {0}, ok \in BOOLEAN : Replied(hw, ok)
          BY <3>1 DEF Declines
        <4> QED BY <3>0, <3>a, <3>b, <4>1, <4>2 DEF OneRestart
      <3>2. CASE Opens
        <4>1. LocApiStep /\ link' = TRUE /\ UNCHANGED <<modem, happened>> /\ apiQ[1].op = "open" /\ 1 \in DOMAIN apiQ
          BY <3>2, Goes DEF Opens
        <4>2. ~ Opening' /\ "reset" \in happened
          <5>1. "reset" \in happened
            BY <4>1 DEF OneRestart, Opening
          <5>2. ASSUME NEW n \in DOMAIN apiQ', apiQ'[n].op = "open"
                PROVE  FALSE
            <6>1. n + 1 \in DOMAIN apiQ /\ n + 1 > 1 /\ apiQ[n + 1].op = "open"
              BY <4>1, <5>2, Goes
            <6>2. n + 1 = 1
              BY <4>1, <6>1 DEF OneRestart
            <6> QED BY <6>1, <6>2
          <5> QED BY <5>1, <5>2 DEF Opening
        <4> QED BY <3>a, <4>1, <4>2 DEF OneRestart
      <3>3. CASE Resets
        <4>1. link /\ link' = FALSE /\ "reset" \in happened' /\ modem' = [h \in HwIds |-> NoFence] /\ ~ Opening
          BY <2>0, <3>3 DEF Resets, OneRestart
        <4>2. /\ DOMAIN apiQ' = DOMAIN apiQ \cup {Len(apiQ) + 1}
              /\ \A n \in DOMAIN apiQ : apiQ'[n] = apiQ[n]
          BY <3>3, AppendFacts DEF Resets, Typed, ApiTyped
        <4> QED BY <4>1, <4>2 DEF OneRestart, Opening
      <3>4. CASE Breaches
        <4>1. PICK m \in Messages : msgQ' = Append(msgQ, m) /\ m.k = "breach"
          BY <3>4 DEF Breaches
        <4>2. UNCHANGED <<apiQ, link, modem>> /\ ("reset" \in happened' => "reset" \in happened)
          BY <3>4 DEF Breaches, modemVars
        <4> QED BY <3>0, <4>1, <4>2, Comes DEF OneRestart, Opening
      <3>5. ASSUME NEW hw \in HwIds, Adds(hw) \/ Changes(hw)
            PROVE  OneRestart'
        <4>1. LocApiStep /\ link /\ link' = link /\ Replied(hw, TRUE)
          BY <3>5 DEF Adds, Changes
        <4> QED BY <3>0, <3>a, <3>b, <4>1 DEF OneRestart
      <3> QED BY <2>4, <3>1, <3>2, <3>3, <3>4, <3>5, ModemDoes
    <2> QED BY <2>1, <2>2, <2>3, <2>4 DEF Next
  <1> QED BY <1>1, <1>2, TypedInvariant, PTL DEF Spec

-----------------------------------------------------------------------------
(* Batches that are answered before all their items are through *)

FreedShort ==
  \A b \in DOMAIN batches : \A i \in Items(b) :
    batches[b].freed /\ Pending(b, i) => batches[b].errs[LastOf(b)] = "unknown"

\* When the modem has answered for the last item of a batch the others are through.
LEMMA LastAnswer ==
  ASSUME Typed, Ordered, msgQ # << >>, msg.k = "done", NEW b, b = msg.batch, msg.item = LastOf(b),
         NEW i \in Items(b), Pending(b, i)
  PROVE  i = LastOf(b)
  <1>1. msg = msgQ[1] /\ 1 \in DOMAIN msgQ /\ MsgRank(msg) = 5 /\ Item(batches, b, LastOf(b))
    BY TailFacts, RankFacts, MsgProper DEF Typed, MsgTyped, msg, Proper
  <1>2. i \in Nat /\ LastOf(b) \in Nat /\ i <= LastOf(b)
    <2>1. batches[b] \in Commands
      BY <1>1 DEF Typed, BatchesTyped, Item
    <2>2. batches[b].ids \in Seq(Ids)
      BY <2>1 DEF Commands
    <2> QED BY <2>2 DEF Items, LastOf
  <1>3. ASSUME NEW n \in DOMAIN msgQ, MsgHolds(msgQ[n], b, i)
        PROVE  i = LastOf(b)
    <2>1. CASE n = 1
      BY <1>1, <1>3, <2>1, RankFacts DEF MsgHolds
    <2>2. CASE n # 1
      <3>1. 1 < n /\ MsgRank(msg) >= MsgRank(msgQ[n]) /\ MsgRank(msgQ[n]) > 0
        BY <1>1, <1>3, <2>2, RankFacts DEF Typed, MsgTyped, MsgHolds
      <3>2. Before(msg, msgQ[n])
        BY <1>1, <3>1, RankFacts DEF Ordered, MsgOrdered
      <3>3. msgQ[n].batch = b /\ b \in Nat /\ (msgQ[n].item = i \/ msgQ[n].item = 0)
        BY <1>1, <1>3, LastItem DEF MsgHolds, Ordered, Item
      <3>4. LastOf(b) < msgQ[n].item
        BY <3>2, <3>3 DEF Before
      <3> QED BY <1>2, <3>3, <3>4
    <2> QED BY <2>1, <2>2
  <1>4. ASSUME NEW n \in DOMAIN apiQ, ApiHolds(apiQ[n], b, i)
        PROVE  i = LastOf(b)
    <2>1. Before(msg, apiQ[n].reply) /\ apiQ[n].reply.batch = b /\ apiQ[n].reply.item = i
      BY <1>1, <1>4, RankFacts DEF Ordered, BothOrdered, ApiHolds
    <2> QED BY <1>1, <1>2, <2>1, LastItem DEF Before, Item
  <1> QED BY <1>3, <1>4 DEF Pending

LEMMA StoreEffect ==
  ASSUME Typed, NEW b, NEW i, Item(batches, b, i), NEW err, Store(b, i, err), NEW a \in DOMAIN batches
  PROVE  /\ batches'[a].freed = batches[a].freed
         /\ batches'[a].errs = IF a = b THEN Written(b, i, err) ELSE batches[a].errs
  <1> DEFINE r == [batches[b] EXCEPT !.errs = Written(b, i, err)]
  <1>1. batches[b] \in Commands /\ b \in DOMAIN batches
    BY DEF Item, Typed, BatchesTyped
  <1>2. r.freed = batches[b].freed /\ r.errs = Written(b, i, err)
    BY <1>1 DEF Commands
  <1>3. batches' = [batches EXCEPT ![b] = r]
    BY DEF Store
  <1> HIDE DEF r
  <1> QED BY <1>1, <1>2, <1>3

LEMMA AdapterFreed ==
  ASSUME Typed, Ordered, FreedShort, AdapterStep
  PROVE  FreedShort'
  <1>0. PICK c, j : c = msg.batch /\ j = msg.item
    OBVIOUS
  <1>1. /\ Grows /\ DOMAIN batches' = DOMAIN batches /\ msgQ # << >> /\ Proper(batches, msg)
    BY AdapterQueues
  <1> SUFFICES ASSUME NEW b \in DOMAIN batches, NEW i \in Items(b), batches'[b].freed, Pending(b, i)'
               PROVE  batches'[b].errs[LastOf(b)] = "unknown"
    BY <1>1 DEF FreedShort, Grows, Items, LastOf
  <1>2. LastOf(b) \in Items(b) /\ batches[b].freed \in BOOLEAN
    BY LastItem
  <1>3. CASE ~ Finishing \/ ResumeRefused
    <2>1. Pending(b, i)
      BY <1>0, <1>3, AdapterPending DEF SamePending, EndsPending, Finishing
    <2>2. CASE UNCHANGED batches
      BY <2>1, <2>2 DEF FreedShort
    <2>3. CASE FoundTurn
      <3>1. Item(batches, c, j) /\ Store(c, j, "ok")
        BY <1>0, <1>1, <2>3 DEF FoundTurn, Turn, Receive, Proper
      <3>2. /\ batches'[b].freed = batches[b].freed
            /\ batches'[b].errs = IF b = c THEN Written(c, j, "ok") ELSE batches[b].errs
        BY <3>1, StoreEffect
      <3> QED BY <2>1, <3>2 DEF FreedShort, Written
    <2> QED BY <1>3, <2>2, <2>3 DEF AdapterStep, Finishing, StartBatch, AddTurn, RemoveClient, Swept, RestartGeofences,
                               Restored, BreachReported, ResumeRefused
  <1>4. CASE Finishing /\ ~ ResumeRefused
    <2>1. EndsPending(c, j) /\ msg.k \in {"turn", "done"} /\ (msg.k = "turn" => UnknownTurn)
      BY <1>0, <1>4, AdapterPending DEF Finishing, UnknownTurn, AddDone, RemoveDone, PauseDone, ResumeDone, ModifyDone, Turn,
                                 Done, Receive
    <2>2. Item(batches, c, j) /\ Pending(b, i) /\ (b # c \/ i # j)
      BY <1>0, <1>1, <2>1 DEF Proper, EndsPending
    <2>3. PICK err \in Errors : AnswerIfLast(c, j, err) /\ (msg.k = "turn" => err = "unknown")
      <3>1. {"unknown", "ok", Result} \subseteq Errors
        BY DEF Errors, Result
      <3>2. \E err \in {"unknown", "ok", Result} : AnswerIfLast(c, j, err) /\ (UnknownTurn => err = "unknown")
        BY <1>0, <1>4 DEF Finishing, UnknownTurn, AddDone, RemoveDone, PauseDone, ResumeDone, ModifyDone, Turn, Done, Receive
      <3> QED BY <2>1, <3>1, <3>2
    <2>4. /\ batches'[b].freed <=> batches[b].freed \/ (b = c /\ j = LastOf(c))
          /\ batches'[b].errs = IF b = c THEN Written(c, j, err) ELSE batches[b].errs
      BY <2>2, <2>3, AnswerEffect DEF Typed
    <2>5. CASE batches[b].freed
      BY <2>2, <2>4, <2>5 DEF FreedShort, Written
    <2>6. CASE ~ batches[b].freed /\ b = c /\ j = LastOf(c)
      <3>1. msg.k = "turn"
        BY <1>0, <1>1, <2>1, <2>2, <2>6, LastAnswer
      <3>2. DOMAIN batches[b].errs = Items(b)
        BY LastItem
      <3> QED BY <1>2, <2>3, <2>4, <2>6, <3>1, <3>2 DEF Written
    <2> QED BY <2>4, <2>5, <2>6
  <1> QED BY <1>3, <1>4

LEMMA FreedShortInvariant == Spec => []FreedShort
  <1>1. Init => FreedShort
    BY DEF Init, FreedShort
  <1>2. ASSUME Typed, Ordered, FreedShort, [Next]_vars
        PROVE  FreedShort'
    <2> USE <1>2
    <2>1. CASE UNCHANGED vars
      BY <2>1 DEF vars, FreedShort, Pending, LastOf, Items
    <2>2. ASSUME SamePending, UNCHANGED batches
          PROVE  FreedShort'
      BY <2>2 DEF FreedShort, SamePending, LastOf, Items
    <2>3. ASSUME NEW c \in Clients, Destroy(c)
          PROVE  FreedShort'
      BY <2>2, <2>3, LeavePending DEF Destroy
    <2>4. CASE LocApiStep \/ ModemStep
      BY <2>2, <2>4, ModemPosts, ModemPending DEF ModemKeeps
    <2>5. ASSUME NEW c \in Clients, NEW k, NEW ids, NEW masks, Issued(k, c, ids, masks)
          PROVE  FreedShort'
      <3> DEFINE r == Batch(k, c, ids, masks)
      <3>0. PICK N : N = Len(batches) + 1
        OBVIOUS
      <3>1. Issue(k, c, ids, masks) /\ batches' = Append(batches, r) /\ batches \in Seq(Commands)
        BY <2>5 DEF Issued, Issue, Typed, BatchesTyped
      <3>2. r.freed = FALSE
        BY DEF Batch
      <3> HIDE DEF r
      <3>3. /\ DOMAIN batches' = DOMAIN batches \cup {N} /\ batches'[N] = r
            /\ \A b \in DOMAIN batches : batches'[b] = batches[b]
        BY <3>0, <3>1
      <3>4. \A a \in DOMAIN batches : \A i : Pending(a, i)' <=> Pending(a, i)
        BY <3>0, <3>1, IssuePending
      <3> QED BY <3>2, <3>3, <3>4 DEF FreedShort, LastOf, Items
    <2>6. CASE ClientStep
      BY <2>3, <2>5, <2>6, ClientActs
    <2> QED BY <2>1, <2>4, <2>6, AdapterFreed DEF Next
  <1> QED BY <1>1, <1>2, TypedInvariant, OrderedInvariant, PTL DEF Spec

-----------------------------------------------------------------------------
(* What the adapter does to its maps *)

\* A message that takes hardware id h from the adapter.
Forgets(B, m, h) == m.hw = h /\ m.ok /\ (m.k = "swept" \/ (m.k = "done" /\ B[m.batch].cmd = "remove"))

\* A message that says a field of the fence under h, "mask" or "paused", and what
\* it says.
Sets(B, m, h, f) ==
  /\ m.hw = h /\ m.ok
  /\ \/ Announces(B, m, h)
     \/ m.k = "done" /\ B[m.batch].cmd \in (IF f = "mask" THEN {"modify"} ELSE {"pause", "resume"})
Running(paused) == IF paused THEN "paused" ELSE "running"
Field(fence, f) == IF f = "mask" THEN fence.mask ELSE Running(fence.paused)
Value(B, m, f) ==
  IF f = "mask" THEN (IF m.k = "restored" THEN m.fence.mask ELSE B[m.batch].masks[m.item])
  ELSE Running(m.k = "done" /\ B[m.batch].cmd = "pause")

\* The handlers, by what they do to the maps.
Leaves == /\ UNCHANGED <<clientData, geofences, geofenceIds>> /\ msg.k \notin {"engineUp", "removeClient"}
          /\ \A h \in HwIds : /\ ~ Announces(batches, msg, h) /\ ~ Forgets(batches, msg, h)
                              /\ ~ Sets(batches, msg, h, "mask") /\ ~ Sets(batches, msg, h, "paused")
Saves(id, hw) == /\ UNCHANGED clientData /\ Says(batches, msg, hw, id) /\ Announces(batches, msg, hw)
                 /\ Value(batches, msg, "mask") \in Masks
                 /\ geofences' = [geofences EXCEPT ![hw] = Watching(id, Value(batches, msg, "mask"))]
                 /\ geofenceIds' = [geofenceIds EXCEPT ![id] = hw]
                 /\ (AddDone /\ msg.k = "done" /\ batches[msg.batch].cmd = "add") \/ (Restored /\ msg.k = "restored")
Erases(hw) == /\ UNCHANGED clientData /\ RemoveDone /\ Forgets(batches, msg, hw) /\ RemoveItem(hw)
Toggles(hw) == /\ UNCHANGED clientData /\ msg.k = "done" /\ batches[msg.batch].cmd \in {"pause", "resume"}
               /\ Sets(batches, msg, hw, "paused")
               /\ SetPaused(hw, batches[msg.batch].cmd = "pause")
Modifies(hw) == /\ UNCHANGED clientData /\ msg.k = "done" /\ batches[msg.batch].cmd = "modify"
                /\ Sets(batches, msg, hw, "mask")
                /\ \E mask \in Options(msg.batch, msg.item) : mask \in Masks /\ SetMask(hw, mask)
Sweeping(hw) == /\ UNCHANGED <<clientData, geofenceIds>> /\ msg.k = "swept" /\ Forgets(batches, msg, hw)
                /\ geofences' = [geofences EXCEPT ![hw] = NoFence]

LEMMA AdapterDoes ==
  ASSUME Typed, AdapterStep
  PROVE  \/ Leaves \/ (RemoveClient /\ msg.k = "removeClient") \/ (RestartGeofences /\ msg.k = "engineUp")
         \/ \E hw \in HwIds : Erases(hw) \/ Toggles(hw) \/ Modifies(hw) \/ Sweeping(hw) \/ \E id \in Ids : Saves(id, hw)
  <1>0. Proper(batches, msg)
    BY AdapterQueues
  <1>1. ASSUME UNCHANGED <<clientData, mapVars>>, msg.k \in {"command", "turn", "breach"} \/ (msg.k \in {"done", "swept", "restored"} /\ ~ msg.ok)
        PROVE  Leaves
    BY <1>1 DEF Leaves, mapVars, Announces, Forgets, Sets
  <1>2. CASE StartBatch \/ AddTurn \/ FoundTurn \/ UnknownTurn \/ BreachReported \/ ResumeRefused
    <2>1. msg.k \in {"command", "turn", "breach"} \/ (msg.k = "done" /\ ~ msg.ok)
      BY <1>2 DEF StartBatch, AddTurn, FoundTurn, UnknownTurn, BreachReported, ResumeRefused, Turn, Done, Receive
    <2>2. UNCHANGED <<clientData, mapVars>>
      BY <1>2 DEF StartBatch, AddTurn, FoundTurn, UnknownTurn, BreachReported, ResumeRefused, Turn, Done
    <2> QED BY <1>1, <2>1, <2>2
  <1>3. CASE AddDone
    <2>1. msg.k = "done" /\ batches[msg.batch].cmd = "add" /\ UNCHANGED clientData
      BY <1>3 DEF AddDone, Done, Receive, cmd
    <2>2. CASE ~ msg.ok
      BY <1>1, <1>3, <2>1, <2>2 DEF AddDone
    <2>3. CASE msg.ok
      <3>1. /\ msg.hw \in HwIds /\ batches[msg.batch].ids[msg.item] \in Ids
            /\ batches[msg.batch].masks[msg.item] \in Masks
        BY <1>0, <2>1, <2>3, ItemFacts DEF Proper, Typed
      <3>2. SaveItem(batches[msg.batch].ids[msg.item], msg.hw, batches[msg.batch].masks[msg.item])
        BY <1>3, <2>3 DEF AddDone, cmd
      <3>3. Value(batches, msg, "mask") = batches[msg.batch].masks[msg.item]
        BY <2>1 DEF Value
      <3>4. /\ Says(batches, msg, msg.hw, batches[msg.batch].ids[msg.item])
            /\ Announces(batches, msg, msg.hw)
        BY <2>1, <2>3 DEF Says, Announces
      <3>5. Saves(batches[msg.batch].ids[msg.item], msg.hw)
        BY <1>3, <2>1, <3>1, <3>2, <3>3, <3>4 DEF Saves, SaveItem
      <3> QED BY <3>1, <3>5
    <2> QED BY <2>2, <2>3
  <1>4. CASE Restored
    <2>1. msg.k = "restored" /\ UNCHANGED clientData
      BY <1>4 DEF Restored, Receive
    <2>2. CASE ~ msg.ok
      BY <1>1, <1>4, <2>1, <2>2 DEF Restored
    <2>3. CASE msg.ok
      <3>1. msg.hw \in HwIds /\ msg.fence.id \in Ids /\ msg.fence.mask \in Masks
        BY <1>0, <2>1, <2>3 DEF Proper, Fence
      <3>2. SaveItem(msg.fence.id, msg.hw, msg.fence.mask)
        BY <1>4, <2>3 DEF Restored
      <3>3. Value(batches, msg, "mask") = msg.fence.mask
        BY <2>1 DEF Value
      <3>4. Says(batches, msg, msg.hw, msg.fence.id) /\ Announces(batches, msg, msg.hw)
        BY <2>1, <2>3 DEF Says, Announces
      <3>5. Saves(msg.fence.id, msg.hw)
        BY <1>4, <2>1, <3>1, <3>2, <3>3, <3>4 DEF Saves, SaveItem
      <3> QED BY <3>1, <3>5
    <2> QED BY <2>2, <2>3
  <1>5. CASE RemoveDone \/ PauseDone \/ ResumeDone \/ ModifyDone
    <2>1. /\ msg.k = "done" /\ batches[msg.batch].cmd \in Cmds \ {"add"} /\ UNCHANGED clientData
          /\ RemoveDone => batches[msg.batch].cmd = "remove"
          /\ PauseDone => batches[msg.batch].cmd = "pause"
          /\ ResumeDone => batches[msg.batch].cmd = "resume" /\ msg.ok
          /\ ModifyDone => batches[msg.batch].cmd = "modify"
      BY <1>5 DEF RemoveDone, PauseDone, ResumeDone, ModifyDone, Done, Receive, cmd, Cmds
    <2>2. msg.hw \in HwIds /\ Item(batches, msg.batch, msg.item)
      BY <1>0, <2>1 DEF Proper
    <2>3. CASE ~ msg.ok
      BY <1>1, <1>5, <2>1, <2>3 DEF RemoveDone, PauseDone, ModifyDone
    <2>4. CASE msg.ok /\ RemoveDone
      <3>1. Erases(msg.hw)
        BY <2>1, <2>4 DEF Erases, Forgets, RemoveDone
      <3> QED BY <2>2, <3>1
    <2>5. CASE msg.ok /\ (PauseDone \/ ResumeDone)
      <3>1. SetPaused(msg.hw, batches[msg.batch].cmd = "pause")
        <4>1. CASE PauseDone
          <5>1. SetPaused(msg.hw, TRUE) /\ (batches[msg.batch].cmd = "pause") = TRUE
            BY <2>1, <2>5, <4>1 DEF PauseDone
          <5> QED BY <5>1
        <4>2. CASE ResumeDone
          <5>1. SetPaused(msg.hw, FALSE) /\ (batches[msg.batch].cmd = "pause") = FALSE
            BY <2>1, <2>5, <4>2 DEF ResumeDone
          <5> QED BY <5>1
        <4> QED BY <2>5, <4>1, <4>2
      <3>2. Sets(batches, msg, msg.hw, "paused")
        BY <2>1, <2>5 DEF Sets
      <3>3. Toggles(msg.hw)
        BY <2>1, <2>5, <3>1, <3>2 DEF Toggles
      <3> QED BY <2>2, <3>3
    <2>6. CASE msg.ok /\ ModifyDone
      <3>1. \A mask \in Options(msg.batch, msg.item) : mask \in Masks
        BY <2>1, <2>2, <2>6, ItemFacts DEF Options, Typed
      <3>2. Sets(batches, msg, msg.hw, "mask") /\ \E mask \in Options(msg.batch, msg.item) : SetMask(msg.hw, mask)
        BY <2>1, <2>6 DEF Sets, ModifyDone
      <3>3. Modifies(msg.hw)
        BY <2>1, <2>6, <3>1, <3>2 DEF Modifies
      <3> QED BY <2>2, <3>3
    <2> QED BY <1>5, <2>3, <2>4, <2>5, <2>6
  <1>6. CASE Swept
    <2>1. msg.k = "swept" /\ msg.hw \in HwIds /\ UNCHANGED <<clientData, geofenceIds>>
      BY <1>0, <1>6 DEF Swept, Receive, Proper
    <2>2. CASE ~ msg.ok
      BY <1>1, <1>6, <2>1, <2>2 DEF Swept, mapVars
    <2>3. CASE msg.ok
      <3>1. Sweeping(msg.hw)
        BY <1>6, <2>1, <2>3 DEF Swept, Sweeping, Forgets
      <3> QED BY <2>1, <3>1
    <2> QED BY <2>2, <2>3
  <1>7. (RemoveClient => msg.k = "removeClient") /\ (RestartGeofences => msg.k = "engineUp")
    BY DEF RemoveClient, RestartGeofences, Receive
  <1> QED BY <1>2, <1>3, <1>4, <1>5, <1>6, <1>7 DEF AdapterStep

-----------------------------------------------------------------------------
(* Where a fence is *)

\* The fences that restartGeofences asks for again, each once.
LEMMA RestartCalls ==
  ASSUME Typed, RestartGeofences, NEW n \in DOMAIN apiQ', n \notin DOMAIN apiQ
  PROVE  \E h \in HwIds : /\ geofences[h] # NoFence /\ apiQ'[n].reply.fence = geofences[h]
                          /\ \A m \in DOMAIN apiQ' : /\ m \notin DOMAIN apiQ /\ apiQ'[m].reply.fence = geofences[h]
                                                     /\ \A g \in HwIds : geofences[g] = geofences[h] => g = h
                                                     => m = n
  <1> DEFINE call(h) == Call("add", 0, Watching(geofences[h].id, geofences[h].mask),
                             [Blank EXCEPT !.k = "restored", !.fence = geofences[h]])
             S == Present(geofences)
             a == Ascending(S)
             f == [h \in S |-> call(h)]
             s == [k \in DOMAIN a |-> f[a[k]]]
  <1>1. Request([k \in DOMAIN a |-> call(a[k])])
    BY DEF RestartGeofences, AddAgain
  <1>2. S \subseteq Int /\ IsFiniteSet(S) /\ S \subseteq HwIds /\ \A h \in S : geofences[h] # NoFence
    BY FiniteInts, ConstantsAssumption DEF Present, HwIds
  <1>3. \A h \in S : call(h) \in Calls /\ call(h).reply.fence = geofences[h]
    <2> SUFFICES ASSUME NEW h \in S
                 PROVE  call(h) \in Calls /\ call(h).reply.fence = geofences[h]
      OBVIOUS
    <2>1. geofences[h] \in Fence
      BY DEF Typed, MapsTyped, Present
    <2>2. ProperCall(batches, call(h))
      BY <2>1, RestartCall
    <2> QED BY <2>2 DEF ProperCall, Call, Blank
  <1> HIDE DEF S, call
  <1>4. \A h \in S : f[h] = call(h) /\ f[h] \in Calls
    BY <1>3
  <1> HIDE DEF f
  <1>5. s \in Seq(Calls) /\ \A k \in DOMAIN a : a[k] \in S
    BY <1>2, <1>4, ForEachRequest
  <1>6. s = [k \in DOMAIN a |-> call(a[k])] /\ DOMAIN s = DOMAIN a
    BY <1>4, <1>5
  <1>7. \A k \in DOMAIN a : s[k] = call(a[k])
    BY <1>6
  <1>8. \A k, l \in DOMAIN a : k < l => a[k] < a[l]
    BY <1>2, AscendingFacts
  <1>9. a \in Seq(S)
    BY <1>2, AscendingFacts
  <1>10. DOMAIN a \subseteq Nat
    BY <1>9
  <1> HIDE DEF s, a
  <1>11. \A m \in DOMAIN apiQ' : m \in DOMAIN apiQ \/ (m - Len(apiQ) \in DOMAIN s /\ apiQ'[m] = s[m - Len(apiQ)] /\ m \in Nat)
    BY <1>1, <1>5, <1>6, ConcatFacts DEF Request, Typed, ApiTyped
  <1>12. PICK k \in DOMAIN a : k = n - Len(apiQ) /\ apiQ'[n] = s[k]
    BY <1>6, <1>11
  <1>13. /\ a[k] \in HwIds /\ geofences[a[k]] # NoFence /\ apiQ'[n].reply.fence = geofences[a[k]]
    BY <1>2, <1>3, <1>5, <1>7, <1>12
  <1>14. ASSUME NEW m \in DOMAIN apiQ', m \notin DOMAIN apiQ, apiQ'[m].reply.fence = geofences[a[k]],
                \A g \in HwIds : geofences[g] = geofences[a[k]] => g = a[k]
         PROVE  m = n
    <2>1. PICK l \in DOMAIN a : l = m - Len(apiQ) /\ apiQ'[m] = s[l]
      BY <1>6, <1>11, <1>14
    <2>2. a[l] \in HwIds /\ apiQ'[m].reply.fence = geofences[a[l]]
      BY <1>2, <1>3, <1>5, <1>7, <2>1
    <2>3. a[l] = a[k] /\ a[l] \in Int
      BY <1>2, <1>5, <1>14, <2>2
    <2>4. l = k
      <3>1. ~ (l < k) /\ ~ (k < l)
        BY <1>8, <2>3
      <3> QED BY <1>10, <3>1
    <2>5. m \in Nat /\ n \in Nat /\ Len(apiQ) \in Nat
      BY <1>11, <1>14 DEF Typed, ApiTyped
    <2> QED BY <1>12, <2>1, <2>4, <2>5
  <1> QED BY <1>13, <1>14

\* An item that adds fence id is under way; or the fence is in the map; or it is
\* asked for again after a restart; or the answer to that is there.
Adding(id) == \E b \in DOMAIN batches :
                batches[b].cmd = "add" /\ \E i \in Items(b) : batches[b].ids[i] = id /\ Pending(b, i)
Again(r, id) == r.k = "restored" /\ r.fence.id = id
Kept(id)    == \E h \in HwIds : geofences[h].id = id
Asked(id)   == \E n \in DOMAIN apiQ : Again(apiQ[n].reply, id)
Returns(id) == \E n \in DOMAIN msgQ : Again(msgQ[n], id)

Single(id) ==
  /\ \A g, h \in HwIds : geofences[g].id = id /\ geofences[h].id = id => g = h
  /\ \A m, n \in DOMAIN apiQ : Again(apiQ[m].reply, id) /\ Again(apiQ[n].reply, id) => m = n
  /\ \A m, n \in DOMAIN msgQ : Again(msgQ[m], id) /\ Again(msgQ[n], id) => m = n

PlacedOnce(id) ==
  /\ Adding(id) \/ Kept(id) \/ Asked(id) \/ Returns(id) => id < nextId
  /\ Adding(id) => ~ Kept(id) /\ ~ Asked(id) /\ ~ Returns(id)
  /\ Kept(id) => ~ Asked(id) /\ ~ Returns(id)
  /\ Asked(id) => ~ Returns(id)

OnePlace == \A id \in Ids : Single(id) /\ PlacedOnce(id)

\* An id is added by one item.
LEMMA AddedByOne ==
  ASSUME Typed, Sensible, NEW a \in DOMAIN batches, NEW b \in DOMAIN batches, NEW i \in Items(a), NEW j \in Items(b),
         batches[a].cmd = "add", batches[b].cmd = "add", batches[a].ids[i] = batches[b].ids[j]
  PROVE  a = b /\ i = j
  <1>1. a \in Nat /\ b \in Nat /\ i \in Nat /\ j \in Nat
    BY LastItem
  <1>2. ~ (a < b) /\ ~ (b < a)
    BY DEF Sensible
  <1>3. a = b
    BY <1>1, <1>2
  <1>4. batches[a].ids[i] \in Ids /\ \A n \in Ids : ~ (n < n)
    BY ItemFacts DEF Typed, Item, Items, Ids
  <1>5. ~ (i < j) /\ ~ (j < i)
    BY <1>3, <1>4 DEF Sensible
  <1> QED BY <1>1, <1>3, <1>5

\* Steps after which a fence is in no other place.
LEMMA PlacesKept ==
  ASSUME NEW id \in Ids, Single(id), PlacedOnce(id), nextId <= nextId', nextId \in Nat, nextId' \in Nat,
         Adding(id)' => Adding(id) \/ (id >= nextId /\ id < nextId'),
         \A h \in HwIds : geofences'[h].id = id => geofences[h].id = id,
         NEW d \in Nat, NEW e \in Nat,
         \A n \in DOMAIN msgQ' : Again(msgQ'[n], id) => n \in Nat /\ n + d \in DOMAIN msgQ /\ Again(msgQ[n + d], id),
         \A n \in DOMAIN apiQ' : Again(apiQ'[n].reply, id) => n \in Nat /\ n + e \in DOMAIN apiQ /\ Again(apiQ[n + e].reply, id)
  PROVE  Single(id)' /\ PlacedOnce(id)'
  <1>1. id \in Nat
    BY DEF Ids
  <1>2. (Kept(id)' => Kept(id)) /\ (Asked(id)' => Asked(id)) /\ (Returns(id)' => Returns(id))
    BY DEF Kept, Asked, Returns
  <1>3. Single(id)'
    <2>1. ASSUME NEW m \in DOMAIN apiQ', NEW n \in DOMAIN apiQ', Again(apiQ'[m].reply, id), Again(apiQ'[n].reply, id)
          PROVE  m = n
      <3>1. m + e = n + e /\ m \in Nat /\ n \in Nat
        BY <2>1 DEF Single
      <3> QED BY <3>1
    <2>2. ASSUME NEW m \in DOMAIN msgQ', NEW n \in DOMAIN msgQ', Again(msgQ'[m], id), Again(msgQ'[n], id)
          PROVE  m = n
      <3>1. m + d = n + d /\ m \in Nat /\ n \in Nat
        BY <2>2 DEF Single
      <3> QED BY <3>1
    <2> QED BY <2>1, <2>2 DEF Single
  <1>4. id < nextId => id < nextId' /\ ~ (id >= nextId)
    BY <1>1
  <1>5. PlacedOnce(id)'
    BY <1>2, <1>4 DEF PlacedOnce
  <1> QED BY <1>3, <1>5

\* Clients name new fences, which are nowhere yet.
LEMMA ClientOnePlace ==
  ASSUME Typed, Typed', Ordered, Sensible, OnePlace, ClientStep
  PROVE  OnePlace'
  <1>0. nextId \in Nat /\ nextId' \in Nat
    BY ConstantsAssumption DEF Typed, ClientsTyped
  <1>1. PICK m \in Messages : msgQ' = Append(msgQ, m) /\ m.k \in {"command", "removeClient"}
    BY ClientPosts
  <1>2. UNCHANGED <<mapVars, apiQ>>
    BY ClientPosts
  <1>3. PICK c \in Clients : Destroy(c) \/ \E k, ids, masks : Issued(k, c, ids, masks)
    BY ClientActs
  <1> SUFFICES ASSUME NEW id \in Ids
               PROVE  Single(id)' /\ PlacedOnce(id)'
    BY DEF OnePlace
  <1>4. ASSUME nextId <= nextId', Adding(id)' => Adding(id) \/ (id >= nextId /\ id < nextId')
        PROVE  Single(id)' /\ PlacedOnce(id)'
    <2>1. \A n \in DOMAIN msgQ' : Again(msgQ'[n], id) => n \in Nat /\ n + 0 \in DOMAIN msgQ /\ Again(msgQ[n + 0], id)
      <3>1. ~ Again(m, id)
        BY <1>1 DEF Again
      <3>2. \A n \in DOMAIN msgQ : n \in Nat /\ n + 0 = n
        BY <1>1, Comes
      <3> QED BY <1>1, <3>1, <3>2, Comes
    <2>2. \A n \in DOMAIN apiQ' : Again(apiQ'[n].reply, id) => n \in Nat /\ n + 0 \in DOMAIN apiQ /\ Again(apiQ[n + 0].reply, id)
      <3>1. \A n \in DOMAIN apiQ : n \in Nat /\ n + 0 = n
        BY DEF Typed, ApiTyped
      <3> QED BY <1>2, <3>1
    <2>3. \A h \in HwIds : geofences'[h].id = id => geofences[h].id = id
      BY <1>2 DEF mapVars
    <2>4. 0 \in Nat /\ Single(id) /\ PlacedOnce(id)
      BY DEF OnePlace
    <2> QED BY <1>0, <1>4, <2>1, <2>2, <2>3, <2>4, PlacesKept
  <1>5. CASE Destroy(c)
    <2>1. SamePending /\ UNCHANGED <<batches, nextId>>
      BY <1>5, LeavePending DEF Destroy
    <2>2. Adding(id)' => Adding(id)
      BY <2>1 DEF Adding, SamePending, Items
    <2> QED BY <1>0, <1>4, <2>1, <2>2
  <1>6. ASSUME NEW k, NEW ids, NEW masks, Issued(k, c, ids, masks)
        PROVE  Single(id)' /\ PlacedOnce(id)'
    <2> DEFINE r == Batch(k, c, ids, masks)
    <2>0. PICK N : N = Len(batches) + 1
      OBVIOUS
    <2>1. Issue(k, c, ids, masks) /\ batches' = Append(batches, r) /\ batches \in Seq(Commands)
      BY <1>6 DEF Issued, Issue, Typed, BatchesTyped
    <2>2. r.ids = ids /\ r.cmd = k
      BY DEF Batch
    <2> HIDE DEF r
    <2>3. /\ DOMAIN batches' = DOMAIN batches \cup {N} /\ batches'[N] = r
          /\ \A b \in DOMAIN batches : batches'[b] = batches[b]
      BY <2>0, <2>1
    <2>4. \A a \in DOMAIN batches : \A i : Pending(a, i)' <=> Pending(a, i)
      BY <2>0, <2>1, IssuePending
    <2>5. nextId <= nextId' /\ \A i \in DOMAIN ids : ids[i] < nextId' /\ (k = "add" => ids[i] >= nextId)
      BY <1>6 DEF Issued
    <2>6. ASSUME Adding(id)'
          PROVE  Adding(id) \/ (id >= nextId /\ id < nextId')
      <3>1. PICK b \in DOMAIN batches' : /\ batches'[b].cmd = "add"
                                          /\ \E i \in DOMAIN batches'[b].ids : batches'[b].ids[i] = id /\ Pending(b, i)'
        BY <2>6 DEF Adding, Items
      <3>2. CASE b = N
        BY <2>2, <2>3, <2>5, <3>1, <3>2
      <3>3. CASE b \in DOMAIN batches
        BY <2>3, <2>4, <3>1, <3>3 DEF Adding, Items
      <3> QED BY <2>3, <3>2, <3>3
    <2> QED BY <1>4, <2>5, <2>6
  <1> QED BY <1>3, <1>5, <1>6

LEMMA ModemOnePlace ==
  ASSUME Typed, Ordered, OnePlace, LocApiStep \/ ModemStep
  PROVE  OnePlace'
  <1>0. nextId \in Nat /\ nextId' = nextId /\ nextId <= nextId /\ 0 \in Nat /\ 1 \in Nat
    <2>1. nextId \in Nat
      BY ConstantsAssumption DEF Typed, ClientsTyped
    <2>2. ModemKeeps
      BY ModemDoes
    <2> QED BY <2>1, <2>2 DEF ModemKeeps, clientVars
  <1>1. UNCHANGED <<batches, geofences>> /\ SamePending
    BY ModemDoes, ModemPending DEF ModemKeeps, mapVars
  <1> SUFFICES ASSUME NEW id \in Ids
               PROVE  Single(id)' /\ PlacedOnce(id)'
    BY DEF OnePlace
  <1>2. Adding(id)' <=> Adding(id)
    BY <1>1 DEF Adding, SamePending, Items
  <1>3. Single(id) /\ PlacedOnce(id)
    BY DEF OnePlace
  <1>4. ASSUME NEW e \in Nat,
               \A n \in DOMAIN apiQ' : Again(apiQ'[n].reply, id) => n \in Nat /\ n + e \in DOMAIN apiQ /\ Again(apiQ[n + e].reply, id),
               UNCHANGED msgQ \/ \E m \in Messages : ~ Again(m, id) /\ msgQ' = Append(msgQ, m)
        PROVE  Single(id)' /\ PlacedOnce(id)'
    <2>1. \A n \in DOMAIN msgQ' : Again(msgQ'[n], id) => n \in Nat /\ n + 0 \in DOMAIN msgQ /\ Again(msgQ[n + 0], id)
      <3>1. \A n \in DOMAIN msgQ : n \in Nat /\ n + 0 = n
        BY DEF Typed, MsgTyped
      <3>2. \A n \in DOMAIN msgQ' : Again(msgQ'[n], id) => n \in DOMAIN msgQ /\ msgQ'[n] = msgQ[n]
        BY <1>4, Comes
      <3> QED BY <3>1, <3>2
    <2> QED BY <1>0, <1>1, <1>2, <1>3, <1>4, <2>1, PlacesKept
  <1>5. ASSUME LocApiStep
        PROVE  \A n \in DOMAIN apiQ' : n \in Nat /\ n + 1 \in DOMAIN apiQ /\ n + 1 # 1 /\ apiQ'[n] = apiQ[n + 1]
    BY <1>5, Goes
  <1>6. ASSUME NEW hw \in HwIds \cup {0}, NEW ok \in BOOLEAN, Replied(hw, ok), LocApiStep
        PROVE  Single(id)' /\ PlacedOnce(id)'
    <2>1. CASE UNCHANGED msgQ
      BY <1>0, <1>4, <1>5, <1>6, <2>1
    <2>2. ASSUME NEW m, Answering(m, hw, ok), msgQ' = Append(msgQ, m)
          PROVE  Single(id)' /\ PlacedOnce(id)'
      <3>1. m \in Messages /\ m.k = apiQ[1].reply.k /\ m.fence = apiQ[1].reply.fence /\ 1 \in DOMAIN apiQ
        BY <1>6, <2>2, Goes DEF Answering
      <3>2. CASE ~ Again(m, id)
        BY <1>0, <1>4, <1>5, <1>6, <2>2, <3>1, <3>2
      <3>3. CASE Again(m, id)
        <4>1. Again(apiQ[1].reply, id)
          BY <3>1, <3>3 DEF Again
        <4>2. \A n \in DOMAIN apiQ' : ~ Again(apiQ'[n].reply, id)
          BY <1>3, <1>5, <1>6, <3>1, <4>1 DEF Single
        <4>3. Asked(id) /\ ~ Asked(id)'
          BY <3>1, <4>1, <4>2 DEF Asked
        <4>4. ~ Adding(id)' /\ ~ Kept(id)' /\ ~ Returns(id) /\ id < nextId'
          BY <1>0, <1>1, <1>2, <1>3, <4>3 DEF PlacedOnce, Kept
        <4>5. \A n \in DOMAIN msgQ' : Again(msgQ'[n], id) => n = Len(msgQ) + 1
          BY <2>2, <3>1, <4>4, Comes DEF Returns
        <4>6. Single(id)'
          BY <1>1, <1>3, <4>2, <4>5 DEF Single
        <4>7. PlacedOnce(id)'
          BY <4>3, <4>4 DEF PlacedOnce
        <4> QED BY <4>6, <4>7
      <3> QED BY <3>2, <3>3
    <2> QED BY <1>6, <2>1, <2>2 DEF Replied
  <1>7. CASE Declines
    <2>1. LocApiStep /\ \E hw \in HwIds \cup {0}, ok \in BOOLEAN : Replied(hw, ok)
      BY <1>7 DEF Declines
    <2> QED BY <1>6, <2>1
  <1>8. ASSUME NEW hw \in HwIds, Adds(hw) \/ Changes(hw)
        PROVE  Single(id)' /\ PlacedOnce(id)'
    <2>1. LocApiStep /\ Replied(hw, TRUE)
      BY <1>8 DEF Adds, Changes
    <2> QED BY <1>6, <2>1
  <1>9. CASE Opens
    BY <1>0, <1>4, <1>5, <1>9 DEF Opens, Again
  <1>10. CASE Resets
    <2>1. \A n \in DOMAIN apiQ' : (n \in DOMAIN apiQ /\ apiQ'[n] = apiQ[n]) \/ apiQ'[n] = Open
      BY <1>10, AppendFacts DEF Resets, Typed, ApiTyped
    <2>2. ~ Again(Open.reply, id) /\ \A n \in DOMAIN apiQ : n \in Nat /\ n + 0 = n
      BY DEF Again, Open, Call, Blank, Typed, ApiTyped
    <2>3. \A n \in DOMAIN apiQ' : Again(apiQ'[n].reply, id) => n \in Nat /\ n + 0 \in DOMAIN apiQ /\ Again(apiQ[n + 0].reply, id)
      BY <2>1, <2>2
    <2>4. UNCHANGED msgQ
      BY <1>10 DEF Resets
    <2> QED BY <1>0, <1>4, <2>3, <2>4
  <1>11. CASE Breaches
    <2>1. \A n \in DOMAIN apiQ : n \in Nat /\ n + 0 = n
      BY DEF Typed, ApiTyped
    <2> QED BY <1>0, <1>4, <1>11, <2>1 DEF Breaches, Again
  <1> QED BY <1>7, <1>8, <1>9, <1>10, <1>11, ModemDoes

LEMMA AdapterOnePlace ==
  ASSUME Typed, Ordered, Sensible, OnePlace, AdapterStep
  PROVE  OnePlace'
  <1>c. PICK c, j : c = msg.batch /\ j = msg.item
    OBVIOUS
  <1>0. nextId \in Nat /\ nextId' = nextId /\ nextId <= nextId /\ 0 \in Nat /\ 1 \in Nat /\ NoFence.id \notin Ids
    <2>1. nextId \in Nat
      BY ConstantsAssumption DEF Typed, ClientsTyped
    <2> QED BY <2>1, AdapterQueues DEF NoFence, Ids
  <1>1. /\ Grows /\ DOMAIN batches' = DOMAIN batches /\ msg = msgQ[1] /\ 1 \in DOMAIN msgQ /\ Proper(batches, msg)
        /\ \A n \in DOMAIN msgQ' : n \in Nat /\ n + 1 \in DOMAIN msgQ /\ n + 1 > 1 /\ msgQ'[n] = msgQ[n + 1]
    BY AdapterQueues
  <1>g. geofences \in [HwIds -> Fence \cup {NoFence}]
    BY DEF Typed, MapsTyped
  <1> SUFFICES ASSUME NEW id \in Ids
               PROVE  Single(id)' /\ PlacedOnce(id)'
    BY DEF OnePlace
  <1>2. Single(id) /\ PlacedOnce(id)
    BY DEF OnePlace
  <1>3. \A b \in DOMAIN batches : \A i \in Items(b) : Pending(b, i)' => Pending(b, i)
    BY <1>c, AdapterPending DEF SamePending, EndsPending
  <1>4. Adding(id)' => Adding(id)
    BY <1>1, <1>3 DEF Adding, Grows, Items
  <1>5. \A n \in DOMAIN apiQ : n \in Nat /\ n + 0 = n /\ apiQ'[n] = apiQ[n] /\ n \in DOMAIN apiQ'
    BY AdapterAddsCalls DEF Typed, ApiTyped
  <1>6. ~ RestartGeofences => \A n \in DOMAIN apiQ' : Again(apiQ'[n].reply, id) => n \in DOMAIN apiQ
    BY AdapterAddsCalls, FoundReply DEF Other, Again
  <1>7. ASSUME ~ RestartGeofences, \A h \in HwIds : geofences'[h].id = id => geofences[h].id = id
        PROVE  Single(id)' /\ PlacedOnce(id)'
    <2>1. \A n \in DOMAIN apiQ' : Again(apiQ'[n].reply, id) => n \in Nat /\ n + 0 \in DOMAIN apiQ /\ Again(apiQ[n + 0].reply, id)
      BY <1>5, <1>6, <1>7
    <2>2. \A n \in DOMAIN msgQ' : Again(msgQ'[n], id) => n \in Nat /\ n + 1 \in DOMAIN msgQ /\ Again(msgQ[n + 1], id)
      BY <1>1
    <2> QED BY <1>0, <1>2, <1>4, <1>7, <2>1, <2>2, PlacesKept
  <1>8. msg.k # "engineUp" => ~ RestartGeofences
    BY DEF RestartGeofences, Receive
  <1>9. CASE Leaves
    BY <1>7, <1>8, <1>9 DEF Leaves
  <1>10. CASE RemoveClient /\ msg.k = "removeClient"
    BY <1>7, <1>8, <1>10 DEF RemoveClient
  <1>11. ASSUME NEW hw \in HwIds, Erases(hw) \/ Sweeping(hw)
         PROVE  Single(id)' /\ PlacedOnce(id)'
    <2>1. msg.k # "engineUp"
      BY <1>11 DEF Erases, Sweeping, Forgets
    <2>2. geofences' = geofences \/ geofences' = [geofences EXCEPT ![hw] = NoFence]
      BY <1>11 DEF Erases, Sweeping, RemoveItem, mapVars
    <2> QED BY <1>0, <1>g, <1>7, <1>8, <2>1, <2>2
  <1>12. ASSUME NEW hw \in HwIds, Toggles(hw) \/ Modifies(hw)
         PROVE  Single(id)' /\ PlacedOnce(id)'
    <2>1. msg.k # "engineUp"
      BY <1>12 DEF Toggles, Modifies
    <2>2. \A h \in HwIds : geofences'[h].id = geofences[h].id
      <3>1. geofences[hw] \in Described
        BY <1>g, FenceDescribed
      <3>2. \/ geofences' = geofences
            \/ \E paused : geofences' = [geofences EXCEPT ![hw].paused = paused]
            \/ \E mask : geofences' = [geofences EXCEPT ![hw].mask = mask]
        BY <1>12 DEF Toggles, Modifies, SetPaused, SetMask
      <3>3. ASSUME NEW paused, geofences' = [geofences EXCEPT ![hw].paused = paused]
            PROVE  \A h \in HwIds : geofences'[h].id = geofences[h].id
        BY <1>g, <3>1, <3>3 DEF Described
      <3>4. ASSUME NEW mask, geofences' = [geofences EXCEPT ![hw].mask = mask]
            PROVE  \A h \in HwIds : geofences'[h].id = geofences[h].id
        BY <1>g, <3>1, <3>4 DEF Described
      <3> QED BY <3>2, <3>3, <3>4
    <2> QED BY <1>7, <1>8, <2>1, <2>2
  <1>13. ASSUME NEW hw \in HwIds, NEW i \in Ids, Saves(i, hw)
         PROVE  Single(id)' /\ PlacedOnce(id)'
    <2>1. msg.k \in {"done", "restored"} /\ \A h \in HwIds : geofences'[h].id = IF h = hw THEN i ELSE geofences[h].id
      BY <1>g, <1>13 DEF Saves, Watching
    <2>2. CASE i # id
      BY <1>7, <1>8, <2>1, <2>2
    <2>3. CASE i = id /\ msg.k = "done"
      <3>1. /\ AddDone /\ batches[c].cmd = "add" /\ batches[c].ids[j] = id /\ Item(batches, c, j)
        BY <1>c, <1>1, <1>13, <2>3 DEF Saves, Says, Proper
      <3>2. EndsPending(c, j)
        BY <1>c, <3>1, AdapterPending DEF Finishing
      <3>3. Adding(id)
        BY <3>1, <3>2 DEF EndsPending, Adding, Item, Items
      <3>4. ~ Adding(id)'
        <4>1. ASSUME NEW b \in DOMAIN batches, batches[b].cmd = "add", NEW k \in Items(b), batches[b].ids[k] = id, Pending(b, k)'
              PROVE  FALSE
          <5>1. b = c /\ k = j
            BY <3>1, <4>1, AddedByOne DEF Item, Items
          <5> QED BY <3>2, <4>1, <5>1 DEF EndsPending
        <4> QED BY <1>1, <4>1 DEF Adding, Grows, Items
      <3>5. ~ Kept(id) /\ ~ Asked(id) /\ ~ Returns(id) /\ id < nextId'
        BY <1>0, <1>2, <3>3 DEF PlacedOnce
      <3>6. (\A n \in DOMAIN apiQ' : ~ Again(apiQ'[n].reply, id)) /\ (\A n \in DOMAIN msgQ' : ~ Again(msgQ'[n], id))
        BY <1>1, <1>5, <1>6, <1>8, <2>1, <3>5 DEF Asked, Returns
      <3>7. \A h \in HwIds : geofences'[h].id = id => h = hw
        BY <2>1, <3>5 DEF Kept
      <3>8. ~ Asked(id)' /\ ~ Returns(id)'
        BY <3>6 DEF Asked, Returns
      <3> QED BY <3>4, <3>5, <3>6, <3>7, <3>8 DEF Single, PlacedOnce
    <2>4. CASE i = id /\ msg.k = "restored"
      <3>1. Again(msgQ[1], id)
        BY <1>1, <1>13, <2>4 DEF Saves, Says, Again
      <3>2. Returns(id)
        BY <1>1, <3>1 DEF Returns
      <3>3. ~ Adding(id)' /\ ~ Kept(id) /\ ~ Asked(id) /\ id < nextId'
        BY <1>0, <1>2, <1>4, <3>2 DEF PlacedOnce
      <3>4. (\A n \in DOMAIN apiQ' : ~ Again(apiQ'[n].reply, id)) /\ (\A n \in DOMAIN msgQ' : ~ Again(msgQ'[n], id))
        BY <1>1, <1>2, <1>5, <1>6, <1>8, <2>1, <3>1, <3>3 DEF Asked, Single
      <3>5. \A h \in HwIds : geofences'[h].id = id => h = hw
        BY <2>1, <3>3 DEF Kept
      <3>6. ~ Asked(id)' /\ ~ Returns(id)'
        BY <3>4 DEF Asked, Returns
      <3> QED BY <3>3, <3>4, <3>5, <3>6 DEF Single, PlacedOnce
    <2> QED BY <2>1, <2>2, <2>3, <2>4
  <1>14. CASE RestartGeofences
    <2>1. ~ Kept(id)' /\ \A h \in HwIds : geofences'[h].id # id
      BY <1>0, <1>14 DEF RestartGeofences, Kept
    <2>2. \A n \in DOMAIN msgQ' : Again(msgQ'[n], id) => Again(msgQ[n + 1], id)
      BY <1>1
    <2>3. Returns(id)' => Returns(id)
      BY <1>1, <2>2 DEF Returns
    <2>4. \A m, n \in DOMAIN msgQ' : Again(msgQ'[m], id) /\ Again(msgQ'[n], id) => m = n
      <3>1. ASSUME NEW m \in DOMAIN msgQ', NEW n \in DOMAIN msgQ', Again(msgQ'[m], id), Again(msgQ'[n], id)
            PROVE  m = n
        <4>1. m + 1 = n + 1 /\ m \in Nat /\ n \in Nat
          BY <1>1, <1>2, <2>2, <3>1 DEF Single
        <4> QED BY <4>1
      <3> QED BY <3>1
    <2>5. \A n \in DOMAIN apiQ' : Again(apiQ'[n].reply, id) =>
            (n \in DOMAIN apiQ /\ Asked(id)) \/ (n \notin DOMAIN apiQ /\ Kept(id))
      <3> SUFFICES ASSUME NEW n \in DOMAIN apiQ', Again(apiQ'[n].reply, id), n \notin DOMAIN apiQ
                   PROVE  Kept(id)
        BY <1>5 DEF Asked
      <3> QED BY <1>14, RestartCalls DEF Again, Kept
    <2>6. ASSUME NEW m \in DOMAIN apiQ', NEW n \in DOMAIN apiQ', Again(apiQ'[m].reply, id), Again(apiQ'[n].reply, id)
          PROVE  m = n
      <3>1. CASE m \in DOMAIN apiQ /\ n \in DOMAIN apiQ
        BY <1>2, <1>5, <2>6, <3>1 DEF Single
      <3>2. CASE m \notin DOMAIN apiQ /\ n \notin DOMAIN apiQ
        <4>1. PICK h \in HwIds : /\ geofences[h] # NoFence /\ apiQ'[n].reply.fence = geofences[h]
                                 /\ \A k \in DOMAIN apiQ' : /\ k \notin DOMAIN apiQ /\ apiQ'[k].reply.fence = geofences[h]
                                                            /\ \A g \in HwIds : geofences[g] = geofences[h] => g = h
                                                            => k = n
          BY <1>14, <3>2, RestartCalls
        <4>2. PICK g \in HwIds : apiQ'[m].reply.fence = geofences[g]
          BY <1>14, <3>2, RestartCalls
        <4>3. g = h /\ \A k \in HwIds : geofences[k] = geofences[h] => k = h
          BY <1>2, <2>6, <4>1, <4>2 DEF Again, Single
        <4> QED BY <3>2, <4>1, <4>2, <4>3
      <3>3. CASE ~ (m \in DOMAIN apiQ <=> n \in DOMAIN apiQ)
        BY <1>2, <2>5, <2>6, <3>3 DEF PlacedOnce
      <3> QED BY <3>1, <3>2, <3>3
    <2>7. Asked(id)' => Asked(id) \/ Kept(id)
      BY <2>5 DEF Asked
    <2>8. Single(id)'
      BY <2>1, <2>4, <2>6 DEF Single
    <2> QED BY <1>0, <1>2, <1>4, <2>1, <2>3, <2>7, <2>8 DEF PlacedOnce
  <1> QED BY <1>9, <1>10, <1>11, <1>12, <1>13, <1>14, AdapterDoes

LEMMA OnePlaceInvariant == Spec => []OnePlace
  <1>1. Init => OnePlace
    <2> SUFFICES ASSUME Init, NEW id \in Ids
                 PROVE  Single(id) /\ PlacedOnce(id)
      BY DEF OnePlace
    <2>1. msgQ = << >> /\ apiQ = << >> /\ batches = << >> /\ \A h \in HwIds : geofences[h].id # id
      BY DEF Init, NoFence, Ids
    <2> QED BY <2>1 DEF Single, PlacedOnce, Adding, Kept, Asked, Returns
  <1>2. ASSUME Typed, Typed', Ordered, Sensible, OnePlace, [Next]_vars
        PROVE  OnePlace'
    <2>1. CASE UNCHANGED vars
      <3>1. UNCHANGED <<nextId, geofences, msgQ, apiQ, batches>>
        BY <2>1 DEF vars, clientVars, mapVars
      <3> QED BY <1>2, <3>1 DEF OnePlace, Single, PlacedOnce, Adding, Kept, Asked, Returns, Pending, Items
    <2> QED BY <1>2, <2>1, ClientOnePlace, AdapterOnePlace, ModemOnePlace DEF Next
  <1> QED BY <1>1, <1>2, TypedInvariant, OrderedInvariant, SensibleInvariant, PTL DEF Spec

\* The adapter finds the hardware id of a fence it keeps for a client that is
\* still there.
FencesFound ==
  \A h \in HwIds : geofences[h] # NoFence /\ owner[geofences[h].id] \in clientData => geofenceIds[geofences[h].id] = h

LEMMA AdapterFound ==
  ASSUME Typed, Typed', Ordered, Sensible, OnePlace, OnePlace', FencesFound, AdapterStep
  PROVE  FencesFound'
  <1>0. /\ geofences \in [HwIds -> Fence \cup {NoFence}] /\ geofenceIds \in [Ids -> HwIds \cup {0}]
        /\ UNCHANGED owner /\ 0 \notin HwIds /\ NoFence.id = 0 /\ 0 \notin Ids
        /\ \A h \in HwIds : geofences[h] # NoFence => geofences[h].id \in Ids
        /\ \A h \in HwIds : geofences'[h] # NoFence => geofences'[h].id \in Ids
    <2>1. 0 \notin HwIds /\ NoFence.id = 0 /\ 0 \notin Ids /\ \A f \in Fence : f.id \in Ids
      BY DEF HwIds, Ids, NoFence, Fence
    <2> QED BY <2>1, AdapterQueues DEF Typed, MapsTyped
  <1> SUFFICES ASSUME NEW h \in HwIds, geofences'[h] # NoFence, owner[geofences'[h].id] \in clientData'
               PROVE  geofenceIds'[geofences'[h].id] = h
    BY <1>0 DEF FencesFound
  <1>1. CASE Leaves
    BY <1>1 DEF Leaves, FencesFound
  <1>2. CASE RemoveClient
    BY <1>0, <1>2 DEF RemoveClient, FencesFound
  <1>3. CASE RestartGeofences
    BY <1>3 DEF RestartGeofences
  <1>4. ASSUME NEW hw \in HwIds, Erases(hw)
        PROVE  geofenceIds'[geofences'[h].id] = h
    <2>1. CASE UNCHANGED mapVars
      BY <1>4, <2>1 DEF Erases, FencesFound, mapVars
    <2>2. CASE /\ geofences[hw] # NoFence
               /\ geofenceIds' = [geofenceIds EXCEPT ![geofences[hw].id] = 0]
               /\ geofences' = [geofences EXCEPT ![hw] = NoFence]
      <3>1. h # hw /\ geofences'[h] = geofences[h]
        BY <1>0, <2>2
      <3>2. geofences[h].id # geofences[hw].id
        BY <1>0, <2>2, <3>1 DEF OnePlace, Single
      <3> QED BY <1>0, <1>4, <2>2, <3>1, <3>2 DEF Erases, FencesFound
    <2> QED BY <1>4, <2>1, <2>2 DEF Erases, RemoveItem
  <1>5. ASSUME NEW hw \in HwIds, Sweeping(hw)
        PROVE  geofenceIds'[geofences'[h].id] = h
    BY <1>0, <1>5 DEF Sweeping, FencesFound
  <1>6. ASSUME NEW hw \in HwIds, Toggles(hw) \/ Modifies(hw)
        PROVE  geofenceIds'[geofences'[h].id] = h
    <2>1. UNCHANGED <<geofenceIds, clientData>>
      BY <1>6 DEF Toggles, Modifies, SetPaused, SetMask
    <2>2. \/ geofences' = geofences
          \/ geofences[hw] # NoFence /\ \E paused : geofences' = [geofences EXCEPT ![hw].paused = paused]
          \/ geofences[hw] # NoFence /\ \E mask : geofences' = [geofences EXCEPT ![hw].mask = mask]
      BY <1>6 DEF Toggles, Modifies, SetPaused, SetMask
    <2>3. geofences[hw] \in Described
      BY <1>0, FenceDescribed
    <2>4. ASSUME NEW paused, geofences[hw] # NoFence, geofences' = [geofences EXCEPT ![hw].paused = paused]
          PROVE  geofences[h] # NoFence /\ geofences'[h].id = geofences[h].id
      BY <1>0, <2>3, <2>4 DEF Described
    <2>5. ASSUME NEW mask, geofences[hw] # NoFence, geofences' = [geofences EXCEPT ![hw].mask = mask]
          PROVE  geofences[h] # NoFence /\ geofences'[h].id = geofences[h].id
      BY <1>0, <2>3, <2>5 DEF Described
    <2>6. geofences[h] # NoFence /\ geofences'[h].id = geofences[h].id
      BY <2>2, <2>4, <2>5
    <2> QED BY <2>1, <2>6 DEF FencesFound
  <1>7. ASSUME NEW hw \in HwIds, NEW i \in Ids, Saves(i, hw)
        PROVE  geofenceIds'[geofences'[h].id] = h
    <2>1. /\ UNCHANGED clientData /\ geofenceIds' = [geofenceIds EXCEPT ![i] = hw]
          /\ geofences'[hw].id = i /\ (h # hw => geofences'[h] = geofences[h])
      BY <1>0, <1>7 DEF Saves, Watching
    <2>2. CASE h = hw
      BY <1>0, <2>1, <2>2
    <2>3. CASE h # hw
      <3>1. geofences'[h].id # i
        BY <2>1, <2>3 DEF OnePlace, Single
      <3> QED BY <1>0, <2>1, <2>3, <3>1 DEF FencesFound
    <2> QED BY <2>2, <2>3
  <1> QED BY <1>1, <1>2, <1>3, <1>4, <1>5, <1>6, <1>7, AdapterDoes

LEMMA FencesFoundInvariant == Spec => []FencesFound
  <1>1. Init => FencesFound
    BY DEF Init, FencesFound
  <1>2. ASSUME Typed, Typed', Ordered, Sensible, OnePlace, OnePlace', FencesFound, [Next]_vars
        PROVE  FencesFound'
    <2> USE <1>2
    <2>1. CASE UNCHANGED vars
      BY <2>1 DEF vars, clientVars, mapVars, FencesFound
    <2>2. CASE ClientStep
      <3>1. PICK c \in Clients : Destroy(c) \/ \E k, ids, masks : Issued(k, c, ids, masks)
        BY <2>2, ClientActs
      <3>2. UNCHANGED <<mapVars, clientData>> /\ \A id \in Ids : id < nextId => owner'[id] = owner[id]
        BY <3>1 DEF Destroy, Issued, Issue
      <3>3. \A h \in HwIds : geofences[h] # NoFence => geofences[h].id \in Ids /\ geofences[h].id < nextId
        <4>1. \A f \in Fence : f.id \in Ids
          BY DEF Fence
        <4> QED BY <4>1 DEF OnePlace, PlacedOnce, Kept, Typed, MapsTyped
      <3> QED BY <3>2, <3>3 DEF FencesFound, mapVars
    <2>3. CASE LocApiStep \/ ModemStep
      BY <2>3, ModemPosts DEF ModemKeeps, clientVars, mapVars, FencesFound
    <2> QED BY <2>1, <2>2, <2>3, AdapterFound DEF Next
  <1>3. Spec => []OnePlace
    BY OnePlaceInvariant
  <1> QED BY <1>1, <1>2, <1>3, TypedInvariant, OrderedInvariant, SensibleInvariant, PTL DEF Spec

-----------------------------------------------------------------------------
(* News of a fence is news of one the adapter has *)

News(B, m, h) == m.k = "done" /\ B[m.batch].cmd # "add" /\ m.hw = h

NewsInUse ==
  \A h \in HwIds : \A n \in DOMAIN msgQ : News(batches, msgQ[n], h) =>
    h \in usedHw /\ \A m \in DOMAIN msgQ : ~ Announces(batches, msgQ[m], h)

\* What the LocApi thread and the modem post.
LEMMA PostedNews ==
  ASSUME Typed, NoReuse', LocApiStep \/ ModemStep
  PROVE  \/ UNCHANGED msgQ
         \/ \E m \in Messages : /\ msgQ' = Append(msgQ, m)
                                /\ \A h \in HwIds : /\ News(batches, m, h) => InUse(h)
                                                    /\ Announces(batches, m, h) => h \notin usedHw /\ h \in usedHw'
  <1>1. ASSUME NEW hw \in HwIds \cup {0}, NEW ok \in BOOLEAN, Replied(hw, ok), LocApiStep,
               Head(apiQ).op \notin {"turn", "add"} => hw = Head(apiQ).hw,
               ok => Head(apiQ).op # "add" \/ (hw \notin usedHw /\ hw \in usedHw')
        PROVE  \/ UNCHANGED msgQ
               \/ \E m \in Messages : /\ msgQ' = Append(msgQ, m)
                                      /\ \A h \in HwIds : /\ News(batches, m, h) => InUse(h)
                                                          /\ Announces(batches, m, h) => h \notin usedHw /\ h \in usedHw'
    <2> DEFINE c == apiQ[1]
    <2>1. c = Head(apiQ) /\ 1 \in DOMAIN apiQ /\ ProperCall(batches, c) /\ c \in Calls
      BY <1>1, Goes, ServedCall
    <2> HIDE DEF c
    <2>2. ASSUME NEW m, Answering(m, hw, ok), NEW h \in HwIds
          PROVE  /\ News(batches, m, h) => InUse(h)
                 /\ Announces(batches, m, h) => h \notin usedHw /\ h \in usedHw'
      <3>1. m.k = c.reply.k /\ m.batch = c.reply.batch /\ m.hw = hw /\ m.ok = ok /\ c.op \in Ops
        BY <2>1, <2>2 DEF Answering, Calls
      <3>2. c.reply.k = "done" => c.op = batches[c.reply.batch].cmd /\ c.op \in Cmds
        BY <2>1, <3>1 DEF ProperCall, Ops, ForItem, ForSweep, ForRestart, ForPause, Blank
      <3>3. c.reply.k = "restored" => c.op = "add"
        BY <2>1, <3>1 DEF ProperCall, Ops, ForItem, ForSweep, ForRestart, ForPause, Blank
      <3>4. News(batches, m, h) => c.op \in Cmds \ {"add"} /\ c.hw = h
        BY <1>1, <2>1, <3>1, <3>2 DEF News, Cmds
      <3>5. Announces(batches, m, h) => c.op = "add" /\ ok /\ hw = h
        BY <3>1, <3>2, <3>3 DEF Announces
      <3> QED BY <1>1, <2>1, <3>4, <3>5 DEF InUse, c
    <2> QED BY <1>1, <2>2 DEF Replied, Answering
  <1>2. CASE Declines
    <2>1. PICK hw \in HwIds \cup {0}, ok \in BOOLEAN :
               (ok => Head(apiQ).op = "turn") /\ (Head(apiQ).op # "turn" => hw = Head(apiQ).hw) /\ Replied(hw, ok)
      BY <1>2 DEF Declines
    <2>2. LocApiStep
      BY <1>2 DEF Declines
    <2> QED BY <1>1, <2>1, <2>2
  <1>3. ASSUME NEW hw \in HwIds, Adds(hw) \/ Changes(hw)
        PROVE  \/ UNCHANGED msgQ
               \/ \E m \in Messages : /\ msgQ' = Append(msgQ, m)
                                      /\ \A h \in HwIds : /\ News(batches, m, h) => InUse(h)
                                                          /\ Announces(batches, m, h) => h \notin usedHw /\ h \in usedHw'
    <2>1. LocApiStep /\ Replied(hw, TRUE) /\ TRUE \in BOOLEAN
      BY <1>3 DEF Adds, Changes
    <2>2. (Head(apiQ).op = "add" /\ hw \notin usedHw /\ hw \in usedHw') \/ (Head(apiQ).op # "add" /\ hw = Head(apiQ).hw)
      BY <1>3 DEF Adds, Changes
    <2> QED BY <1>1, <2>1, <2>2
  <1>4. CASE Opens \/ Resets \/ Breaches
    <2>1. UNCHANGED msgQ \/ \E m \in Messages : msgQ' = Append(msgQ, m) /\ m.k \in {"engineUp", "breach"}
      BY <1>4 DEF Opens, Resets, Breaches
    <2> QED BY <2>1 DEF News, Announces
  <1> QED BY <1>2, <1>3, <1>4, ModemDoes

LEMMA NewsInUseInvariant == Spec => [](NoReuse => NewsInUse)
  <1>1. Init => NewsInUse
    BY DEF Init, NewsInUse
  <1>2. ASSUME NoReuse', Typed, MapsInv, NewsInUse, [Next]_vars
        PROVE  NewsInUse'
    <2> USE <1>2
    <2>1. CASE UNCHANGED vars
      BY <2>1 DEF vars, modemVars, NewsInUse, News, Announces
    <2>2. ASSUME Grows
          PROVE  \A n \in DOMAIN msgQ, h \in HwIds :
                    /\ News(batches', msgQ[n], h) <=> News(batches, msgQ[n], h)
                    /\ Announces(batches', msgQ[n], h) <=> Announces(batches, msgQ[n], h)
      <3>1. \A n \in DOMAIN msgQ : msgQ[n].k = "done" => msgQ[n].batch \in DOMAIN batches
        BY DEF Typed, MsgTyped, Proper, Item
      <3> QED BY <2>2, <3>1, GrownAnnounces DEF News, Grows
    <2>3. ASSUME Grows, usedHw \subseteq usedHw', NEW m \in Messages, msgQ' = Append(msgQ, m),
                 \A h \in HwIds : /\ News(batches', m, h) => InUse(h)
                                  /\ Announces(batches', m, h) => h \notin usedHw
          PROVE  NewsInUse'
      <3> SUFFICES ASSUME NEW h \in HwIds, NEW n \in DOMAIN msgQ', News(batches', msgQ'[n], h)
                   PROVE  h \in usedHw' /\ \A k \in DOMAIN msgQ' : ~ Announces(batches', msgQ'[k], h)
        BY DEF NewsInUse
      <3>1. CASE n \in DOMAIN msgQ
        <4>1. News(batches, msgQ[n], h)
          BY <2>2, <2>3, <3>1, Comes
        <4>2. h \in usedHw /\ \A k \in DOMAIN msgQ : ~ Announces(batches, msgQ[k], h)
          BY <3>1, <4>1 DEF NewsInUse
        <4> QED BY <2>2, <2>3, <4>2, Comes
      <3>2. CASE n = Len(msgQ) + 1
        <4>1. News(batches', m, h) /\ ~ Announces(batches', m, h)
          BY <2>3, <3>2, Comes DEF News, Announces
        <4>2. h \in usedHw /\ \A k \in DOMAIN msgQ : ~ Announces(batches, msgQ[k], h)
          BY <2>3, <4>1 DEF MapsInv, Handed, HandedOver
        <4> QED BY <2>2, <2>3, <4>1, <4>2, Comes
      <3> QED BY <2>3, <3>1, <3>2, Comes
    <2>4. CASE ClientStep
      <3>1. PICK m \in Messages : msgQ' = Append(msgQ, m) /\ m.k \in {"command", "removeClient"}
        BY <2>4, ClientPosts
      <3>2. Grows /\ usedHw \subseteq usedHw'
        BY <2>4, ClientPosts, ClientsTypedStep DEF modemVars
      <3> QED BY <2>3, <3>1, <3>2 DEF News, Announces
    <2>5. CASE AdapterStep
      <3>1. Grows /\ UNCHANGED usedHw /\ \A n \in DOMAIN msgQ' : n + 1 \in DOMAIN msgQ /\ msgQ'[n] = msgQ[n + 1]
        BY <2>5, AdapterQueues
      <3> QED BY <2>2, <3>1 DEF NewsInUse
    <2>6. CASE LocApiStep \/ ModemStep
      <3>1. Grows /\ UNCHANGED batches
        BY <2>6, ModemPosts, SameGrows DEF ModemKeeps
      <3>2. usedHw \subseteq usedHw'
        BY <2>6, ModemDoes DEF Declines, Opens, Resets, Breaches, Adds, Changes, modemVars
      <3>3. CASE UNCHANGED msgQ
        BY <3>1, <3>2, <3>3 DEF NewsInUse
      <3>4. ASSUME NEW m \in Messages, msgQ' = Append(msgQ, m),
                   \A h \in HwIds : News(batches, m, h) => InUse(h), \A h \in HwIds : Announces(batches, m, h) => h \notin usedHw
            PROVE  NewsInUse'
        BY <2>3, <3>1, <3>2, <3>4
      <3> QED BY <2>6, <3>3, <3>4, PostedNews
    <2> QED BY <2>1, <2>4, <2>5, <2>6 DEF Next
  <1>3. Spec => [](NoReuse => MapsInv)
    BY MapsInvariant
  <1> QED BY <1>1, <1>2, <1>3, TypedInvariant, ReuseStays, PTL DEF Spec

-----------------------------------------------------------------------------
(* What a step of the modem means for one hardware id *)

\* A message that says nothing of h.
Silent(m, h) == /\ ~ Announces(batches, m, h) /\ ~ Forgets(batches, m, h) /\ m.k # "engineUp"
                /\ ~ Sets(batches, m, h, "mask") /\ ~ Sets(batches, m, h, "paused")

Hushes(h) == /\ modem'[h] = modem[h] /\ (Opening' <=> Opening)
             /\ UNCHANGED msgQ \/ \E m \in Messages : msgQ' = Append(msgQ, m) /\ Silent(m, h)
Arises(h) == /\ h \notin usedHw /\ h \in usedHw' /\ link /\ (Opening' <=> Opening) /\ modem'[h] \in Fence
             /\ \E m \in Messages : /\ msgQ' = Append(msgQ, m) /\ Announces(batches, m, h)
                                    /\ Value(batches, m, "mask") = Field(modem'[h], "mask")
                                    /\ Value(batches, m, "paused") = Field(modem'[h], "paused")
Vanishes(h) == /\ modem'[h] = NoFence /\ InUse(h) /\ (Opening' <=> Opening)
               /\ \E m \in Messages : msgQ' = Append(msgQ, m) /\ Forgets(batches, m, h)
Turns(h) == /\ modem[h] # NoFence /\ modem'[h] # NoFence /\ (Opening' <=> Opening)
            /\ Field(modem'[h], "mask") = Field(modem[h], "mask")
            /\ \/ UNCHANGED msgQ /\ "reset" \in happened
               \/ \E m \in Messages : /\ msgQ' = Append(msgQ, m) /\ Sets(batches, m, h, "paused")
                                      /\ m.k = "done" /\ batches[m.batch].cmd \in {"pause", "resume"}
                                      /\ Value(batches, m, "paused") = Field(modem'[h], "paused")
Alters(h) == /\ modem[h] # NoFence /\ modem'[h] # NoFence /\ (Opening' <=> Opening)
             /\ Field(modem'[h], "paused") = Field(modem[h], "paused")
             /\ \E m \in Messages : /\ msgQ' = Append(msgQ, m) /\ Sets(batches, m, h, "mask")
                                    /\ m.k = "done" /\ batches[m.batch].cmd = "modify"
                                    /\ Value(batches, m, "mask") = Field(modem'[h], "mask")
Reopens(h) == /\ Opening /\ ~ link /\ modem'[h] = modem[h]
              /\ \E m \in Messages : msgQ' = Append(msgQ, m) /\ m.k = "engineUp"
Dies(h) == modem'[h] = NoFence /\ UNCHANGED msgQ /\ Opening'

LEMMA OpeningKept ==
  ASSUME Typed, LocApiStep, Head(apiQ).op # "open"
  PROVE  Opening' <=> Opening
  BY Goes DEF Opening

LEMMA DeclinesHush ==
  ASSUME Typed, NEW h \in HwIds, Declines
  PROVE  Hushes(h)
  <1>1. modem'[h] = modem[h] /\ (Opening' <=> Opening)
    BY OpeningKept DEF Declines, modemVars
  <1>2. PICK hw \in HwIds \cup {0}, ok \in BOOLEAN : (ok => Head(apiQ).op = "turn") /\ Replied(hw, ok)
    BY DEF Declines
  <1>3. ASSUME NEW m, Answering(m, hw, ok)
        PROVE  m \in Messages /\ Silent(m, h)
    <2>1. /\ LocApiStep /\ Head(apiQ).op # "open" /\ Head(apiQ) = apiQ[1] /\ ProperCall(batches, apiQ[1])
          /\ m.ok = ok /\ m.k = apiQ[1].reply.k /\ m \in Messages
      BY <1>3, Goes DEF Declines, Answering
    <2>2. m.k # "engineUp" /\ (ok => m.k = "turn")
      BY <1>2, <2>1 DEF ProperCall, Calls, Ops, ForItem, ForSweep, ForRestart, ForPause, Blank
    <2> QED BY <1>2, <2>1, <2>2 DEF Silent, Announces, Forgets, Sets
  <1> QED BY <1>1, <1>2, <1>3 DEF Replied, Hushes

LEMMA OthersHush ==
  ASSUME Typed, NEW h \in HwIds, NEW hw \in HwIds, h # hw, Adds(hw) \/ Changes(hw)
  PROVE  Hushes(h)
  <1>1. LocApiStep /\ Head(apiQ).op \in Cmds /\ Replied(hw, TRUE) /\ "open" \notin Cmds
    BY DEF Adds, Changes, Cmds
  <1>2. modem'[h] = modem[h] /\ (Opening' <=> Opening)
    BY <1>1, OpeningKept DEF Adds, Changes, Typed, ModemTyped
  <1>3. ASSUME NEW m, Answering(m, hw, TRUE)
        PROVE  m \in Messages /\ Silent(m, h)
    <2>1. /\ Head(apiQ) = apiQ[1] /\ ProperCall(batches, apiQ[1]) /\ apiQ[1].op \in Cmds
          /\ m.hw = hw /\ m.k = apiQ[1].reply.k /\ m \in Messages
      BY <1>1, <1>3, Goes DEF Answering
    <2>2. m.k # "engineUp"
      BY <2>1 DEF ProperCall, ForItem, ForSweep, ForRestart, ForPause, Blank
    <2> QED BY <2>1, <2>2 DEF Silent, Announces, Forgets, Sets
  <1> QED BY <1>1, <1>2, <1>3 DEF Replied, Hushes

LEMMA AddsArise ==
  ASSUME Typed, NoReuse', NEW h \in HwIds, Adds(h)
  PROVE  Arises(h)
  <1> DEFINE c == apiQ[1]
  <1>1. /\ LocApiStep /\ c = Head(apiQ) /\ ProperCall(batches, c) /\ c.op = "add" /\ c.fence \in Fence
        /\ modem' = [modem EXCEPT ![h] = c.fence] /\ Replied(h, TRUE)
    BY Goes DEF Adds
  <1>2. h \notin usedHw /\ h \in usedHw' /\ link /\ (Opening' <=> Opening) /\ modem'[h] = c.fence
    BY <1>1, OpeningKept DEF Adds, Typed, ModemTyped
  <1> HIDE DEF c
  <1>3. ForItem(batches, c) \/ ForRestart(c)
    BY <1>1 DEF ProperCall, Cmds, ForSweep, ForPause
  <1>4. c.reply.k \in {"done", "restored"} /\ (c.reply.k = "done" => batches[c.reply.batch].cmd = "add")
    BY <1>1, <1>3 DEF ForItem, ForRestart
  <1>5. PICK m : Answering(m, h, TRUE) /\ msgQ' = Append(msgQ, m)
    BY <1>1, <1>4 DEF Replied
  <1>6. /\ m \in Messages /\ m.hw = h /\ m.ok = TRUE /\ m.k = c.reply.k /\ m.batch = c.reply.batch
        /\ m.item = c.reply.item /\ m.fence = c.reply.fence
    BY <1>1, <1>5 DEF Answering
  <1>7. Announces(batches, m, h)
    BY <1>4, <1>6 DEF Announces
  <1>8. c.fence.paused = FALSE /\ c.fence.mask = (IF c.reply.k = "restored" THEN c.reply.fence.mask ELSE batches[c.reply.batch].masks[c.reply.item])
    <2>1. CASE ForItem(batches, c)
      BY <2>1 DEF ForItem, Watching
    <2>2. CASE ForRestart(c)
      BY <2>2 DEF ForRestart, Watching
    <2> QED BY <1>3, <2>1, <2>2
  <1>9. Value(batches, m, "mask") = Field(modem'[h], "mask")
    BY <1>2, <1>6, <1>8 DEF Value, Field
  <1>10. Value(batches, m, "paused") = Field(modem'[h], "paused")
    <2>1. ~ (m.k = "done" /\ batches[m.batch].cmd = "pause")
      BY <1>4, <1>6
    <2> QED BY <1>2, <1>8, <2>1 DEF Value, Field, Running
  <1> QED BY <1>1, <1>2, <1>5, <1>6, <1>7, <1>9, <1>10 DEF Arises

LEMMA ChangesShow ==
  ASSUME Typed, OneRestart, NEW h \in HwIds, Changes(h)
  PROVE  Vanishes(h) \/ Turns(h) \/ Alters(h)
  <1> DEFINE c == apiQ[1]
  <1>1. /\ LocApiStep /\ 1 \in DOMAIN apiQ /\ c = Head(apiQ) /\ ProperCall(batches, c) /\ c.op \in Cmds \ {"add"} /\ c.hw = h
        /\ modem[h] \in Fence /\ Replied(h, TRUE)
        /\ modem'[h] = Changed(modem[h], c)
    BY Goes DEF Changes, Typed, ModemTyped
  <1>2. (Opening' <=> Opening) /\ InUse(h)
    BY <1>1, OpeningKept DEF InUse, Cmds
  <1>3. c.reply.k = "ignore" => "reset" \in happened
    BY <1>1 DEF OneRestart
  <1>4. NoFence \notin Fence
    BY DEF NoFence, Fence, Ids
  <1> HIDE DEF c
  <1>5. ForItem(batches, c) \/ ForSweep(c) \/ ForPause(c)
    BY <1>1 DEF ProperCall, Cmds, ForRestart
  <1>6. CASE ForItem(batches, c)
    <2>1. c.reply.k = "done" /\ batches[c.reply.batch].cmd = c.op /\ c.fence.mask = batches[c.reply.batch].masks[c.reply.item]
      BY <1>6 DEF ForItem, Watching
    <2>2. PICK m : Answering(m, h, TRUE) /\ msgQ' = Append(msgQ, m)
      BY <1>1, <2>1 DEF Replied
    <2>3. /\ m \in Messages /\ m.hw = h /\ m.ok = TRUE /\ m.k = "done" /\ batches[m.batch].cmd = c.op
          /\ c.fence.mask = batches[m.batch].masks[m.item]
      BY <1>1, <2>1, <2>2 DEF Answering
    <2>4. CASE c.op = "remove"
      <3>1. modem'[h] = NoFence
        BY <1>1, <2>4 DEF Changed
      <3>2. Forgets(batches, m, h)
        BY <2>3, <2>4 DEF Forgets
      <3> QED BY <1>2, <2>2, <2>3, <3>1, <3>2 DEF Vanishes
    <2>5. CASE c.op = "modify"
      <3>1. modem'[h] = [modem[h] EXCEPT !.mask = c.fence.mask]
        BY <1>1, <2>5 DEF Changed
      <3>2. modem'[h].id \in Ids /\ modem'[h].mask = c.fence.mask /\ modem'[h].paused = modem[h].paused
        BY <1>1, <3>1 DEF Fence
      <3>3. modem'[h] # NoFence /\ modem[h] # NoFence
        BY <1>1, <1>4, <3>2 DEF NoFence, Ids
      <3>4. Sets(batches, m, h, "mask") /\ Value(batches, m, "mask") = Field(modem'[h], "mask")
        BY <2>3, <2>5, <3>2 DEF Sets, Value, Field
      <3> QED BY <1>2, <2>2, <2>3, <2>5, <3>2, <3>3, <3>4 DEF Alters, Field
    <2>6. CASE c.op \in {"pause", "resume"}
      <3>1. modem'[h] = [modem[h] EXCEPT !.paused = (c.op = "pause")]
        <4>1. CASE c.op = "pause"
          <5>1. modem'[h] = [modem[h] EXCEPT !.paused = TRUE] /\ (c.op = "pause") = TRUE
            BY <1>1, <4>1 DEF Changed
          <5> QED BY <5>1
        <4>2. CASE c.op = "resume"
          <5>1. modem'[h] = [modem[h] EXCEPT !.paused = FALSE] /\ (c.op = "pause") = FALSE
            BY <1>1, <4>2 DEF Changed
          <5> QED BY <5>1
        <4> QED BY <2>6, <4>1, <4>2
      <3>2. modem'[h].id \in Ids /\ modem'[h].mask = modem[h].mask /\ modem'[h].paused = (c.op = "pause")
        BY <1>1, <3>1 DEF Fence
      <3>3. modem'[h] # NoFence /\ modem[h] # NoFence
        BY <1>1, <1>4, <3>2 DEF NoFence, Ids
      <3>4. Sets(batches, m, h, "paused")
        BY <2>3, <2>6 DEF Sets
      <3>5. Value(batches, m, "paused") = Field(modem'[h], "paused")
        <4>1. (m.k = "done" /\ batches[m.batch].cmd = "pause") <=> c.op = "pause"
          BY <2>3
        <4> QED BY <3>2, <4>1 DEF Value, Field
      <3> QED BY <1>2, <2>2, <2>3, <2>6, <3>2, <3>3, <3>4, <3>5 DEF Turns, Field
    <2> QED BY <1>1, <2>4, <2>5, <2>6 DEF Cmds
  <1>7. CASE ForSweep(c)
    <2>1. c.reply.k = "swept" /\ c.op = "remove"
      BY <1>7 DEF ForSweep, Blank
    <2>2. PICK m : Answering(m, h, TRUE) /\ msgQ' = Append(msgQ, m)
      BY <1>1, <2>1 DEF Replied
    <2>3. m \in Messages /\ Forgets(batches, m, h)
      BY <1>1, <2>1, <2>2 DEF Answering, Forgets
    <2>4. modem'[h] = NoFence
      BY <1>1, <2>1 DEF Changed
    <2> QED BY <1>2, <2>2, <2>3, <2>4 DEF Vanishes
  <1>8. CASE ForPause(c)
    <2>1. c.op = "pause" /\ c.reply.k = "ignore"
      BY <1>8 DEF ForPause, Blank
    <2>2. UNCHANGED msgQ /\ "reset" \in happened
      BY <1>1, <1>3, <2>1 DEF Replied
    <2>3. modem'[h] = [modem[h] EXCEPT !.paused = TRUE]
      BY <1>1, <2>1 DEF Changed
    <2>4. modem'[h].id \in Ids /\ modem'[h].mask = modem[h].mask
      BY <1>1, <2>3 DEF Fence
    <2>5. modem'[h] # NoFence /\ modem[h] # NoFence
      BY <1>1, <1>4, <2>4 DEF NoFence, Ids
    <2> QED BY <1>2, <2>2, <2>4, <2>5 DEF Turns, Field
  <1> QED BY <1>5, <1>6, <1>7, <1>8

LEMMA ModemShows ==
  ASSUME Typed, NoReuse', OneRestart, LocApiStep \/ ModemStep, NEW h \in HwIds
  PROVE  /\ ModemKeeps /\ Grows /\ happened \subseteq happened' /\ usedHw \subseteq usedHw'
         /\ \/ Hushes(h) \/ Arises(h) \/ Vanishes(h) \/ Turns(h) \/ Alters(h) \/ Reopens(h) \/ Dies(h)
  <1>1. /\ ModemKeeps /\ Grows /\ happened \subseteq happened' /\ usedHw \subseteq usedHw'
    BY ModemDoes DEF Declines, Opens, Resets, Breaches, Adds, Changes, modemVars
  <1>2. CASE Opens
    <2>1. 1 \in DOMAIN apiQ /\ apiQ[1].op = "open"
      BY <1>2, Goes DEF Opens
    <2> QED BY <1>1, <1>2, <2>1 DEF Opens, Reopens, Opening, OneRestart
  <1>3. CASE Resets
    <2>1. Len(apiQ) + 1 \in DOMAIN apiQ' /\ apiQ'[Len(apiQ) + 1].op = "open"
      <3>1. Open.op = "open"
        BY DEF Open, Call
      <3> QED BY <1>3, <3>1, AppendFacts DEF Resets, Typed, ApiTyped
    <2> QED BY <1>1, <1>3, <2>1 DEF Resets, Dies, Opening
  <1>4. CASE Breaches
    <2>1. PICK m \in Messages : msgQ' = Append(msgQ, m) /\ m.k = "breach"
      BY <1>4 DEF Breaches
    <2>2. Silent(m, h)
      BY <2>1 DEF Silent, Announces, Forgets, Sets
    <2>3. modem'[h] = modem[h] /\ (Opening' <=> Opening)
      BY <1>4 DEF Breaches, modemVars, Opening
    <2> QED BY <1>1, <2>1, <2>2, <2>3 DEF Hushes
  <1>5. ASSUME NEW hw \in HwIds, Adds(hw) \/ Changes(hw)
        PROVE  Hushes(h) \/ Arises(h) \/ Vanishes(h) \/ Turns(h) \/ Alters(h)
    BY <1>5, OthersHush, AddsArise, ChangesShow
  <1> QED BY <1>1, <1>2, <1>3, <1>4, <1>5, DeclinesHush, ModemDoes

-----------------------------------------------------------------------------
(* What a step of the adapter means for one hardware id *)

\* A fence of a client that is there.
Owned(h) == geofences[h] # NoFence /\ owner[geofences[h].id] \in clientData

\* The field f of the fence under h, after a step that leaves or sets it.
Taken(h, f) == Field(geofences'[h], f) = Value(batches, msg, f)
Same(h, f)  == Field(geofences'[h], f) = Field(geofences[h], f)

\* The handler of a modify reads options that were freed.
ReadsFreed == msg.k = "done" /\ batches[msg.batch].cmd = "modify" /\ batches[msg.batch].freed

Drops(h) == /\ geofences'[h] = NoFence
            /\ (geofences[h] = NoFence /\ ~ Announces(batches, msg, h)) \/ msg.k = "engineUp" \/ Forgets(batches, msg, h)
Gains(h) == /\ geofences'[h] # NoFence /\ Announces(batches, msg, h) /\ Taken(h, "mask") /\ Taken(h, "paused")
            /\ UNCHANGED clientData
Stays(h) == /\ geofences[h] # NoFence /\ geofences'[h] # NoFence /\ geofences'[h].id = geofences[h].id
            /\ msg.k # "engineUp" /\ clientData' \subseteq clientData
            /\ Owned(h) => ~ Forgets(batches, msg, h)
            /\ IF Sets(batches, msg, h, "mask") THEN ReadsFreed \/ Taken(h, "mask") ELSE Same(h, "mask")
            /\ IF Sets(batches, msg, h, "paused") THEN Taken(h, "paused") ELSE Same(h, "paused")

LEMMA AdapterShows ==
  ASSUME Typed, FencesFound, AdapterStep, NEW h \in HwIds
  PROVE  Drops(h) \/ Gains(h) \/ Stays(h)
  <1>0. /\ geofences \in [HwIds -> Fence \cup {NoFence}] /\ geofenceIds \in [Ids -> HwIds \cup {0}]
        /\ 0 \notin HwIds /\ NoFence.id = 0 /\ 0 \notin Ids
        /\ \A g \in HwIds : geofences[g] \in Described
    <2>1. 0 \notin HwIds /\ NoFence.id = 0 /\ 0 \notin Ids
      BY DEF HwIds, Ids, NoFence
    <2> QED BY <2>1, FenceDescribed DEF Typed, MapsTyped
  <1>k. /\ geofences[h] # NoFence => geofences[h] \in Fence /\ geofences[h].id \in Ids
        /\ \A f \in Described : f.id # 0 => f # NoFence
    BY <1>0 DEF Fence
  <1>1. ASSUME UNCHANGED geofences, clientData' \subseteq clientData, msg.k # "engineUp",
               ~ Forgets(batches, msg, h), ~ Sets(batches, msg, h, "mask"), ~ Sets(batches, msg, h, "paused")
        PROVE  Drops(h) \/ Stays(h)
    BY <1>1 DEF Drops, Stays, Same, Sets, Announces
  <1>2. CASE Leaves
    BY <1>1, <1>2 DEF Leaves
  <1>3. CASE RemoveClient /\ msg.k = "removeClient"
    <2>1. UNCHANGED geofences /\ clientData' \subseteq clientData
      BY <1>3 DEF RemoveClient
    <2> QED BY <1>1, <1>3, <2>1 DEF Forgets, Sets, Announces
  <1>4. CASE RestartGeofences /\ msg.k = "engineUp"
    BY <1>4 DEF RestartGeofences, Drops
  <1>5. ASSUME NEW hw \in HwIds, Erases(hw)
        PROVE  Drops(h) \/ Stays(h)
    <2>1. /\ UNCHANGED clientData /\ Forgets(batches, msg, hw) /\ RemoveItem(hw) /\ msg.hw = hw
          /\ msg.k \in {"swept", "done"} /\ (msg.k = "done" => batches[msg.batch].cmd = "remove")
      BY <1>5 DEF Erases, Forgets
    <2>2. ~ Sets(batches, msg, h, "mask") /\ ~ Sets(batches, msg, h, "paused")
      BY <2>1 DEF Sets, Announces
    <2>3. CASE UNCHANGED mapVars
      <3>1. Forgets(batches, msg, h) => ~ Owned(h)
        <4>1. SUFFICES ASSUME h = hw, Owned(h)
                       PROVE  FALSE
          BY <2>1 DEF Forgets
        <4>2. geofenceIds[geofences[h].id] = h
          BY <4>1 DEF FencesFound, Owned
        <4>3. geofences'[h] = NoFence
          BY <1>0, <2>1, <4>1, <4>2 DEF RemoveItem, Owned
        <4> QED BY <2>3, <4>1, <4>3 DEF mapVars, Owned
      <3> QED BY <2>1, <2>2, <2>3, <3>1 DEF Drops, Stays, Same, mapVars, Sets, Announces
    <2>4. CASE geofences' = [geofences EXCEPT ![hw] = NoFence]
      <3>1. CASE h = hw
        BY <1>0, <2>1, <2>4, <3>1 DEF Drops
      <3>2. CASE h # hw
        <4>1. geofences'[h] = geofences[h] /\ ~ Forgets(batches, msg, h)
          BY <1>0, <2>1, <2>4, <3>2 DEF Forgets
        <4> QED BY <2>1, <2>2, <4>1 DEF Drops, Stays, Same, Sets, Announces
      <3> QED BY <3>1, <3>2
    <2> QED BY <2>1, <2>3, <2>4 DEF RemoveItem
  <1>6. ASSUME NEW hw \in HwIds, Sweeping(hw)
        PROVE  Drops(h) \/ Stays(h)
    <2>1. UNCHANGED clientData /\ Forgets(batches, msg, hw) /\ msg.k = "swept" /\ geofences' = [geofences EXCEPT ![hw] = NoFence]
      BY <1>6 DEF Sweeping
    <2>2. CASE h = hw
      BY <1>0, <2>1, <2>2 DEF Drops
    <2>3. CASE h # hw
      <3>1. geofences'[h] = geofences[h] /\ ~ Forgets(batches, msg, h) /\ ~ Sets(batches, msg, h, "mask") /\ ~ Sets(batches, msg, h, "paused")
        BY <1>0, <2>1, <2>3 DEF Forgets, Sets, Announces
      <3> QED BY <2>1, <3>1 DEF Drops, Stays, Same, Sets, Announces
    <2> QED BY <2>2, <2>3
  <1>7. ASSUME NEW hw \in HwIds, Toggles(hw)
        PROVE  Drops(h) \/ Stays(h)
    <2> DEFINE p == batches[msg.batch].cmd = "pause"
    <2>1. /\ UNCHANGED clientData /\ msg.k = "done" /\ batches[msg.batch].cmd \in {"pause", "resume"} /\ msg.hw = hw
          /\ Sets(batches, msg, hw, "paused") /\ p \in BOOLEAN
          /\ geofences' = IF geofences[hw] = NoFence THEN geofences ELSE [geofences EXCEPT ![hw].paused = p]
      BY <1>7 DEF Toggles, Sets, SetPaused
    <2>2. ~ Forgets(batches, msg, h) /\ ~ Sets(batches, msg, h, "mask")
      BY <2>1 DEF Forgets, Sets, Announces
    <2>3. Value(batches, msg, "paused") = Running(p)
      BY <2>1 DEF Value
    <2> HIDE DEF p
    <2>4. CASE h # hw
      <3>1. geofences'[h] = geofences[h] /\ ~ Sets(batches, msg, h, "paused")
        BY <1>0, <2>1, <2>4 DEF Sets
      <3> QED BY <2>1, <2>2, <3>1 DEF Drops, Stays, Same, Sets, Announces
    <2>5. CASE h = hw /\ geofences[h] = NoFence
      BY <2>1, <2>5 DEF Drops, Announces
    <2>6. CASE h = hw /\ geofences[h] # NoFence
      <3>1. geofences'[h] = [geofences[h] EXCEPT !.paused = p]
        BY <1>0, <2>1, <2>6
      <3>2. geofences'[h].id = geofences[h].id /\ geofences'[h].mask = geofences[h].mask /\ geofences'[h].paused = p
        BY <1>0, <3>1 DEF Described
      <3>3. geofences'[h] # NoFence
        BY <1>0, <1>k, <2>6, <3>2
      <3>4. Taken(h, "paused") /\ Same(h, "mask")
        BY <2>3, <3>2 DEF Taken, Same, Field
      <3> QED BY <2>1, <2>2, <2>6, <3>2, <3>3, <3>4 DEF Stays
    <2> QED BY <2>4, <2>5, <2>6
  <1>8. ASSUME NEW hw \in HwIds, Modifies(hw)
        PROVE  Drops(h) \/ Stays(h)
    <2>1. /\ UNCHANGED clientData /\ msg.k = "done" /\ batches[msg.batch].cmd = "modify" /\ msg.hw = hw
          /\ Sets(batches, msg, hw, "mask")
      BY <1>8 DEF Modifies, Sets
    <2>2. PICK mask \in Options(msg.batch, msg.item) : SetMask(hw, mask)
      BY <1>8 DEF Modifies
    <2>3. ReadsFreed \/ mask = Value(batches, msg, "mask")
      BY <2>1, <2>2 DEF Options, ReadsFreed, Value
    <2>4. ~ Forgets(batches, msg, h) /\ ~ Sets(batches, msg, h, "paused")
      BY <2>1 DEF Forgets, Sets, Announces
    <2>5. CASE h # hw
      <3>1. geofences'[h] = geofences[h] /\ ~ Sets(batches, msg, h, "mask")
        BY <1>0, <2>1, <2>2, <2>5 DEF Sets, SetMask
      <3> QED BY <2>1, <2>4, <3>1 DEF Drops, Stays, Same, Sets, Announces
    <2>6. CASE h = hw /\ geofences[h] = NoFence
      BY <2>1, <2>2, <2>6 DEF Drops, SetMask, Announces
    <2>7. CASE h = hw /\ geofences[h] # NoFence
      <3>1. geofences'[h] = [geofences[h] EXCEPT !.mask = mask]
        BY <1>0, <2>2, <2>7 DEF SetMask
      <3>2. geofences'[h].id = geofences[h].id /\ geofences'[h].mask = mask /\ geofences'[h].paused = geofences[h].paused
        BY <1>0, <3>1 DEF Described
      <3>3. geofences'[h] # NoFence
        BY <1>0, <1>k, <2>7, <3>2
      <3>4. (ReadsFreed \/ Taken(h, "mask")) /\ Same(h, "paused")
        BY <2>3, <3>2 DEF Taken, Same, Field
      <3> QED BY <2>1, <2>4, <2>7, <3>2, <3>3, <3>4 DEF Stays
    <2> QED BY <2>5, <2>6, <2>7
  <1>9. ASSUME NEW hw \in HwIds, NEW i \in Ids, Saves(i, hw)
        PROVE  Drops(h) \/ Gains(h) \/ Stays(h)
    <2>1. /\ UNCHANGED clientData /\ Announces(batches, msg, hw) /\ msg.hw = hw
          /\ geofences' = [geofences EXCEPT ![hw] = Watching(i, Value(batches, msg, "mask"))]
          /\ (msg.k = "done" /\ batches[msg.batch].cmd = "add") \/ msg.k = "restored"
      BY <1>9 DEF Saves, Announces
    <2>2. CASE h = hw
      <3>1. geofences'[h] = Watching(i, Value(batches, msg, "mask"))
        BY <1>0, <2>1, <2>2
      <3>2. geofences'[h] # NoFence
        BY <1>0, <3>1 DEF Watching
      <3>3. ~ (msg.k = "done" /\ batches[msg.batch].cmd = "pause")
        BY <2>1
      <3>4. Taken(h, "mask") /\ Taken(h, "paused")
        <4>1. geofences'[h].mask = Value(batches, msg, "mask") /\ geofences'[h].paused = FALSE
          BY <3>1 DEF Watching
        <4>2. Value(batches, msg, "paused") = Running(FALSE)
          BY <3>3 DEF Value, Running
        <4> QED BY <4>1, <4>2 DEF Taken, Field
      <3> QED BY <2>1, <2>2, <3>2, <3>4 DEF Gains
    <2>3. CASE h # hw
      <3>1. geofences'[h] = geofences[h] /\ ~ Forgets(batches, msg, h) /\ ~ Sets(batches, msg, h, "mask") /\ ~ Sets(batches, msg, h, "paused")
        BY <1>0, <2>1, <2>3 DEF Forgets, Sets, Announces
      <3> QED BY <2>1, <3>1 DEF Drops, Stays, Same, Sets, Announces
    <2> QED BY <2>2, <2>3
  <1> QED BY <1>2, <1>3, <1>4, <1>5, <1>6, <1>7, <1>8, <1>9, AdapterDoes

-----------------------------------------------------------------------------
(* Every fence is in both places, but for what the queues still hold *)

\* The adapter will restart after the n-th message.
Restarts(n) == Opening \/ \E m \in DOMAIN msgQ : m > n /\ msgQ[m].k = "engineUp"

\* When the modem has lost a fence, the adapter will.
Gone(h) == modem[h] = NoFence =>
  /\ \A n \in DOMAIN msgQ : Announces(batches, msgQ[n], h) => Restarts(n)
  /\ Owned(h) => Restarts(0) \/ \E n \in DOMAIN msgQ : Forgets(batches, msgQ[n], h)

\* When the modem has a fence, the adapter has it, or will, and will keep it.
Held(h) == modem[h] # NoFence =>
  /\ h \in usedHw
  /\ \A n \in DOMAIN msgQ : ~ Forgets(batches, msgQ[n], h)
  /\ \/ geofences[h] # NoFence /\ ~ Restarts(0)
     \/ \E n \in DOMAIN msgQ : Announces(batches, msgQ[n], h) /\ ~ Restarts(n)

InStep == \A h \in HwIds : Gone(h) /\ Held(h)

LEMMA AdapterRestarts ==
  ASSUME Typed, AdapterStep, NEW n \in Nat
  PROVE  Restarts(n)' <=> Restarts(n + 1)
  <1>1. Opening' <=> Opening
    <2>1. FoundTurn => FoundCall.op # "open"
      <3>1. FoundTurn => cmd.cmd \in Cmds
        BY DEF FoundTurn, Turn
      <3> QED BY <3>1 DEF FoundCall, Call, Cmds
    <2> QED BY <2>1, AdapterAddsCalls DEF Opening, Other
  <1>2. (\E m \in DOMAIN msgQ' : m > n /\ msgQ'[m].k = "engineUp") <=> (\E m \in DOMAIN msgQ : m > n + 1 /\ msgQ[m].k = "engineUp")
    BY AdapterQueues
  <1> QED BY <1>1, <1>2 DEF Restarts

LEMMA AddedRestarts ==
  ASSUME Typed, NEW m \in Messages, msgQ' = Append(msgQ, m), m.k # "engineUp", Opening' <=> Opening
  PROVE  /\ \A n \in Nat : Restarts(n)' <=> Restarts(n)
         /\ \A n : n = Len(msgQ) + 1 /\ ~ Opening => ~ Restarts(n)'
  BY Comes DEF Restarts

LEMMA GrownForgets ==
  ASSUME Typed, Grows, NEW n \in DOMAIN msgQ, NEW h
  PROVE  Forgets(batches', msgQ[n], h) <=> Forgets(batches, msgQ[n], h)
  BY DEF Typed, MsgTyped, Grows, Proper, Item, Forgets

LEMMA AdapterInStep ==
  ASSUME Typed, FencesFound, AdapterStep, NEW h \in HwIds, Gone(h), Held(h)
  PROVE  Gone(h)' /\ Held(h)'
  <1>1. /\ Grows /\ UNCHANGED <<owner, modem, usedHw>> /\ msg = msgQ[1] /\ 1 \in DOMAIN msgQ
        /\ \A n \in DOMAIN msgQ' : n \in Nat /\ n + 1 \in DOMAIN msgQ /\ n + 1 > 1 /\ msgQ'[n] = msgQ[n + 1]
        /\ \A n \in DOMAIN msgQ : n \in Nat /\ (n = 1 \/ (n > 1 /\ n - 1 \in DOMAIN msgQ' /\ msgQ'[n - 1] = msgQ[n]))
    BY AdapterQueues
  <1>2. /\ \A n \in DOMAIN msgQ' : Announces(batches', msgQ'[n], h) <=> Announces(batches, msgQ[n + 1], h)
        /\ \A n \in DOMAIN msgQ' : Forgets(batches', msgQ'[n], h) <=> Forgets(batches, msgQ[n + 1], h)
    BY <1>1, GrownAnnounces, GrownForgets
  <1>3. \A n \in Nat : Restarts(n)' <=> Restarts(n + 1)
    BY AdapterRestarts
  <1>4. Restarts(0)' <=> Restarts(1)
    <2>1. 0 \in Nat /\ 0 + 1 = 1
      OBVIOUS
    <2> QED BY <1>3, <2>1
  <1>5. /\ Restarts(1) => Restarts(0)
        /\ Restarts(0) => Restarts(1) \/ msg.k = "engineUp"
    <2>1. \A n \in DOMAIN msgQ : n > 1 => n > 0
      BY <1>1
    <2>2. \A n \in DOMAIN msgQ : n > 1 \/ n = 1
      BY <1>1
    <2> QED BY <1>1, <2>1, <2>2 DEF Restarts
  <1>6. Drops(h) \/ Gains(h) \/ Stays(h)
    BY AdapterShows
  <1>7. Gone(h)'
    <2> SUFFICES ASSUME modem[h] = NoFence
                 PROVE  /\ \A n \in DOMAIN msgQ' : Announces(batches', msgQ'[n], h) => Restarts(n)'
                        /\ Owned(h)' => Restarts(0)' \/ \E n \in DOMAIN msgQ' : Forgets(batches', msgQ'[n], h)
      BY <1>1 DEF Gone
    <2>1. ASSUME NEW n \in DOMAIN msgQ', Announces(batches', msgQ'[n], h)
          PROVE  Restarts(n)'
      <3>1. n \in Nat /\ n + 1 \in DOMAIN msgQ /\ Announces(batches, msgQ[n + 1], h)
        BY <1>1, <1>2, <2>1
      <3>2. Restarts(n + 1)
        BY <3>1 DEF Gone
      <3> QED BY <1>3, <3>1, <3>2
    <2>2. ASSUME Owned(h)'
          PROVE  Restarts(0)' \/ \E n \in DOMAIN msgQ' : Forgets(batches', msgQ'[n], h)
      <3>1. CASE Drops(h)
        BY <2>2, <3>1 DEF Drops, Owned
      <3>2. CASE Gains(h)
        BY <1>1, <1>4, <3>2 DEF Gains, Gone
      <3>3. CASE Stays(h)
        <4>1. Owned(h) /\ ~ Forgets(batches, msg, h) /\ msg.k # "engineUp"
          BY <1>1, <2>2, <3>3 DEF Stays, Owned
        <4>2. CASE Restarts(0)
          BY <1>4, <1>5, <4>1, <4>2
        <4>3. ASSUME NEW n \in DOMAIN msgQ, Forgets(batches, msgQ[n], h)
              PROVE  \E k \in DOMAIN msgQ' : Forgets(batches', msgQ'[k], h)
          <5>1. n # 1 /\ n \in Nat
            BY <1>1, <4>1, <4>3
          <5>2. n - 1 \in DOMAIN msgQ' /\ (n - 1) + 1 = n
            BY <1>1, <5>1
          <5> QED BY <1>2, <4>3, <5>2
        <4> QED BY <4>1, <4>2, <4>3 DEF Gone
      <3> QED BY <1>6, <3>1, <3>2, <3>3
    <2> QED BY <2>1, <2>2
  <1>8. Held(h)'
    <2> SUFFICES ASSUME modem[h] # NoFence
                 PROVE  /\ h \in usedHw'
                        /\ \A n \in DOMAIN msgQ' : ~ Forgets(batches', msgQ'[n], h)
                        /\ \/ geofences'[h] # NoFence /\ ~ Restarts(0)'
                           \/ \E n \in DOMAIN msgQ' : Announces(batches', msgQ'[n], h) /\ ~ Restarts(n)'
      BY <1>1 DEF Held
    <2>1. h \in usedHw' /\ \A n \in DOMAIN msgQ' : ~ Forgets(batches', msgQ'[n], h)
      BY <1>1, <1>2 DEF Held
    <2>2. CASE geofences[h] # NoFence /\ ~ Restarts(0)
      <3>1. ~ Restarts(0)'
        BY <1>4, <1>5, <2>2
      <3>2. msg.k # "engineUp"
        <4>1. 1 > 0
          OBVIOUS
        <4> QED BY <1>1, <2>2, <4>1 DEF Restarts
      <3>3. ~ Forgets(batches, msg, h)
        BY <1>1 DEF Held
      <3> QED BY <1>6, <2>1, <2>2, <3>1, <3>2, <3>3 DEF Drops, Gains, Stays
    <2>3. ASSUME NEW n \in DOMAIN msgQ, Announces(batches, msgQ[n], h), ~ Restarts(n)
          PROVE  \/ geofences'[h] # NoFence /\ ~ Restarts(0)'
                 \/ \E k \in DOMAIN msgQ' : Announces(batches', msgQ'[k], h) /\ ~ Restarts(k)'
      <3>1. CASE n = 1
        <4>1. ~ Restarts(0)' /\ Announces(batches, msg, h)
          BY <1>1, <1>4, <2>3, <3>1
        <4>2. msg.k # "engineUp" /\ ~ Forgets(batches, msg, h)
          BY <4>1 DEF Announces, Forgets
        <4>3. geofences'[h] # NoFence
          BY <1>6, <4>1, <4>2 DEF Drops, Gains, Stays
        <4> QED BY <4>1, <4>3
      <3>2. CASE n # 1
        <4>1. n - 1 \in DOMAIN msgQ' /\ n - 1 \in Nat /\ (n - 1) + 1 = n
          BY <1>1, <3>2
        <4>2. ~ Restarts(n - 1)'
          BY <1>3, <2>3, <4>1
        <4>3. PICK k : k = n - 1
          OBVIOUS
        <4>4. ~ Restarts(k)'
          <5>1. k \in Nat /\ k + 1 = n
            BY <4>1, <4>3
          <5> QED BY <1>3, <2>3, <5>1
        <4> QED BY <1>2, <2>3, <4>1, <4>3, <4>4
      <3> QED BY <3>1, <3>2
    <2> QED BY <2>1, <2>2, <2>3 DEF Held
  <1> QED BY <1>7, <1>8

\* A message that comes and says nothing, or of one thing at a time.
LEMMA CameInStep ==
  ASSUME Typed, UNCHANGED batches, NEW h \in HwIds, NEW m \in Messages, msgQ' = Append(msgQ, m),
         m.k # "engineUp", Opening' <=> Opening
  PROVE  /\ \A n \in DOMAIN msgQ' :
              \/ n \in DOMAIN msgQ /\ msgQ'[n] = msgQ[n]
              \/ n = Len(msgQ) + 1 /\ msgQ'[n] = m
         /\ \A n \in DOMAIN msgQ : /\ n \in DOMAIN msgQ' /\ msgQ'[n] = msgQ[n]
                                   /\ Restarts(n)' <=> Restarts(n)
         /\ Len(msgQ) + 1 \in DOMAIN msgQ' /\ msgQ'[Len(msgQ) + 1] = m
         /\ Restarts(0)' <=> Restarts(0)
         /\ \A n : n = Len(msgQ) + 1 /\ ~ Opening => ~ Restarts(n)'
  <1>1. \A n \in Nat : Restarts(n)' <=> Restarts(n)
    BY AddedRestarts
  <1> QED BY <1>1, AddedRestarts, Comes

LEMMA ModemInStep ==
  ASSUME Typed, NoReuse', OneRestart, MapsInv, NewsInUse, LocApiStep \/ ModemStep, NEW h \in HwIds, Gone(h), Held(h)
  PROVE  Gone(h)' /\ Held(h)'
  <1>1. ModemKeeps /\ Grows /\ UNCHANGED <<batches, geofences, owner, clientData>> /\ usedHw \subseteq usedHw'
    BY ModemShows DEF ModemKeeps, clientVars, mapVars
  <1>2. Owned(h)' <=> Owned(h)
    BY <1>1 DEF Owned
  <1>3. (Opening => ~ link) /\ (~ link => modem[h] = NoFence) /\ link \in BOOLEAN /\ NoFence \notin Fence
    <2>1. NoFence \notin Fence
      BY DEF NoFence, Fence, Ids
    <2> QED BY <2>1 DEF OneRestart, Typed, ModemTyped
  <1>4. /\ \A n \in DOMAIN msgQ : Announces(batches, msgQ[n], h) => ~ InUse(h)
        /\ InUse(h) => h \in usedHw
    BY DEF MapsInv, Handed, HandedOver
  <1>5. \A n \in DOMAIN msgQ : Forgets(batches, msgQ[n], h) => h \in usedHw
    BY <1>4 DEF NewsInUse, News, Forgets, InUse
  <1>6. CASE Hushes(h)
    <2>1. CASE UNCHANGED msgQ
      <3>1. \A n : Restarts(n)' <=> Restarts(n)
        BY <1>6, <2>1 DEF Restarts, Hushes
      <3>2. modem'[h] = modem[h]
        BY <1>6 DEF Hushes
      <3> QED BY <1>1, <1>2, <2>1, <3>1, <3>2 DEF Gone, Held
    <2>2. ASSUME NEW m \in Messages, msgQ' = Append(msgQ, m), Silent(m, h)
          PROVE  Gone(h)' /\ Held(h)'
      <3>1. m.k # "engineUp" /\ ~ Announces(batches, m, h) /\ ~ Forgets(batches, m, h)
        BY <2>2 DEF Silent
      <3>2. modem'[h] = modem[h] /\ (Opening' <=> Opening)
        BY <1>6 DEF Hushes
      <3> QED BY <1>1, <1>2, <2>2, <3>1, <3>2, CameInStep DEF Gone, Held
    <2> QED BY <1>6, <2>1, <2>2 DEF Hushes
  <1>7. CASE Turns(h) \/ Alters(h)
    <2>1. modem[h] # NoFence /\ modem'[h] # NoFence /\ (Opening' <=> Opening)
      BY <1>7 DEF Turns, Alters
    <2>2. CASE UNCHANGED msgQ
      <3>1. \A n : Restarts(n)' <=> Restarts(n)
        BY <2>1, <2>2 DEF Restarts
      <3> QED BY <1>1, <2>1, <2>2, <3>1 DEF Gone, Held
    <2>3. ASSUME NEW m \in Messages, msgQ' = Append(msgQ, m), m.k = "done", batches[m.batch].cmd \in {"pause", "resume", "modify"}
          PROVE  Gone(h)' /\ Held(h)'
      <3>1. m.k # "engineUp" /\ ~ Announces(batches, m, h) /\ ~ Forgets(batches, m, h)
        BY <2>3 DEF Announces, Forgets
      <3> QED BY <1>1, <2>1, <2>3, <3>1, CameInStep DEF Gone, Held
    <2> QED BY <1>7, <2>2, <2>3 DEF Turns, Alters
  <1>8. CASE Arises(h)
    <2>1. PICK m \in Messages : msgQ' = Append(msgQ, m) /\ Announces(batches, m, h)
      BY <1>8 DEF Arises
    <2>2. m.k # "engineUp" /\ ~ Forgets(batches, m, h)
      BY <2>1 DEF Announces, Forgets
    <2>3. h \notin usedHw /\ h \in usedHw' /\ ~ Opening /\ (Opening' <=> Opening) /\ modem'[h] # NoFence
      BY <1>3, <1>8 DEF Arises
    <2>4. \A n \in DOMAIN msgQ : ~ Forgets(batches, msgQ[n], h)
      BY <1>5, <2>3
    <2>5. PICK k : k = Len(msgQ) + 1
      OBVIOUS
    <2>6. /\ k \in DOMAIN msgQ' /\ msgQ'[k] = m /\ ~ Restarts(k)'
          /\ \A n \in DOMAIN msgQ' : (n \in DOMAIN msgQ /\ msgQ'[n] = msgQ[n]) \/ (n = k /\ msgQ'[n] = m)
      BY <1>1, <2>1, <2>2, <2>3, <2>5, CameInStep
    <2>7. Gone(h)'
      BY <2>3 DEF Gone
    <2>8. \A n \in DOMAIN msgQ' : ~ Forgets(batches', msgQ'[n], h)
      BY <1>1, <2>2, <2>4, <2>6
    <2>9. Announces(batches', msgQ'[k], h)
      BY <1>1, <2>1, <2>6
    <2> QED BY <2>3, <2>6, <2>7, <2>8, <2>9 DEF Held
  <1>9. CASE Vanishes(h)
    <2>1. PICK m \in Messages : msgQ' = Append(msgQ, m) /\ Forgets(batches, m, h)
      BY <1>9 DEF Vanishes
    <2>2. m.k # "engineUp" /\ ~ Announces(batches, m, h)
      BY <2>1 DEF Announces, Forgets
    <2>3. modem'[h] = NoFence /\ InUse(h) /\ (Opening' <=> Opening)
      BY <1>9 DEF Vanishes
    <2> QED BY <1>1, <1>4, <2>1, <2>2, <2>3, CameInStep DEF Gone, Held
  <1>10. CASE Reopens(h)
    <2>1. PICK m \in Messages : msgQ' = Append(msgQ, m) /\ m.k = "engineUp"
      BY <1>10 DEF Reopens
    <2>2. modem'[h] = NoFence
      BY <1>3, <1>10 DEF Reopens
    <2>3. \A n \in DOMAIN msgQ : Restarts(n)'
      BY <2>1, Comes DEF Restarts
    <2>4. Restarts(0)'
      BY <2>1, Comes DEF Restarts
    <2>5. ~ Announces(batches, m, h)
      BY <2>1 DEF Announces
    <2> QED BY <1>1, <2>1, <2>2, <2>3, <2>4, <2>5, Comes DEF Gone, Held
  <1>11. CASE Dies(h)
    <2>1. \A n : Restarts(n)'
      BY <1>11 DEF Dies, Restarts
    <2> QED BY <1>11, <2>1 DEF Dies, Gone, Held
  <1> QED BY <1>6, <1>7, <1>8, <1>9, <1>10, <1>11, ModemShows

LEMMA InStepInvariant == Spec => [](NoReuse => InStep)
  <1>1. Init => InStep
    BY DEF Init, InStep, Gone, Held, Owned
  <1>2. ASSUME NoReuse', Typed, OneRestart, MapsInv, OnePlace, FencesFound, NewsInUse, InStep, [Next]_vars
        PROVE  InStep'
    <2> USE <1>2
    <2>1. CASE UNCHANGED vars
      BY <2>1 DEF vars, clientVars, mapVars, modemVars, InStep, Gone, Held, Owned, Restarts, Opening
    <2>2. CASE ClientStep
      <3>1. PICK m \in Messages : msgQ' = Append(msgQ, m) /\ m.k \in {"command", "removeClient"}
        BY <2>2, ClientPosts
      <3>2. Grows /\ UNCHANGED <<apiQ, modem, usedHw, geofences>>
        BY <2>2, ClientPosts, ClientsTypedStep DEF modemVars, mapVars
      <3>3. ASSUME NEW h \in HwIds, Owned(h)'
            PROVE  Owned(h)
        <4>1. PICK c \in Clients : Destroy(c) \/ \E k, ids, masks : Issued(k, c, ids, masks)
          BY <2>2, ClientActs
        <4>2. UNCHANGED <<mapVars, clientData>> /\ \A id \in Ids : id < nextId => owner'[id] = owner[id]
          BY <4>1 DEF Destroy, Issued, Issue
        <4>3. geofences[h] # NoFence => geofences[h].id \in Ids /\ geofences[h].id < nextId
          <5>1. \A f \in Fence : f.id \in Ids
            BY DEF Fence
          <5> QED BY <5>1 DEF OnePlace, PlacedOnce, Kept, Typed, MapsTyped
        <4> QED BY <3>3, <4>2, <4>3 DEF Owned, mapVars
      <3>4. /\ \A n \in DOMAIN msgQ : \A h : Announces(batches', msgQ[n], h) <=> Announces(batches, msgQ[n], h)
            /\ \A n \in DOMAIN msgQ : \A h : Forgets(batches', msgQ[n], h) <=> Forgets(batches, msgQ[n], h)
            /\ \A h : ~ Announces(batches', m, h) /\ ~ Forgets(batches', m, h)
        <4>1. \A h : ~ Announces(batches', m, h) /\ ~ Forgets(batches', m, h)
          BY <3>1 DEF Announces, Forgets
        <4> QED BY <3>2, <4>1, GrownAnnounces, GrownForgets
      <3>5. Opening' <=> Opening
        BY <3>2 DEF Opening
      <3>6. \A n \in Nat : Restarts(n)' <=> Restarts(n)
        BY <3>1, <3>5, AddedRestarts
      <3>7. 0 \in Nat /\ \A n \in DOMAIN msgQ : n \in Nat
        BY <3>1, Comes
      <3>8. /\ \A n \in DOMAIN msgQ : n \in DOMAIN msgQ' /\ msgQ'[n] = msgQ[n] /\ (Restarts(n)' <=> Restarts(n))
            /\ \A n \in DOMAIN msgQ' : n \in DOMAIN msgQ \/ msgQ'[n] = m
            /\ Restarts(0)' <=> Restarts(0)
        BY <3>1, <3>6, <3>7, Comes
      <3> SUFFICES ASSUME NEW h \in HwIds
                   PROVE  Gone(h)' /\ Held(h)'
        BY DEF InStep
      <3>9. Gone(h) /\ Held(h)
        BY DEF InStep
      <3>10. Gone(h)'
        BY <3>2, <3>3, <3>4, <3>8, <3>9 DEF Gone
      <3>11. Held(h)'
        BY <3>2, <3>4, <3>8, <3>9 DEF Held
      <3> QED BY <3>10, <3>11
    <2>3. CASE AdapterStep
      <3> SUFFICES ASSUME NEW h \in HwIds
                   PROVE  Gone(h)' /\ Held(h)'
        BY DEF InStep
      <3> QED BY <2>3, AdapterInStep DEF InStep
    <2>4. CASE LocApiStep \/ ModemStep
      <3> SUFFICES ASSUME NEW h \in HwIds
                   PROVE  Gone(h)' /\ Held(h)'
        BY DEF InStep
      <3> QED BY <2>4, ModemInStep DEF InStep
    <2> QED BY <2>1, <2>2, <2>3, <2>4 DEF Next
  <1>3. Spec => []OneRestart
    BY OneRestartInvariant
  <1>4. Spec => [](NoReuse => MapsInv)
    BY MapsInvariant
  <1>5. Spec => []OnePlace
    BY OnePlaceInvariant
  <1>6. Spec => []FencesFound
    BY FencesFoundInvariant
  <1>7. Spec => [](NoReuse => NewsInUse)
    BY NewsInUseInvariant
  <1> QED BY <1>1, <1>2, <1>3, <1>4, <1>5, <1>6, <1>7, TypedInvariant, ReuseStays, PTL DEF Spec

-----------------------------------------------------------------------------
(* The adapter and the modem agree on masks and on which fences are paused *)

\* The last message on field f of fence h says what the modem has, or none does
\* and the adapter has it.
Settled(h, f) == modem[h] # NoFence =>
  \/ \E n \in DOMAIN msgQ : /\ Sets(batches, msgQ[n], h, f) /\ Value(batches, msgQ[n], f) = Field(modem[h], f)
                            /\ \A m \in DOMAIN msgQ : m > n => ~ Sets(batches, msgQ[m], h, f)
  \/ /\ \A n \in DOMAIN msgQ : ~ Sets(batches, msgQ[n], h, f)
     /\ Field(geofences[h], f) = Field(modem[h], f)

Settles == \A h \in HwIds : /\ CutShort \/ Settled(h, "mask")
                            /\ "reset" \in happened \/ Settled(h, "paused")

LEMMA GrownSets ==
  ASSUME Typed, Grows, NEW n \in DOMAIN msgQ, NEW h, NEW f \in {"mask", "paused"}
  PROVE  /\ Sets(batches', msgQ[n], h, f) <=> Sets(batches, msgQ[n], h, f)
         /\ Sets(batches, msgQ[n], h, f) => Value(batches', msgQ[n], f) = Value(batches, msgQ[n], f)
  <1> DEFINE m == msgQ[n]
  <1>1. m.k = "done" => batches'[m.batch].cmd = batches[m.batch].cmd /\ batches'[m.batch].masks = batches[m.batch].masks
    BY DEF Typed, MsgTyped, Grows, Proper, Item
  <1>2. Announces(batches', m, h) <=> Announces(batches, m, h)
    BY GrownAnnounces
  <1> HIDE DEF m
  <1>3. Sets(batches', m, h, f) <=> Sets(batches, m, h, f)
    BY <1>1, <1>2 DEF Sets
  <1>4. Sets(batches, m, h, f) => m.k \in {"done", "restored"}
    BY DEF Sets, Announces
  <1>5. m.k = "restored" => Value(batches', m, f) = Value(batches, m, f)
    BY DEF Value
  <1>6. m.k = "done" => Value(batches', m, f) = Value(batches, m, f)
    <2>1. CASE f = "mask"
      BY <1>1, <2>1 DEF Value
    <2>2. CASE f = "paused"
      <3>1. m.k = "done" => ((m.k = "done" /\ batches'[m.batch].cmd = "pause") <=> (m.k = "done" /\ batches[m.batch].cmd = "pause"))
        BY <1>1
      <3> QED BY <2>2, <3>1 DEF Value, Running
    <2> QED BY <2>1, <2>2
  <1> QED BY <1>3, <1>4, <1>5, <1>6 DEF m

\* Steps that say nothing of the field, and steps that do.
LEMMA QuietSettled ==
  ASSUME Typed, Grows, UNCHANGED geofences, NEW h \in HwIds, NEW f \in {"mask", "paused"}, Settled(h, f),
         modem'[h] # NoFence => modem[h] # NoFence /\ Field(modem'[h], f) = Field(modem[h], f),
         UNCHANGED msgQ \/ \E m \in Messages : msgQ' = Append(msgQ, m) /\ ~ Sets(batches', m, h, f)
  PROVE  Settled(h, f)'
  <1>1. CASE UNCHANGED msgQ
    BY <1>1, GrownSets DEF Settled
  <1>2. ASSUME NEW m \in Messages, msgQ' = Append(msgQ, m), ~ Sets(batches', m, h, f)
        PROVE  Settled(h, f)'
    <2>1. /\ \A n \in DOMAIN msgQ' : n \in DOMAIN msgQ \/ msgQ'[n] = m
          /\ \A n \in DOMAIN msgQ : n \in DOMAIN msgQ' /\ msgQ'[n] = msgQ[n]
      BY <1>2, Comes
    <2> QED BY <1>2, <2>1, GrownSets DEF Settled
  <1> QED BY <1>1, <1>2

LEMMA SaidSettled ==
  ASSUME Typed, NEW h \in HwIds, NEW f \in {"mask", "paused"}, NEW m \in Messages, msgQ' = Append(msgQ, m),
         Sets(batches', m, h, f), Value(batches', m, f) = Field(modem'[h], f)
  PROVE  Settled(h, f)'
  <1>1. PICK k : k = Len(msgQ) + 1
    OBVIOUS
  <1>2. k \in DOMAIN msgQ' /\ msgQ'[k] = m /\ \A n \in DOMAIN msgQ' : ~ n > k
    BY <1>1, Comes
  <1> QED BY <1>2 DEF Settled

LEMMA ModemSettles ==
  ASSUME Typed, NoReuse', OneRestart, LocApiStep \/ ModemStep, NEW h \in HwIds, NEW f \in {"mask", "paused"},
         f = "paused" => "reset" \notin happened, Settled(h, f)
  PROVE  Settled(h, f)'
  <1>1. Grows /\ UNCHANGED <<batches, geofences>>
    BY ModemShows DEF ModemKeeps, mapVars
  <1>2. CASE Hushes(h)
    <2>1. UNCHANGED msgQ \/ \E m \in Messages : msgQ' = Append(msgQ, m) /\ ~ Sets(batches', m, h, f)
      BY <1>1, <1>2 DEF Hushes, Silent
    <2>2. modem'[h] = modem[h]
      BY <1>2 DEF Hushes
    <2> QED BY <1>1, <2>1, <2>2, QuietSettled
  <1>3. CASE Arises(h)
    <2>1. PICK m \in Messages : /\ msgQ' = Append(msgQ, m) /\ Announces(batches, m, h)
                                /\ Value(batches, m, f) = Field(modem'[h], f)
      BY <1>3 DEF Arises
    <2>2. Sets(batches, m, h, f)
      BY <2>1 DEF Announces, Sets
    <2> QED BY <1>1, <2>1, <2>2, SaidSettled
  <1>4. CASE Vanishes(h) \/ Dies(h)
    BY <1>4 DEF Vanishes, Dies, Settled
  <1>5. CASE Reopens(h)
    BY <1>5 DEF Reopens, Settled, OneRestart
  <1>6. CASE Turns(h)
    <2>1. modem[h] # NoFence /\ Field(modem'[h], "mask") = Field(modem[h], "mask")
      BY <1>6 DEF Turns
    <2>2. CASE f = "mask"
      <3>1. \A m : m.k = "done" /\ batches[m.batch].cmd \in {"pause", "resume"} => ~ Sets(batches, m, h, "mask")
        BY DEF Sets, Announces
      <3>2. UNCHANGED msgQ \/ \E m \in Messages : msgQ' = Append(msgQ, m) /\ ~ Sets(batches', m, h, "mask")
        BY <1>1, <1>6, <3>1 DEF Turns
      <3> QED BY <1>1, <2>1, <2>2, <3>2, QuietSettled
    <2>3. CASE f = "paused"
      <3>1. PICK m \in Messages : /\ msgQ' = Append(msgQ, m) /\ Sets(batches, m, h, "paused")
                                  /\ Value(batches, m, "paused") = Field(modem'[h], "paused")
        BY <1>6, <2>3 DEF Turns
      <3> QED BY <1>1, <2>3, <3>1, SaidSettled
    <2> QED BY <2>2, <2>3
  <1>7. CASE Alters(h)
    <2>1. PICK m \in Messages : /\ msgQ' = Append(msgQ, m) /\ Sets(batches, m, h, "mask")
                                /\ m.k = "done" /\ batches[m.batch].cmd = "modify"
                                /\ Value(batches, m, "mask") = Field(modem'[h], "mask")
      BY <1>7 DEF Alters
    <2>2. CASE f = "mask"
      BY <1>1, <2>1, <2>2, SaidSettled
    <2>3. CASE f = "paused"
      <3>1. modem[h] # NoFence /\ Field(modem'[h], "paused") = Field(modem[h], "paused")
        BY <1>7 DEF Alters
      <3>2. ~ Sets(batches, m, h, "paused")
        BY <2>1 DEF Sets, Announces
      <3> QED BY <1>1, <2>1, <2>3, <3>1, <3>2, QuietSettled
    <2> QED BY <2>2, <2>3
  <1> QED BY <1>2, <1>3, <1>4, <1>5, <1>6, <1>7, ModemShows

LEMMA AdapterSettles ==
  ASSUME Typed, FencesFound, NewsInUse, AdapterStep, NEW h \in HwIds, NEW f \in {"mask", "paused"},
         f = "mask" => ~ ReadsFreed, Held(h), Settled(h, f)
  PROVE  Settled(h, f)'
  <1>1. /\ Grows /\ UNCHANGED modem /\ msg = msgQ[1] /\ 1 \in DOMAIN msgQ
        /\ \A n \in DOMAIN msgQ' : n \in Nat /\ n + 1 \in DOMAIN msgQ /\ n + 1 > 1 /\ msgQ'[n] = msgQ[n + 1]
        /\ \A n \in DOMAIN msgQ : n \in Nat /\ (n = 1 \/ (n > 1 /\ n - 1 \in DOMAIN msgQ' /\ msgQ'[n - 1] = msgQ[n]))
    BY AdapterQueues
  <1>2. /\ \A n \in DOMAIN msgQ' : Sets(batches', msgQ'[n], h, f) <=> Sets(batches, msgQ[n + 1], h, f)
        /\ \A n \in DOMAIN msgQ' : Sets(batches, msgQ[n + 1], h, f) => Value(batches', msgQ'[n], f) = Value(batches, msgQ[n + 1], f)
    BY <1>1, GrownSets
  <1>3. Drops(h) \/ Gains(h) \/ Stays(h)
    BY AdapterShows
  <1> SUFFICES ASSUME modem[h] # NoFence
               PROVE  Settled(h, f)'
    BY <1>1 DEF Settled
  <1>4. ASSUME NEW n \in DOMAIN msgQ, n # 1, Sets(batches, msgQ[n], h, f), Value(batches, msgQ[n], f) = Field(modem[h], f),
               \A m \in DOMAIN msgQ : m > n => ~ Sets(batches, msgQ[m], h, f)
        PROVE  Settled(h, f)'
    <2>1. PICK k : k = n - 1
      OBVIOUS
    <2>2. k \in DOMAIN msgQ' /\ k + 1 = n /\ k \in Nat /\ \A m \in DOMAIN msgQ' : m > k => m + 1 > n
      BY <1>1, <1>4, <2>1
    <2>3. Sets(batches', msgQ'[k], h, f) /\ Value(batches', msgQ'[k], f) = Field(modem[h], f)
      BY <1>2, <1>4, <2>2
    <2>4. \A m \in DOMAIN msgQ' : m > k => ~ Sets(batches', msgQ'[m], h, f)
      BY <1>1, <1>2, <1>4, <2>2
    <2> QED BY <1>1, <2>2, <2>3, <2>4 DEF Settled
  <1>5. ASSUME \A n \in DOMAIN msgQ : n > 1 => ~ Sets(batches, msgQ[n], h, f),
               Field(geofences'[h], f) = Field(modem[h], f)
        PROVE  Settled(h, f)'
    <2>1. \A n \in DOMAIN msgQ' : ~ Sets(batches', msgQ'[n], h, f)
      BY <1>1, <1>2, <1>5
    <2> QED BY <1>1, <1>5, <2>1 DEF Settled
  <1>6. ~ Forgets(batches, msg, h)
    BY <1>1 DEF Held
  <1>7. CASE Sets(batches, msg, h, f) /\ Value(batches, msg, f) = Field(modem[h], f)
             /\ \A m \in DOMAIN msgQ : m > 1 => ~ Sets(batches, msgQ[m], h, f)
    <2>1. Taken(h, f)
      <3>1. msg.hw = h /\ (Announces(batches, msg, h) \/ (msg.k = "done" /\ batches[msg.batch].cmd # "add"))
        BY <1>7 DEF Sets
      <3>2. ~ Announces(batches, msg, h) => geofences[h] # NoFence
        BY <1>1, <3>1 DEF NewsInUse, News, Held
      <3>3. msg.k # "engineUp"
        BY <1>7 DEF Sets, Announces
      <3> QED BY <1>3, <1>6, <1>7, <3>2, <3>3 DEF Drops, Gains, Stays
    <2> QED BY <1>5, <1>7, <2>1 DEF Taken
  <1>8. CASE /\ \A n \in DOMAIN msgQ : ~ Sets(batches, msgQ[n], h, f)
             /\ Field(geofences[h], f) = Field(modem[h], f)
    <2>1. \A n \in DOMAIN msgQ : ~ Announces(batches, msgQ[n], h)
      BY <1>8 DEF Sets, Announces
    <2>2. geofences[h] # NoFence /\ ~ Restarts(0)
      BY <2>1 DEF Held
    <2>3. msg.k # "engineUp"
      <3>1. 1 > 0
        OBVIOUS
      <3> QED BY <1>1, <2>2, <3>1 DEF Restarts
    <2>4. Same(h, f)
      BY <1>1, <1>3, <1>6, <1>8, <2>1, <2>2, <2>3 DEF Drops, Gains, Stays
    <2> QED BY <1>5, <1>8, <2>4 DEF Same
  <1> QED BY <1>1, <1>4, <1>7, <1>8 DEF Settled

\* A batch that was cut short remains so.
LEMMA FreedKept ==
  ASSUME Typed, AdapterStep, NEW a \in DOMAIN batches, batches[a].freed
  PROVE  batches'[a].freed /\ batches'[a].errs = batches[a].errs
  <1>0. PICK c, j : c = msg.batch /\ j = msg.item
    OBVIOUS
  <1>1. Proper(batches, msg)
    BY AdapterQueues
  <1>2. CASE UNCHANGED batches
    BY <1>2
  <1>3. CASE FoundTurn
    <2>1. Item(batches, c, j) /\ Store(c, j, "ok")
      BY <1>0, <1>1, <1>3 DEF FoundTurn, Turn, Receive, Proper
    <2>2. /\ batches'[a].freed = batches[a].freed
          /\ batches'[a].errs = IF a = c THEN Written(c, j, "ok") ELSE batches[a].errs
      BY <2>1, StoreEffect
    <2> QED BY <2>2 DEF Written
  <1>4. CASE Finishing /\ ~ ResumeRefused
    <2>1. Item(batches, c, j)
      BY <1>0, <1>1, <1>4 DEF Finishing, UnknownTurn, AddDone, RemoveDone, PauseDone, ResumeDone, ModifyDone, Turn,
                       Done, Receive, Proper
    <2>2. PICK err \in Errors : AnswerIfLast(c, j, err)
      <3>1. {"unknown", "ok", Result} \subseteq Errors
        BY DEF Errors, Result
      <3>2. \E err \in {"unknown", "ok", Result} : AnswerIfLast(c, j, err)
        BY <1>0, <1>4 DEF Finishing, UnknownTurn, AddDone, RemoveDone, PauseDone, ResumeDone, ModifyDone
      <3> QED BY <3>1, <3>2
    <2>3. /\ batches'[a].freed <=> batches[a].freed \/ (a = c /\ j = LastOf(c))
          /\ batches'[a].errs = IF a = c THEN Written(c, j, err) ELSE batches[a].errs
      BY <2>1, <2>2, AnswerEffect DEF Typed
    <2>4. batches'[a].freed \in BOOLEAN
      BY <2>3
    <2> QED BY <2>3 DEF Written
  <1> QED BY <1>2, <1>3, <1>4 DEF AdapterStep, Finishing, StartBatch, AddTurn, RemoveClient, Swept, RestartGeofences,
                           Restored, BreachReported, ResumeRefused

LEMMA CutShortKept ==
  ASSUME Typed, [Next]_vars, CutShort
  PROVE  CutShort'
  <1>1. PICK b \in DOMAIN batches : batches[b].cmd = "modify" /\ Len(batches[b].ids) > 1
                                    /\ batches[b].freed /\ batches[b].errs[Len(batches[b].ids)] = "unknown"
    BY DEF CutShort
  <1>2. ASSUME Grows, batches'[b].freed, batches'[b].errs = batches[b].errs
        PROVE  CutShort'
    BY <1>1, <1>2 DEF CutShort, Grows
  <1>3. ASSUME UNCHANGED batches
        PROVE  CutShort'
    BY <1>3 DEF CutShort
  <1>4. CASE UNCHANGED vars
    BY <1>3, <1>4 DEF vars
  <1>5. CASE AdapterStep
    BY <1>1, <1>2, <1>5, FreedKept, AdapterQueues
  <1>6. CASE LocApiStep \/ ModemStep
    BY <1>3, <1>6, ModemPosts DEF ModemKeeps
  <1>7. CASE ClientStep
    <2>1. PICK c \in Clients : Destroy(c) \/ \E k, ids, masks : Issued(k, c, ids, masks)
      BY <1>7, ClientActs
    <2>2. CASE Destroy(c)
      BY <1>3, <2>2 DEF Destroy
    <2>3. ASSUME NEW k, NEW ids, NEW masks, Issued(k, c, ids, masks)
          PROVE  CutShort'
      <3> DEFINE r == Batch(k, c, ids, masks)
      <3>1. batches' = Append(batches, r) /\ batches \in Seq(Commands)
        BY <2>3 DEF Issued, Issue, Typed, BatchesTyped
      <3> HIDE DEF r
      <3>2. b \in DOMAIN batches' /\ batches'[b] = batches[b]
        BY <3>1
      <3> QED BY <1>1, <3>2 DEF CutShort
    <2> QED BY <2>1, <2>2, <2>3
  <1> QED BY <1>4, <1>5, <1>6, <1>7 DEF Next

LEMMA FreedCutShort ==
  ASSUME Typed, Ordered, FreedShort, Answered, AdapterStep, ReadsFreed
  PROVE  CutShort
  <1>0. PICK b, i : b = msg.batch /\ i = msg.item
    OBVIOUS
  <1>1. msg = msgQ[1] /\ 1 \in DOMAIN msgQ /\ Proper(batches, msg)
    BY AdapterQueues
  <1>2. msg.k = "done" /\ batches[b].cmd = "modify" /\ batches[b].freed
    BY <1>0 DEF ReadsFreed
  <1>3. Item(batches, b, i)
    BY <1>0, <1>1, <1>2 DEF Proper
  <1>4. b \in DOMAIN batches /\ i \in Items(b)
    BY <1>3 DEF Item, Items
  <1>5. MsgHolds(msg, b, i)
    BY <1>0, <1>2, RankFacts DEF MsgHolds
  <1>6. Pending(b, i)
    BY <1>1, <1>5 DEF Pending
  <1>7. batches[b].errs[LastOf(b)] = "unknown" /\ ~ Pending(b, LastOf(b))
    BY <1>2, <1>4, <1>6 DEF FreedShort, Answered, AnsweredBatch
  <1>8. i # LastOf(b)
    BY <1>6, <1>7
  <1>9. i \in 1 .. Len(batches[b].ids)
    BY <1>3, ItemFacts DEF Typed
  <1>10. Len(batches[b].ids) \in Nat
    BY <1>4, LastItem DEF LastOf
  <1>11. Len(batches[b].ids) > 1
    BY <1>8, <1>9, <1>10 DEF LastOf
  <1> QED BY <1>2, <1>4, <1>7, <1>11 DEF CutShort, LastOf

LEMMA SettlesInvariant == Spec => [](NoReuse => Settles)
  <1>1. Init => Settles
    BY DEF Init, Settles, Settled
  <1>2. ASSUME NoReuse', Typed, Ordered, Answered, FreedShort, OneRestart, FencesFound, NewsInUse, InStep, Settles, [Next]_vars
        PROVE  Settles'
    <2> USE <1>2
    <2>a. happened \subseteq happened'
      <3>1. CASE ClientStep
        <4>1. PICK c \in Clients : Destroy(c) \/ \E k, ids, masks : Issued(k, c, ids, masks)
          BY <3>1, ClientActs
        <4> QED BY <4>1 DEF Destroy, Happens, Issued, Issue
      <3> QED BY <3>1, AdapterQueues, ModemDoes DEF vars, Next
    <2>1. CASE UNCHANGED vars
      BY <2>1 DEF vars, modemVars, mapVars, Settles, Settled, CutShort
    <2> SUFFICES ASSUME NEW h \in HwIds, NEW f \in {"mask", "paused"}, Next,
                        f = "mask" => ~ CutShort', f = "paused" => "reset" \notin happened'
                 PROVE  Settled(h, f)'
      BY <2>1 DEF Settles
    <2>2. Settled(h, f) /\ (f = "mask" => ~ CutShort) /\ (f = "paused" => "reset" \notin happened)
      BY <2>a, CutShortKept DEF Settles
    <2>3. CASE ClientStep
      <3>1. PICK m \in Messages : msgQ' = Append(msgQ, m) /\ m.k \in {"command", "removeClient"}
        BY <2>3, ClientPosts
      <3>2. Grows /\ UNCHANGED <<modem, geofences>>
        BY <2>3, ClientPosts, ClientsTypedStep DEF modemVars, mapVars
      <3>3. ~ Sets(batches', m, h, f)
        BY <3>1 DEF Sets, Announces
      <3> QED BY <2>2, <3>1, <3>2, <3>3, QuietSettled
    <2>4. CASE AdapterStep
      BY <2>2, <2>4, AdapterSettles, FreedCutShort DEF InStep
    <2>5. CASE LocApiStep \/ ModemStep
      BY <2>2, <2>5, ModemSettles
    <2> QED BY <2>3, <2>4, <2>5 DEF Next
  <1>3. Spec => [](NoReuse => Answered)
    BY AnsweredInvariant
  <1>4. Spec => []OneRestart
    BY OneRestartInvariant
  <1>5. Spec => []FencesFound
    BY FencesFoundInvariant
  <1>6. Spec => [](NoReuse => NewsInUse)
    BY NewsInUseInvariant
  <1>7. Spec => [](NoReuse => InStep)
    BY InStepInvariant
  <1> QED BY <1>1, <1>2, <1>3, <1>4, <1>5, <1>6, <1>7, FreedShortInvariant, TypedInvariant, OrderedInvariant, ReuseStays, PTL DEF Spec

\* The adapter's two maps agree at every moment, and when nothing is under way they
\* agree with the modem, until that hands a hardware id out again: on the
\* fences, on their masks unless a modify read options that were freed, and on
\* which are paused until the modem restarts (GeofenceAdapter::saveGeofenceItem,
\* removeGeofenceItem, restartGeofences and the handlers that call them).
THEOREM MapsMirrorModem == Spec => []FencesMirrored
  <1>1. ASSUME Typed, MapsInv, OneRestart, FencesFound, InStep, Settles
        PROVE  FencesMirrored
    <2> USE <1>1
    <2>1. IdsNameOwnFences
      BY DEF MapsInv
    <2>2. SUFFICES ASSUME AtRest, NEW h \in HwIds
                   PROVE  /\ Owned(h) => modem[h] # NoFence
                          /\ modem[h] # NoFence =>
                               /\ geofences[h].id = modem[h].id
                               /\ CutShort \/ geofences[h].mask = modem[h].mask
                               /\ "reset" \in happened \/ geofences[h].paused = modem[h].paused
      BY <2>1 DEF FencesMirrored, Present, Owned
    <2>3. DOMAIN msgQ = {} /\ DOMAIN apiQ = {}
      BY <2>2 DEF AtRest
    <2>4. ~ Restarts(0)
      BY <2>3 DEF Restarts, Opening
    <2>5. Owned(h) => modem[h] # NoFence
      BY <2>3, <2>4 DEF InStep, Gone
    <2> SUFFICES ASSUME modem[h] # NoFence
                 PROVE  /\ geofences[h].id = modem[h].id
                        /\ CutShort \/ geofences[h].mask = modem[h].mask
                        /\ "reset" \in happened \/ geofences[h].paused = modem[h].paused
      BY <2>5
    <2>6. geofences[h] # NoFence
      BY <2>3 DEF InStep, Held
    <2>7. geofences[h] \in Fence /\ modem[h] \in Fence
      BY <2>6 DEF Typed, MapsTyped, ModemTyped
    <2>8. geofences[h].id \in Ids /\ modem[h].id \in Ids /\ geofences[h].paused \in BOOLEAN /\ modem[h].paused \in BOOLEAN
      BY <2>7 DEF Fence
    <2>9. geofences[h].id = modem[h].id
      BY <2>8 DEF MapsInv, OneName, Names
    <2>10. CutShort \/ geofences[h].mask = modem[h].mask
      BY <2>3 DEF Settles, Settled, Field
    <2>11. "reset" \in happened \/ geofences[h].paused = modem[h].paused
      <3>1. "reset" \in happened \/ Running(geofences[h].paused) = Running(modem[h].paused)
        BY <2>3 DEF Settles, Settled, Field
      <3>2. \A p, q \in BOOLEAN : Running(p) = Running(q) => p = q
        BY DEF Running
      <3> QED BY <2>8, <3>1, <3>2
    <2> QED BY <2>9, <2>10, <2>11
  <1>2. Spec => [](NoReuse => MapsInv)
    BY MapsInvariant
  <1>3. Spec => []OneRestart
    BY OneRestartInvariant
  <1>4. Spec => []FencesFound
    BY FencesFoundInvariant
  <1>5. Spec => [](NoReuse => InStep)
    BY InStepInvariant
  <1>6. Spec => [](NoReuse => Settles)
    BY SettlesInvariant
  <1>7. ~ NoReuse => FencesMirrored
    BY DEF FencesMirrored
  <1> QED BY <1>1, <1>2, <1>3, <1>4, <1>5, <1>6, <1>7, TypedInvariant, PTL

-----------------------------------------------------------------------------
(* Breaches *)

\* A message on which the adapter takes hardware id h for fence id.
Tells(B, m, h, id) == Announces(B, m, h) /\ Says(B, m, h, id)

\* When the adapter comes to the message at place n it takes h for fence id or
\* for none: it does so now, or some message before tells it, and no message in
\* between tells it anything else.
Led(n, h, id) ==
  \E q \in 0 .. n - 1 :
    /\ IF q = 0 THEN geofences[h].id \in {0, id} ELSE Tells(batches, msgQ[q], h, id)
    /\ \A r \in q + 1 .. n - 1, j \in Ids : Tells(batches, msgQ[r], h, j) => j = id

\* The modem means fence id with h: in the breach at place n, or from now on.
Meant(n, h, id) ==
  \/ n \in DOMAIN msgQ /\ msgQ[n].k = "breach" /\ msgQ[n].hw = h /\ msgQ[n].fence.id = id
  \/ n = Len(msgQ) + 1 /\ modem[h] # NoFence /\ modem[h].id = id

\* A breach comes when the adapter knows the fence the modem means, and so
\* would one of any fence the modem has now, however often it reuses its ids.
BreachesFollow == \A n \in Nat, h \in HwIds, id \in Ids : Meant(n, h, id) => Led(n, h, id)

LEMMA TellsOne ==
  ASSUME NEW B, NEW m, NEW h, NEW i, NEW j, Tells(B, m, h, i), Tells(B, m, h, j)
  PROVE  i = j
  BY DEF Tells, Says, Announces

LEMMA TellsKept ==
  ASSUME Grows, NEW m, Proper(batches, m), NEW h, NEW id
  PROVE  Tells(batches', m, h, id) <=> Tells(batches, m, h, id)
  BY DEF Grows, Proper, Item, Tells, Says, Announces

\* A message posted at the end changes nothing before it ...
LEMMA LedKept ==
  ASSUME Typed, Grows, UNCHANGED geofences, NEW n \in 1 .. Len(msgQ) + 1, NEW h, NEW id, Led(n, h, id),
         UNCHANGED msgQ \/ \E m \in Messages : msgQ' = Append(msgQ, m)
  PROVE  Led(n, h, id)'
  <1>1. \A k \in DOMAIN msgQ : Proper(batches, msgQ[k]) /\ msgQ'[k] = msgQ[k]
    BY AppendFacts DEF Typed, MsgTyped
  <1>2. PICK q \in 0 .. n - 1 :
          /\ IF q = 0 THEN geofences[h].id \in {0, id} ELSE Tells(batches, msgQ[q], h, id)
          /\ \A r \in q + 1 .. n - 1, j \in Ids : Tells(batches, msgQ[r], h, j) => j = id
    BY DEF Led
  <1>3. \A k \in 1 .. n - 1 : k \in DOMAIN msgQ
    BY DEF Typed, MsgTyped
  <1>4. \A k \in 1 .. n - 1 : \A j : Tells(batches', msgQ'[k], h, j) <=> Tells(batches, msgQ[k], h, j)
    BY <1>1, <1>3, TellsKept
  <1>5. IF q = 0 THEN geofences'[h].id \in {0, id} ELSE Tells(batches', msgQ'[q], h, id)
    BY <1>2, <1>4
  <1>6. \A r \in q + 1 .. n - 1, j \in Ids : Tells(batches', msgQ'[r], h, j) => j = id
    BY <1>2, <1>4
  <1> QED BY <1>5, <1>6 DEF Led

\* ... is passed by if it tells nothing ...
LEMMA LedPast ==
  ASSUME Typed, Grows, UNCHANGED geofences, NEW n \in Nat, n = Len(msgQ) + 1, NEW h, NEW id, Led(n, h, id),
         NEW m \in Messages, msgQ' = Append(msgQ, m), \A j : ~ Tells(batches', m, h, j)
  PROVE  Led(n + 1, h, id)'
  <1>1. n \in 1 .. n /\ msgQ'[n] = m
    BY AppendFacts DEF Typed, MsgTyped
  <1>2. Led(n, h, id)'
    BY <1>1, LedKept
  <1>3. PICK q \in 0 .. n - 1 :
          /\ IF q = 0 THEN geofences'[h].id \in {0, id} ELSE Tells(batches', msgQ'[q], h, id)
          /\ \A r \in q + 1 .. n - 1, j \in Ids : Tells(batches', msgQ'[r], h, j) => j = id
    BY <1>2 DEF Led
  <1>4. \A r \in q + 1 .. n + 1 - 1, j \in Ids : Tells(batches', msgQ'[r], h, j) => j = id
    <2>1. \A r \in q + 1 .. n + 1 - 1 : r \in q + 1 .. n - 1 \/ r = n
      BY <1>3
    <2> QED BY <1>1, <1>3, <2>1
  <1>5. q \in 0 .. n + 1 - 1
    BY <1>3
  <1> QED BY <1>3, <1>4, <1>5 DEF Led

\* ... and leads on if it tells it itself.
LEMMA LedNow ==
  ASSUME Typed, NEW n \in Nat, n = Len(msgQ) + 1, NEW h, NEW id,
         NEW m \in Messages, msgQ' = Append(msgQ, m), Tells(batches', m, h, id)
  PROVE  Led(n + 1, h, id)'
  <1>1. n \in 0 .. n + 1 - 1 /\ n # 0 /\ msgQ'[n] = m
    BY AppendFacts DEF Typed, MsgTyped
  <1>2. \A r : r \notin n + 1 .. n + 1 - 1
    OBVIOUS
  <1> QED BY <1>1, <1>2 DEF Led

\* What a handler does to the fence under h.
LEMMA AdapterTold ==
  ASSUME Typed, AdapterStep, NEW h \in HwIds
  PROVE  /\ \/ geofences'[h].id \in {0, geofences[h].id}
            \/ \E id \in Ids : Tells(batches, msg, h, id)
         /\ \A id \in Ids : Tells(batches, msg, h, id) => geofences'[h].id = id
  <1>0. NoFence.id = 0 /\ geofences \in [HwIds -> Fence \cup {NoFence}] /\ geofences[h] \in Described
    BY FenceDescribed DEF NoFence, Typed, MapsTyped
  <1>1. CASE Leaves
    BY <1>1 DEF Leaves, Tells
  <1>2. CASE RemoveClient /\ msg.k = "removeClient"
    BY <1>2 DEF RemoveClient, Tells, Announces
  <1>3. CASE RestartGeofences /\ msg.k = "engineUp"
    BY <1>0, <1>3 DEF RestartGeofences, Tells, Announces
  <1>4. ASSUME NEW hw \in HwIds, Erases(hw) \/ Sweeping(hw)
        PROVE  geofences'[h].id \in {0, geofences[h].id} /\ \A id : ~ Tells(batches, msg, h, id)
    <2>1. UNCHANGED geofences \/ geofences' = [geofences EXCEPT ![hw] = NoFence]
      BY <1>4 DEF Erases, Sweeping, RemoveItem, mapVars
    <2>2. \A id : ~ Tells(batches, msg, h, id)
      BY <1>4 DEF Erases, Sweeping, Forgets, Tells, Announces
    <2> QED BY <1>0, <2>1, <2>2
  <1>5. ASSUME NEW hw \in HwIds, Toggles(hw) \/ Modifies(hw)
        PROVE  geofences'[h].id \in {0, geofences[h].id} /\ \A id : ~ Tells(batches, msg, h, id)
    <2>1. \/ UNCHANGED geofences
          \/ \E paused : geofences' = [geofences EXCEPT ![hw].paused = paused]
          \/ \E mask : geofences' = [geofences EXCEPT ![hw].mask = mask]
      BY <1>5 DEF Toggles, Modifies, SetPaused, SetMask
    <2>2. \A id : ~ Tells(batches, msg, h, id)
      BY <1>5 DEF Toggles, Modifies, Tells, Announces
    <2>3. ASSUME NEW paused, geofences' = [geofences EXCEPT ![hw].paused = paused]
          PROVE  geofences'[h].id = geofences[h].id
      BY <1>0, <2>3 DEF Described
    <2>4. ASSUME NEW mask, geofences' = [geofences EXCEPT ![hw].mask = mask]
          PROVE  geofences'[h].id = geofences[h].id
      BY <1>0, <2>4 DEF Described
    <2> QED BY <2>1, <2>2, <2>3, <2>4
  <1>6. ASSUME NEW hw \in HwIds, NEW id \in Ids, Saves(id, hw)
        PROVE  /\ geofences'[h].id = geofences[h].id \/ Tells(batches, msg, h, id)
               /\ \A i \in Ids : Tells(batches, msg, h, i) => geofences'[h].id = i
    <2>1. /\ geofences' = [geofences EXCEPT ![hw] = Watching(id, Value(batches, msg, "mask"))]
          /\ Tells(batches, msg, hw, id) /\ msg.hw = hw
      BY <1>6 DEF Saves, Tells, Announces
    <2>2. CASE h = hw
      <3>1. geofences'[h].id = id
        BY <1>0, <2>1, <2>2 DEF Watching
      <3> QED BY <2>1, <2>2, <3>1, TellsOne
    <2>3. CASE h # hw
      BY <1>0, <2>1, <2>3 DEF Tells, Announces
    <2> QED BY <2>2, <2>3
  <1> QED BY <1>1, <1>2, <1>3, <1>4, <1>5, <1>6, AdapterDoes

LEMMA LedNext ==
  ASSUME Typed, AdapterStep, NEW n \in 2 .. Len(msgQ) + 1, NEW h \in HwIds, NEW id \in Ids, Led(n, h, id)
  PROVE  Led(n - 1, h, id)'
  <1>1. /\ msgQ # << >> /\ msgQ' = Tail(msgQ) /\ msg = msgQ[1] /\ msgQ \in Seq(Messages)
        /\ Grows /\ \A k \in DOMAIN msgQ : Proper(batches, msgQ[k])
    BY AdapterQueues, AdapterTyped DEF Typed, MsgTyped
  <1>2. PICK q \in 0 .. n - 1 :
          /\ IF q = 0 THEN geofences[h].id \in {0, id} ELSE Tells(batches, msgQ[q], h, id)
          /\ \A r \in q + 1 .. n - 1, j \in Ids : Tells(batches, msgQ[r], h, j) => j = id
    BY DEF Led
  <1>3. \A k \in 1 .. n - 2 : /\ k + 1 \in DOMAIN msgQ /\ msgQ'[k] = msgQ[k + 1] /\ Proper(batches, msgQ[k + 1])
                              /\ k + 1 \in 2 .. n - 1
    BY <1>1
  <1>4. \A k \in 1 .. n - 2 : \A j : Tells(batches', msgQ'[k], h, j) <=> Tells(batches, msgQ[k + 1], h, j)
    BY <1>1, <1>3, TellsKept
  <1>5. CASE q \in {0, 1}
    <2>1. geofences'[h].id \in {0, id}
      <3>1. CASE q = 0
        <4>1. \A j \in Ids : Tells(batches, msg, h, j) => j = id
          BY <1>1, <1>2, <3>1
        <4> QED BY <1>2, <3>1, <4>1, AdapterTold
      <3>2. CASE q = 1
        BY <1>1, <1>2, <3>2, AdapterTold
      <3> QED BY <1>5, <3>1, <3>2
    <2>2. \A r \in 1 .. n - 1 - 1, j \in Ids : Tells(batches', msgQ'[r], h, j) => j = id
      <3>1. \A r \in 1 .. n - 1 - 1 : r \in 1 .. n - 2 /\ r + 1 \in q + 1 .. n - 1
        BY <1>5
      <3> QED BY <1>2, <1>4, <3>1
    <2>3. 0 \in 0 .. n - 1 - 1
      OBVIOUS
    <2> QED BY <2>1, <2>2, <2>3 DEF Led
  <1>6. CASE q \notin {0, 1}
    <2> DEFINE p == q - 1
    <2>1. p \in 0 .. n - 1 - 1 /\ p # 0 /\ p \in 1 .. n - 2 /\ p + 1 = q
      BY <1>6
    <2>2. Tells(batches', msgQ'[p], h, id)
      BY <1>2, <1>4, <1>6, <2>1
    <2>3. \A r \in p + 1 .. n - 1 - 1 : r \in 1 .. n - 2 /\ r + 1 \in q + 1 .. n - 1
      BY <1>6
    <2>4. \A r \in p + 1 .. n - 1 - 1, j \in Ids : Tells(batches', msgQ'[r], h, j) => j = id
      BY <1>2, <1>4, <2>3
    <2> HIDE DEF p
    <2> QED BY <2>1, <2>2, <2>4 DEF Led
  <1> QED BY <1>5, <1>6

\* What the modem says of h is about the fence it has there.
LEMMA ModemTold ==
  ASSUME Typed, LocApiStep \/ ModemStep, NEW h \in HwIds, modem'[h] # NoFence
  PROVE  \/ UNCHANGED msgQ /\ modem[h] # NoFence /\ modem'[h].id = modem[h].id
         \/ \E m \in Messages :
              /\ msgQ' = Append(msgQ, m)
              /\ \/ Tells(batches', m, h, modem'[h].id)
                 \/ /\ modem[h] # NoFence /\ modem'[h].id = modem[h].id
                    /\ \A j : ~ Tells(batches', m, h, j)
  <1> DEFINE SameId == modem[h] # NoFence /\ modem'[h].id = modem[h].id
             Said(m) == Tells(batches', m, h, modem'[h].id) \/ (SameId /\ \A j : ~ Tells(batches', m, h, j))
             Goal == (UNCHANGED msgQ /\ SameId) \/ \E m \in Messages : msgQ' = Append(msgQ, m) /\ Said(m)
  <1> SUFFICES Goal
    OBVIOUS
  <1>0. UNCHANGED batches
    BY ModemDoes DEF ModemKeeps
  <1>1. ASSUME modem'[h] = modem[h], NEW m \in Messages, msgQ' = Append(msgQ, m), ~ Announces(batches, m, h)
        PROVE  Goal
    BY <1>0, <1>1 DEF Tells
  <1>2. ASSUME Hushes(h)
        PROVE  Goal
    BY <1>1, <1>2 DEF Hushes, Silent
  <1>3. CASE Opens
    BY <1>1, <1>3 DEF Opens, Announces
  <1>4. CASE Resets
    BY <1>4 DEF Resets
  <1>5. CASE Breaches
    BY <1>1, <1>5 DEF Breaches, modemVars, Announces
  <1>6. CASE Adds(h)
    <2> DEFINE c == apiQ[1]
    <2>1. /\ LocApiStep /\ c = Head(apiQ) /\ ProperCall(batches, c) /\ c.op = "add" /\ c.fence \in Fence
          /\ modem' = [modem EXCEPT ![h] = c.fence] /\ Replied(h, TRUE)
      BY <1>6, Goes DEF Adds
    <2>2. modem'[h] = c.fence
      BY <2>1 DEF Typed, ModemTyped
    <2> HIDE DEF c
    <2>3. ForItem(batches, c) \/ ForRestart(c)
      BY <2>1 DEF ProperCall, Cmds, ForSweep, ForPause
    <2>4. c.reply.k \in {"done", "restored"} /\ (c.reply.k = "done" => batches[c.reply.batch].cmd = "add")
      BY <2>1, <2>3 DEF ForItem, ForRestart
    <2>5. PICK m : Answering(m, h, TRUE) /\ msgQ' = Append(msgQ, m)
      BY <2>1, <2>4 DEF Replied
    <2>6. /\ m \in Messages /\ m.hw = h /\ m.ok = TRUE /\ m.k = c.reply.k /\ m.batch = c.reply.batch
          /\ m.item = c.reply.item /\ m.fence = c.reply.fence
      BY <2>1, <2>5 DEF Answering
    <2>7. /\ c.reply.k = "done" => c.fence.id = batches[c.reply.batch].ids[c.reply.item]
          /\ c.reply.k = "restored" => c.fence.id = c.reply.fence.id
      <3>1. CASE ForItem(batches, c)
        BY <3>1 DEF ForItem, Watching
      <3>2. CASE ForRestart(c)
        BY <3>2 DEF ForRestart, Watching
      <3> QED BY <2>3, <3>1, <3>2
    <2>8. Tells(batches', m, h, modem'[h].id)
      BY <1>0, <2>2, <2>4, <2>6, <2>7 DEF Tells, Says, Announces
    <2> QED BY <2>5, <2>6, <2>8
  <1>7. CASE Changes(h)
    <2> DEFINE c == apiQ[1]
    <2>1. /\ LocApiStep /\ c = Head(apiQ) /\ ProperCall(batches, c) /\ c.op \in Cmds \ {"add"} /\ modem[h] \in Fence
          /\ modem'[h] = Changed(modem[h], c) /\ Replied(h, TRUE) /\ TRUE \in BOOLEAN
      BY <1>7, Goes DEF Changes, Typed, ModemTyped
    <2> HIDE DEF c
    <2>2. SameId
      <3>1. modem[h].id \in Ids /\ modem[h] # NoFence
        BY <2>1 DEF Fence, NoFence, Ids
      <3>2. modem'[h].id = modem[h].id
        BY <2>1, <3>1 DEF Changed, Cmds, Fence
      <3> QED BY <3>1, <3>2
    <2>3. ASSUME NEW m, Answering(m, h, TRUE)
          PROVE  m \in Messages /\ ~ Announces(batches, m, h)
      <3>1. c.reply.k # "restored" /\ (c.reply.k = "done" => batches[c.reply.batch].cmd # "add")
        BY <2>1 DEF ProperCall, Cmds, ForItem, ForSweep, ForRestart, ForPause, Blank
      <3> QED BY <2>1, <2>3, <3>1 DEF Answering, Announces
    <2> QED BY <1>0, <2>1, <2>2, <2>3 DEF Replied, Tells
  <1>8. ASSUME NEW hw \in HwIds, Adds(hw) \/ Changes(hw)
        PROVE  Goal
    <2>1. CASE hw = h
      BY <1>6, <1>7, <1>8, <2>1
    <2>2. CASE hw # h
      BY <1>2, <1>8, <2>2, OthersHush
    <2> QED BY <2>1, <2>2
  <1>9. Declines => Goal
    BY <1>2, DeclinesHush
  <1> QED BY <1>3, <1>4, <1>5, <1>8, <1>9, ModemDoes

\* A breach is of a fence the modem has.
LEMMA ModemReports ==
  ASSUME Typed, LocApiStep \/ ModemStep
  PROVE  \/ UNCHANGED msgQ
         \/ \E m \in Messages :
              /\ msgQ' = Append(msgQ, m)
              /\ m.k = "breach" => m.hw \in HwIds /\ modem[m.hw] # NoFence /\ m.fence.id = modem[m.hw].id
  <1>1. ASSUME NEW hw, NEW ok, Replied(hw, ok), LocApiStep, Head(apiQ).op # "open"
        PROVE  UNCHANGED msgQ \/ \E m \in Messages : msgQ' = Append(msgQ, m) /\ m.k # "breach"
    <2>1. ProperCall(batches, Head(apiQ))
      BY <1>1, ServedCall
    <2>2. Head(apiQ).reply.k # "breach"
      BY <1>1, <2>1 DEF ProperCall, Calls, Ops, ForItem, ForSweep, ForRestart, ForPause, Blank
    <2> QED BY <1>1, <2>2 DEF Replied, Answering
  <1>2. CASE Declines
    BY <1>1, <1>2 DEF Declines
  <1>3. ASSUME NEW hw \in HwIds, Adds(hw) \/ Changes(hw)
        PROVE  UNCHANGED msgQ \/ \E m \in Messages : msgQ' = Append(msgQ, m) /\ m.k # "breach"
    BY <1>1, <1>3 DEF Adds, Changes, Cmds
  <1>4. CASE Opens \/ Resets \/ Breaches
    BY <1>4 DEF Opens, Resets, Breaches
  <1> QED BY <1>2, <1>3, <1>4, ModemDoes

LEMMA BreachesFollowInvariant == Spec => []BreachesFollow
  <1>1. Init => BreachesFollow
    BY DEF Init, BreachesFollow, Meant
  <1>2. ASSUME Typed, BreachesFollow, [Next]_vars
        PROVE  BreachesFollow'
    <2> USE <1>2
    <2>0. msgQ \in Seq(Messages) /\ Len(msgQ) \in Nat
      BY DEF Typed, MsgTyped
    <2>1. CASE UNCHANGED vars
      BY <2>1 DEF vars, mapVars, modemVars, BreachesFollow, Meant, Led
    <2> SUFFICES ASSUME NEW n \in Nat, NEW h \in HwIds, NEW id \in Ids, Meant(n, h, id)', Next
                 PROVE  Led(n, h, id)'
      BY <2>1 DEF BreachesFollow
    <2>2. ASSUME Meant(n, h, id), Grows, UNCHANGED geofences,
                 UNCHANGED msgQ \/ \E m \in Messages : msgQ' = Append(msgQ, m)
          PROVE  Led(n, h, id)'
      <3>1. n \in 1 .. Len(msgQ) + 1
        BY <2>0, <2>2 DEF Meant
      <3> QED BY <2>2, <3>1, LedKept DEF BreachesFollow
    <2>3. ASSUME Grows, UNCHANGED geofences, NEW m \in Messages, msgQ' = Append(msgQ, m),
                 m.k = "breach" => m.hw \in HwIds /\ modem[m.hw] # NoFence /\ m.fence.id = modem[m.hw].id,
                 modem'[h] # NoFence =>
                   \/ Tells(batches', m, h, modem'[h].id)
                   \/ /\ modem[h] # NoFence /\ modem'[h].id = modem[h].id
                      /\ \A j : ~ Tells(batches', m, h, j)
          PROVE  Led(n, h, id)'
      <3>1. /\ Len(msgQ') = Len(msgQ) + 1 /\ msgQ'[Len(msgQ) + 1] = m
            /\ \A k \in DOMAIN msgQ' : (k \in DOMAIN msgQ /\ msgQ'[k] = msgQ[k]) \/ k = Len(msgQ) + 1
        BY <2>0, <2>3, AppendFacts
      <3>2. CASE n \in DOMAIN msgQ'
        <4>1. Meant(n, h, id)
          <5>1. n # Len(msgQ') + 1
            BY <2>0, <3>1, <3>2
          <5> QED BY <2>3, <3>1, <3>2, <5>1 DEF Meant
        <4> QED BY <2>2, <2>3, <4>1
      <3>3. CASE n \notin DOMAIN msgQ'
        <4>1. n = Len(msgQ) + 1 + 1 /\ modem'[h] # NoFence /\ modem'[h].id = id
          BY <3>1, <3>3 DEF Meant
        <4>2. PICK l \in Nat : l = Len(msgQ) + 1 /\ n = l + 1
          BY <2>0, <4>1
        <4>3. CASE Tells(batches', m, h, id)
          BY <2>3, <4>2, <4>3, LedNow
        <4>4. CASE modem[h] # NoFence /\ modem[h].id = id /\ \A j : ~ Tells(batches', m, h, j)
          <5>1. Led(l, h, id)
            BY <4>2, <4>4 DEF BreachesFollow, Meant
          <5> QED BY <2>3, <4>2, <4>4, <5>1, LedPast
        <4> QED BY <2>3, <4>1, <4>3, <4>4
      <3> QED BY <3>2, <3>3
    <2>4. CASE ClientStep
      <3>1. PICK m \in Messages : msgQ' = Append(msgQ, m) /\ m.k \in {"command", "removeClient"}
        BY <2>4, ClientPosts
      <3>2. Grows /\ UNCHANGED <<geofences, modem>> /\ \A j : ~ Tells(batches', m, h, j)
        BY <2>4, <3>1, ClientPosts, ClientsTypedStep DEF mapVars, modemVars, Tells, Announces
      <3> QED BY <2>3, <3>1, <3>2
    <2>5. CASE LocApiStep \/ ModemStep
      <3>1. Grows /\ UNCHANGED geofences
        BY <2>5, ModemDoes DEF ModemKeeps, mapVars
      <3>2. CASE UNCHANGED msgQ
        <4>1. modem'[h] # NoFence => modem[h] # NoFence /\ modem'[h].id = modem[h].id
          <5>1. \A m \in Messages : Append(msgQ, m) # msgQ
            BY <2>0
          <5> QED BY <2>5, <3>2, <5>1, ModemTold
        <4>2. Meant(n, h, id)
          BY <3>2, <4>1 DEF Meant
        <4> QED BY <2>2, <3>1, <3>2, <4>2
      <3>3. CASE ~ UNCHANGED msgQ
        <4>1. PICK m \in Messages :
                /\ msgQ' = Append(msgQ, m)
                /\ m.k = "breach" => m.hw \in HwIds /\ modem[m.hw] # NoFence /\ m.fence.id = modem[m.hw].id
          BY <2>5, <3>3, ModemReports
        <4>2. \A o \in Messages : msgQ' = Append(msgQ, o) => o = m
          <5>1. \A o \in Messages : Append(msgQ, o)[Len(msgQ) + 1] = o
            BY <2>0, AppendFacts
          <5> QED BY <4>1, <5>1
        <4>3. modem'[h] # NoFence =>
                \/ Tells(batches', m, h, modem'[h].id)
                \/ /\ modem[h] # NoFence /\ modem'[h].id = modem[h].id
                   /\ \A j : ~ Tells(batches', m, h, j)
          BY <2>5, <3>3, <4>2, ModemTold
        <4> QED BY <2>3, <3>1, <4>1, <4>3
      <3> QED BY <3>2, <3>3
    <2>6. CASE AdapterStep
      <3>1. msgQ # << >> /\ msgQ' = Tail(msgQ) /\ UNCHANGED modem
        BY <2>6, AdapterQueues DEF modemVars
      <3>2. Len(msgQ) > 0 /\ Len(msgQ') = Len(msgQ) - 1 /\ \A k \in DOMAIN msgQ' : k + 1 \in DOMAIN msgQ /\ msgQ'[k] = msgQ[k + 1]
        BY <2>0, <3>1, TailFacts
      <3>3. Meant(n + 1, h, id) /\ n + 1 \in 2 .. Len(msgQ) + 1
        <4>1. CASE n \in DOMAIN msgQ' /\ msgQ'[n].k = "breach" /\ msgQ'[n].hw = h /\ msgQ'[n].fence.id = id
          <5>1. n \in 1 .. Len(msgQ')
            BY <2>0, <3>1, <4>1
          <5> QED BY <2>0, <3>2, <4>1, <5>1 DEF Meant
        <4>2. CASE n = Len(msgQ') + 1 /\ modem'[h] # NoFence /\ modem'[h].id = id
          BY <2>0, <3>1, <3>2, <4>2 DEF Meant
        <4> QED BY <4>1, <4>2 DEF Meant
      <3>4. Led(n + 1, h, id) /\ n + 1 - 1 = n
        BY <3>3 DEF BreachesFollow
      <3>5. Led(n + 1 - 1, h, id)'
        BY <2>6, <3>3, <3>4, LedNext
      <3> QED BY <3>4, <3>5
    <2> QED BY <2>4, <2>5, <2>6 DEF Next
  <1> QED BY <1>1, <1>2, TypedInvariant, PTL DEF Spec

\* A breach is told to nobody but the client the fence was made for, under the
\* id it knows the fence by, and only about the fence the modem meant
\* (geofenceBreach, beforeGeofenceBreachCb): however adds, removals, sweeps and
\* restarts overlap with it, and however often hardware ids are handed out again.
THEOREM BreachesReachOwners == Spec => []BreachesReachOwner
  <1>1. Init => BreachesReachOwner
    BY DEF Init, BreachesReachOwner
  <1>2. ASSUME Typed, BreachesFollow, BreachesReachOwner, [Next]_vars
        PROVE  BreachesReachOwner'
    <2> USE <1>2
    <2>1. CASE BreachReported
      <3> DEFINE id == geofences[msg.hw].id
      <3>1. /\ msgQ # << >> /\ msg.k = "breach" /\ Proper(batches, msg) /\ Deliver(id) /\ UNCHANGED owner
            /\ 1 \in DOMAIN msgQ /\ msg = msgQ[1]
        BY <2>1, MsgProper, TailFacts DEF BreachReported, Receive, AdapterKeeps, Typed, MsgTyped, msg
      <3>2. msg.hw \in HwIds
        BY <3>1 DEF Proper
      <3>3. id \in {0, msg.fence.id}
        <4>1. msg.fence.id \in Ids /\ Meant(1, msg.hw, msg.fence.id)
          BY <3>1 DEF Proper, Meant
        <4>2. Led(1, msg.hw, msg.fence.id)
          BY <3>2, <4>1 DEF BreachesFollow
        <4> QED BY <4>2 DEF Led, id
      <3>4. geofences[msg.hw] # NoFence => id \in Ids /\ id # 0
        BY <3>2 DEF Typed, MapsTyped, Fence, Ids
      <3> HIDE DEF id
      <3>5. \A d \in delivered' \ delivered : d.told = id /\ d.meant = msg.fence.id /\ d.client = owner[id] /\ id # 0
        BY <3>1, <3>4 DEF Deliver, id
      <3> QED BY <3>1, <3>3, <3>5 DEF BreachesReachOwner
    <2>2. CASE ~ BreachReported
      <3>1. UNCHANGED delivered
        <4>1. CASE ClientStep
          BY <4>1 DEF ClientStep, AddGeofences, RemoveGeofences, PauseGeofences, ResumeGeofences, ModifyGeofences,
                 Change, Issue, Destroy
        <4>2. CASE AdapterStep
          BY <2>2, <4>2 DEF AdapterStep, StartBatch, AddTurn, FoundTurn, UnknownTurn, AddDone, RemoveDone,
                 PauseDone, ResumeDone, ResumeRefused, ModifyDone, RemoveClient, Swept, RestartGeofences, Restored,
                 Turn, Done
        <4>3. CASE LocApiStep \/ ModemStep
          BY <4>3, ModemDoes DEF ModemKeeps
        <4>4. CASE UNCHANGED vars
          BY <4>4 DEF vars
        <4> QED BY <4>1, <4>2, <4>3, <4>4 DEF Next
      <3>2. \A d \in delivered : owner'[d.meant] = owner[d.meant]
        <4>1. \A d \in delivered : d.meant \in Ids /\ owner[d.meant] # NoClient /\ d.meant < nextId
          BY ConstantsAssumption DEF Typed, RestTyped, ClientsTyped, BreachesReachOwner
        <4>2. UNCHANGED owner \/ \A i \in Ids : i < nextId => owner'[i] = owner[i]
          <5>1. CASE ClientStep
            <6>1. PICK c \in Clients : Destroy(c) \/ \E k, ids, masks : Issued(k, c, ids, masks)
              BY <5>1, ClientActs
            <6> QED BY <6>1 DEF Destroy, Issued, Issue
          <5>2. CASE AdapterStep
            BY <5>2, AdapterQueues
          <5>3. CASE LocApiStep \/ ModemStep
            BY <5>3, ModemDoes DEF ModemKeeps, clientVars
          <5>4. CASE UNCHANGED vars
            BY <5>4 DEF vars, clientVars
          <5> QED BY <5>1, <5>2, <5>3, <5>4 DEF Next
        <4> QED BY <4>1, <4>2
      <3> QED BY <3>1, <3>2 DEF BreachesReachOwner
    <2> QED BY <2>1, <2>2
  <1> QED BY <1>1, <1>2, TypedInvariant, BreachesFollowInvariant, PTL DEF Spec

=============================================================================

-------------------------- MODULE SetupCacheProofs --------------------------
(***************************************************************************)
(* Proofs about the cache of prepared images, for any number of runners,   *)
(* runs and versions of the base: what is published was prepared, is not   *)
(* open in a guest, and never changes.                                     *)
(***************************************************************************)
EXTENDS SetupCache, TLAPS

(* What a runner that prepares an image knows about it, stage by stage.    *)
Staged(r) ==
    /\ Preparing(r) => staging[r].by = r
    /\ pc[r] \in {"stop", "inspect", "publish", "cleanup"} => staging[r].built
    /\ pc[r] \in {"inspect", "publish", "cleanup"} => staging[r].clean
    /\ pc[r] = "cleanup" =>
          /\ entry[key[r]].state # "absent"
          /\ entry[key[r]].image = staging[r]
          /\ backing[r] = staging[r]

(* An image that a guest has open has not been powered off cleanly, even   *)
(* if its runner is dead.                                                  *)
OpenIsUnclean(r) == vm[r] = "up" => ~staging[r].clean

(* A runner's experiment: BackedByEntry for one runner.                    *)
Backed(r) ==
    pc[r] \in {"overlay", "experiment"} =>
        /\ entry[key[r]].state # "absent"
        /\ entry[key[r]].image = backing[r]
        /\ backing[r].built /\ backing[r].clean
        /\ hit[r] \/ backing[r].by = r

(* A published image: PublishedIsPrepared for one key, without the guests, *)
(* which OpenIsUnclean covers.                                             *)
Prepared(k) == Valid(k) => entry[k].image.built /\ entry[k].image.clean

IInv ==
    /\ TypeOK
    /\ \A r \in Runners : Staged(r) /\ OpenIsUnclean(r) /\ Backed(r)
    /\ \A k \in Keys : Prepared(k)

-----------------------------------------------------------------------------
(* Records                                                                 *)

(* No image is an image, and an image is known by its four fields.         *)
LEMMA ImageFields ==
    /\ NoImage \in Images
    /\ \A r \in Runners, b \in Keys : [NoImage EXCEPT !.by = r, !.base = b] \in Images
    /\ \A i \in Images, x \in BOOLEAN :
          [i EXCEPT !.built = x] \in Images /\ [i EXCEPT !.clean = x] \in Images
<1>1. NoImage \in Images
  BY BoundsAssumption DEF NoImage, Images, Keys
<1>2. \A r \in Runners, b \in Keys : [NoImage EXCEPT !.by = r, !.base = b] \in Images
  BY BoundsAssumption DEF NoImage, Images, Keys
<1>3. \A i \in Images, x \in BOOLEAN : [i EXCEPT !.built = x] \in Images
  BY DEF Images
<1>4. \A i \in Images, x \in BOOLEAN : [i EXCEPT !.clean = x] \in Images
  BY DEF Images
<1>5. QED
  BY <1>1, <1>2, <1>3, <1>4

(* At the start there is no image at all.                                 *)
LEMMA InitIInv == Init => IInv
<1>1. SUFFICES ASSUME Init PROVE IInv
  OBVIOUS
<1>2. 0 \in Keys
  BY BoundsAssumption DEF Keys
<1>3. TypeOK
  <2>1. entry \in [Keys -> Entries]
    <3>1. Absent \in Entries /\ [state |-> "invalid", image |-> NoImage] \in Entries
      BY ImageFields DEF Absent, Entries
    <3>2. QED
      BY <1>1, <3>1 DEF Init
  <2>2. pc \in [Runners -> Stages]
    BY <1>1 DEF Init, Stages
  <2>3. staging \in [Runners -> Images] /\ backing \in [Runners -> Images]
    BY <1>1, ImageFields DEF Init
  <2>4. \A r \in Runners : staging[r] = NoImage
    BY <1>1 DEF Init
  <2>5. /\ lock \in [Keys -> Runners \cup {"none"}]
        /\ key \in [Runners -> Keys]
        /\ vm \in [Runners -> {"off", "up"}]
        /\ hit \in [Runners -> BOOLEAN]
    BY <1>1, <1>2 DEF Init
  <2>6. base \in Keys /\ runs \in 0..MaxRuns
    BY <1>1, <1>2, BoundsAssumption DEF Init
  <2>7. QED
    BY <2>1, <2>2, <2>3, <2>4, <2>5, <2>6 DEF TypeOK
<1>4. \A r \in Runners : Staged(r) /\ OpenIsUnclean(r) /\ Backed(r)
  BY <1>1 DEF Init, Staged, OpenIsUnclean, Backed, Preparing
<1>5. \A k \in Keys : Prepared(k)
  BY <1>1 DEF Init, Prepared, Valid, Absent
<1>6. QED
  BY <1>3, <1>4, <1>5 DEF IInv

(* A new run knows its key and nothing else.                               *)
LEMMA StartPreserves ==
    ASSUME IInv, NEW r \in Runners, Start(r)
    PROVE  IInv'
<1>1. TypeOK'
  <2>1. pc' \in [Runners -> Stages]
    BY DEF IInv, TypeOK, Start, Stages
  <2>2. key' \in [Runners -> Keys]
    BY DEF IInv, TypeOK, Start
  <2>3. hit' \in [Runners -> BOOLEAN]
    BY DEF IInv, TypeOK, Start
  <2>4. backing' \in [Runners -> Images]
    BY ImageFields DEF IInv, TypeOK, Start
  <2>5. runs' \in 0..MaxRuns
    BY BoundsAssumption DEF IInv, TypeOK, Start
  <2>6. \A s \in Runners : staging'[s] # NoImage => Preparing(s)' \/ pc'[s] = "dead"
    BY DEF IInv, TypeOK, Start, Preparing
  <2>7. QED
    BY <2>1, <2>2, <2>3, <2>4, <2>5, <2>6 DEF IInv, TypeOK, Start
<1>2. ASSUME NEW s \in Runners
      PROVE  Staged(s)' /\ OpenIsUnclean(s)' /\ Backed(s)'
  BY BoundsAssumption DEF IInv, TypeOK, Start, Staged, OpenIsUnclean, Backed,
     Preparing, Prepared, Valid, Images, NoImage, Exists, Entries, Stages
<1>3. ASSUME NEW k \in Keys
      PROVE  Prepared(k)'
  BY DEF IInv, TypeOK, Start, Staged, Prepared, Valid, Images, Entries
<1>4. QED
  BY <1>1, <1>2, <1>3 DEF IInv

(* Taking the lock touches no image.                                       *)
LEMMA AcquirePreserves ==
    ASSUME IInv, NEW r \in Runners, Acquire(r)
    PROVE  IInv'
<1>1. TypeOK'
  <2>1. pc' \in [Runners -> Stages]
    BY DEF IInv, TypeOK, Acquire, Go, Stages
  <2>2. lock' \in [Keys -> Runners \cup {"none"}]
    BY DEF IInv, TypeOK, Acquire
  <2>3. \A s \in Runners : staging'[s] # NoImage => Preparing(s)' \/ pc'[s] = "dead"
    BY DEF IInv, TypeOK, Acquire, Go, Preparing
  <2>4. QED
    BY <2>1, <2>2, <2>3 DEF IInv, TypeOK, Acquire
<1>2. ASSUME NEW s \in Runners
      PROVE  Staged(s)' /\ OpenIsUnclean(s)' /\ Backed(s)'
  BY BoundsAssumption DEF IInv, TypeOK, Acquire, Go, Staged, OpenIsUnclean, Backed,
     Preparing, Prepared, Valid, Images, NoImage, Exists, Entries, Stages
<1>3. ASSUME NEW k \in Keys
      PROVE  Prepared(k)'
  BY DEF IInv, TypeOK, Acquire, Go, Staged, Prepared, Valid, Images, Entries
<1>4. QED
  BY <1>1, <1>2, <1>3 DEF IInv

(* A hit uses a valid entry, whose image is complete.                      *)
LEMMA HitPreserves ==
    ASSUME IInv, NEW r \in Runners, Hit(r)
    PROVE  IInv'
<1>1. TypeOK'
  <2>1. pc' \in [Runners -> Stages]
    BY DEF IInv, TypeOK, Hit, Go, Stages
  <2>2. hit' \in [Runners -> BOOLEAN]
    BY DEF IInv, TypeOK, Hit
  <2>3. backing' \in [Runners -> Images]
    BY ImageFields DEF IInv, TypeOK, Hit, Entries
  <2>4. lock' \in [Keys -> Runners \cup {"none"}]
    BY DEF IInv, TypeOK, Hit, Unlock, Released
  <2>5. \A s \in Runners : staging'[s] # NoImage => Preparing(s)' \/ pc'[s] = "dead"
    BY DEF IInv, TypeOK, Hit, Go, Preparing
  <2>6. QED
    BY <2>1, <2>2, <2>3, <2>4, <2>5 DEF IInv, TypeOK, Hit
<1>2. ASSUME NEW s \in Runners
      PROVE  Staged(s)' /\ OpenIsUnclean(s)' /\ Backed(s)'
  BY BoundsAssumption DEF IInv, TypeOK, Hit, Go, Staged, OpenIsUnclean, Backed,
     Preparing, Prepared, Valid, Images, NoImage, Exists, Entries, Stages
<1>3. ASSUME NEW k \in Keys
      PROVE  Prepared(k)'
  BY DEF IInv, TypeOK, Hit, Go, Staged, Prepared, Valid, Images, Entries
<1>4. QED
  BY <1>1, <1>2, <1>3 DEF IInv

(* A refused run has used nothing.                                         *)
LEMMA RefusePreserves ==
    ASSUME IInv, NEW r \in Runners, Refuse(r)
    PROVE  IInv'
<1>1. TypeOK'
  <2>1. pc' \in [Runners -> Stages]
    BY DEF IInv, TypeOK, Refuse, Go, Stages
  <2>2. lock' \in [Keys -> Runners \cup {"none"}]
    BY DEF IInv, TypeOK, Refuse, Unlock, Released
  <2>3. \A s \in Runners : staging'[s] # NoImage => Preparing(s)' \/ pc'[s] = "dead"
    BY DEF IInv, TypeOK, Refuse, Go, Preparing
  <2>4. QED
    BY <2>1, <2>2, <2>3 DEF IInv, TypeOK, Refuse
<1>2. ASSUME NEW s \in Runners
      PROVE  Staged(s)' /\ OpenIsUnclean(s)' /\ Backed(s)'
  BY BoundsAssumption DEF IInv, TypeOK, Refuse, Go, Staged, OpenIsUnclean, Backed,
     Preparing, Prepared, Valid, Images, NoImage, Exists, Entries, Stages
<1>3. ASSUME NEW k \in Keys
      PROVE  Prepared(k)'
  BY DEF IInv, TypeOK, Refuse, Go, Staged, Prepared, Valid, Images, Entries
<1>4. QED
  BY <1>1, <1>2, <1>3 DEF IInv

(* A freshly booted image is open and has not been powered off.            *)
LEMMA BootPreserves ==
    ASSUME IInv, NEW r \in Runners, Boot(r)
    PROVE  IInv'
<1>1. TypeOK'
  <2>1. pc' \in [Runners -> Stages]
    BY DEF IInv, TypeOK, Boot, Go, Stages
  <2>2. staging' \in [Runners -> Images]
    BY ImageFields DEF IInv, TypeOK, Boot
  <2>3. vm' \in [Runners -> {"off", "up"}]
    BY DEF IInv, TypeOK, Boot
  <2>4. \A s \in Runners : staging'[s] # NoImage => Preparing(s)' \/ pc'[s] = "dead"
    BY DEF IInv, TypeOK, Boot, Go, Preparing
  <2>5. QED
    BY <2>1, <2>2, <2>3, <2>4 DEF IInv, TypeOK, Boot
<1>2. ASSUME NEW s \in Runners
      PROVE  Staged(s)' /\ OpenIsUnclean(s)' /\ Backed(s)'
  BY BoundsAssumption DEF IInv, TypeOK, Boot, Go, Staged, OpenIsUnclean, Backed,
     Preparing, Prepared, Valid, Images, NoImage, Exists, Entries, Stages
<1>3. ASSUME NEW k \in Keys
      PROVE  Prepared(k)'
  BY DEF IInv, TypeOK, Boot, Go, Staged, Prepared, Valid, Images, Entries
<1>4. QED
  BY <1>1, <1>2, <1>3 DEF IInv

(* Provisioning leaves the image open.                                     *)
LEMMA ProvisionPreserves ==
    ASSUME IInv, NEW r \in Runners, Provision(r)
    PROVE  IInv'
<1>1. TypeOK'
  <2>1. pc' \in [Runners -> Stages]
    BY DEF IInv, TypeOK, Provision, Go, Stages
  <2>2. staging' \in [Runners -> Images]
    BY ImageFields DEF IInv, TypeOK, Provision
  <2>3. \A s \in Runners : staging'[s] # NoImage => Preparing(s)' \/ pc'[s] = "dead"
    BY DEF IInv, TypeOK, Provision, Go, Preparing
  <2>4. QED
    BY <2>1, <2>2, <2>3 DEF IInv, TypeOK, Provision
<1>2. ASSUME NEW s \in Runners
      PROVE  Staged(s)' /\ OpenIsUnclean(s)' /\ Backed(s)'
  BY BoundsAssumption DEF IInv, TypeOK, Provision, Go, Staged, OpenIsUnclean, Backed,
     Preparing, Prepared, Valid, Images, NoImage, Exists, Entries, Stages
<1>3. ASSUME NEW k \in Keys
      PROVE  Prepared(k)'
  BY DEF IInv, TypeOK, Provision, Go, Staged, Prepared, Valid, Images, Entries
<1>4. QED
  BY <1>1, <1>2, <1>3 DEF IInv

(* A failed preparation is discarded with its guest off.                   *)
LEMMA ProvisionFailsPreserves ==
    ASSUME IInv, NEW r \in Runners, ProvisionFails(r)
    PROVE  IInv'
<1>1. TypeOK'
  <2>1. pc' \in [Runners -> Stages]
    BY DEF IInv, TypeOK, ProvisionFails, Go, Stages
  <2>2. vm' \in [Runners -> {"off", "up"}]
    BY DEF IInv, TypeOK, ProvisionFails
  <2>3. staging' \in [Runners -> Images]
    <3>1. PICK clean \in BOOLEAN : staging' = [staging EXCEPT ![r].clean = clean]
      BY DEF ProvisionFails
    <3>2. QED
      BY <3>1, ImageFields DEF IInv, TypeOK
  <2>4. \A s \in Runners : staging'[s] # NoImage => Preparing(s)' \/ pc'[s] = "dead"
    BY DEF IInv, TypeOK, ProvisionFails, Go, Preparing
  <2>5. QED
    BY <2>1, <2>2, <2>3, <2>4 DEF IInv, TypeOK, ProvisionFails
<1>2. ASSUME NEW s \in Runners
      PROVE  Staged(s)' /\ OpenIsUnclean(s)' /\ Backed(s)'
  BY BoundsAssumption DEF IInv, TypeOK, ProvisionFails, Go, Staged, OpenIsUnclean, Backed,
     Preparing, Prepared, Valid, Images, NoImage, Exists, Entries, Stages
<1>3. ASSUME NEW k \in Keys
      PROVE  Prepared(k)'
  BY DEF IInv, TypeOK, ProvisionFails, Go, Staged, Prepared, Valid, Images, Entries
<1>4. QED
  BY <1>1, <1>2, <1>3 DEF IInv

(* Only here an image becomes clean, when its guest is off.                *)
LEMMA PowerOffPreserves ==
    ASSUME IInv, NEW r \in Runners, PowerOff(r)
    PROVE  IInv'
<1>1. TypeOK'
  <2>1. pc' \in [Runners -> Stages]
    BY DEF IInv, TypeOK, PowerOff, Go, Stages
  <2>2. vm' \in [Runners -> {"off", "up"}]
    BY DEF IInv, TypeOK, PowerOff
  <2>3. staging' \in [Runners -> Images]
    BY ImageFields DEF IInv, TypeOK, PowerOff
  <2>4. \A s \in Runners : staging'[s] # NoImage => Preparing(s)' \/ pc'[s] = "dead"
    BY DEF IInv, TypeOK, PowerOff, Go, Preparing
  <2>5. QED
    BY <2>1, <2>2, <2>3, <2>4 DEF IInv, TypeOK, PowerOff
<1>2. ASSUME NEW s \in Runners
      PROVE  Staged(s)' /\ OpenIsUnclean(s)' /\ Backed(s)'
  BY BoundsAssumption DEF IInv, TypeOK, PowerOff, Go, Staged, OpenIsUnclean, Backed,
     Preparing, Prepared, Valid, Images, NoImage, Exists, Entries, Stages
<1>3. ASSUME NEW k \in Keys
      PROVE  Prepared(k)'
  BY DEF IInv, TypeOK, PowerOff, Go, Staged, Prepared, Valid, Images, Entries
<1>4. QED
  BY <1>1, <1>2, <1>3 DEF IInv

(* After an unclean stop the image is discarded.                           *)
LEMMA UncleanStopPreserves ==
    ASSUME IInv, NEW r \in Runners, UncleanStop(r)
    PROVE  IInv'
<1>1. TypeOK'
  <2>1. pc' \in [Runners -> Stages]
    BY DEF IInv, TypeOK, UncleanStop, AfterUnclean, Go, Stages
  <2>2. vm' \in [Runners -> {"off", "up"}]
    BY DEF IInv, TypeOK, UncleanStop, AfterUnclean
  <2>3. \A s \in Runners : staging'[s] # NoImage => Preparing(s)' \/ pc'[s] = "dead"
    BY DEF IInv, TypeOK, UncleanStop, AfterUnclean, Go, Preparing
  <2>4. QED
    BY <2>1, <2>2, <2>3 DEF IInv, TypeOK, UncleanStop
<1>2. ASSUME NEW s \in Runners
      PROVE  Staged(s)' /\ OpenIsUnclean(s)' /\ Backed(s)'
  BY BoundsAssumption DEF IInv, TypeOK, UncleanStop, AfterUnclean, Go, Staged, OpenIsUnclean, Backed,
     Preparing, Prepared, Valid, Images, NoImage, Exists, Entries, Stages
<1>3. ASSUME NEW k \in Keys
      PROVE  Prepared(k)'
  BY DEF IInv, TypeOK, UncleanStop, AfterUnclean, Go, Staged, Prepared, Valid, Images, Entries
<1>4. QED
  BY <1>1, <1>2, <1>3 DEF IInv

(* qemu-img check changes nothing.                                         *)
LEMMA InspectPreserves ==
    ASSUME IInv, NEW r \in Runners, Inspect(r)
    PROVE  IInv'
<1>1. TypeOK'
  <2>1. pc' \in [Runners -> Stages]
    BY DEF IInv, TypeOK, Inspect, Go, Stages
  <2>2. \A s \in Runners : staging'[s] # NoImage => Preparing(s)' \/ pc'[s] = "dead"
    BY DEF IInv, TypeOK, Inspect, Go, Preparing
  <2>3. QED
    BY <2>1, <2>2 DEF IInv, TypeOK, Inspect
<1>2. ASSUME NEW s \in Runners
      PROVE  Staged(s)' /\ OpenIsUnclean(s)' /\ Backed(s)'
  BY BoundsAssumption DEF IInv, TypeOK, Inspect, Go, Staged, OpenIsUnclean, Backed,
     Preparing, Prepared, Valid, Images, NoImage, Exists, Entries, Stages
<1>3. ASSUME NEW k \in Keys
      PROVE  Prepared(k)'
  BY DEF IInv, TypeOK, Inspect, Go, Staged, Prepared, Valid, Images, Entries
<1>4. QED
  BY <1>1, <1>2, <1>3 DEF IInv

(* The published image went through every stage of its runner.             *)
LEMMA PublishPreserves ==
    ASSUME IInv, NEW r \in Runners, Publish(r)
    PROVE  IInv'
<1>1. TypeOK'
  <2>1. pc' \in [Runners -> Stages]
    BY DEF IInv, TypeOK, Publish, Go, Stages
  <2>2. entry' \in [Keys -> Entries]
    BY DEF IInv, TypeOK, Publish, Entries
  <2>3. backing' \in [Runners -> Images]
    BY ImageFields DEF IInv, TypeOK, Publish
  <2>4. \A s \in Runners : staging'[s] # NoImage => Preparing(s)' \/ pc'[s] = "dead"
    BY DEF IInv, TypeOK, Publish, Go, Preparing
  <2>5. QED
    BY <2>1, <2>2, <2>3, <2>4 DEF IInv, TypeOK, Publish
<1>2. ASSUME NEW s \in Runners
      PROVE  Staged(s)' /\ OpenIsUnclean(s)' /\ Backed(s)'
  BY BoundsAssumption DEF IInv, TypeOK, Publish, Go, Staged, OpenIsUnclean, Backed,
     Preparing, Prepared, Valid, Images, NoImage, Exists, Entries, Stages
<1>3. ASSUME NEW k \in Keys
      PROVE  Prepared(k)'
  BY DEF IInv, TypeOK, Publish, Go, Staged, Prepared, Valid, Images, Entries
<1>4. QED
  BY <1>1, <1>2, <1>3 DEF IInv

(* A failed publication leaves no entry.                                   *)
LEMMA PublishFailsPreserves ==
    ASSUME IInv, NEW r \in Runners, PublishFails(r)
    PROVE  IInv'
<1>1. TypeOK'
  <2>1. pc' \in [Runners -> Stages]
    BY DEF IInv, TypeOK, PublishFails, Go, Stages
  <2>2. \A s \in Runners : staging'[s] # NoImage => Preparing(s)' \/ pc'[s] = "dead"
    BY DEF IInv, TypeOK, PublishFails, Go, Preparing
  <2>3. QED
    BY <2>1, <2>2 DEF IInv, TypeOK, PublishFails
<1>2. ASSUME NEW s \in Runners
      PROVE  Staged(s)' /\ OpenIsUnclean(s)' /\ Backed(s)'
  BY BoundsAssumption DEF IInv, TypeOK, PublishFails, Go, Staged, OpenIsUnclean, Backed,
     Preparing, Prepared, Valid, Images, NoImage, Exists, Entries, Stages
<1>3. ASSUME NEW k \in Keys
      PROVE  Prepared(k)'
  BY DEF IInv, TypeOK, PublishFails, Go, Staged, Prepared, Valid, Images, Entries
<1>4. QED
  BY <1>1, <1>2, <1>3 DEF IInv

(* The runner that published sits on the image it published.               *)
LEMMA CleanUpPreserves ==
    ASSUME IInv, NEW r \in Runners, CleanUp(r)
    PROVE  IInv'
<1>1. TypeOK'
  <2>1. pc' \in [Runners -> Stages]
    BY DEF IInv, TypeOK, CleanUp, Go, Stages
  <2>2. staging' \in [Runners -> Images]
    BY ImageFields DEF IInv, TypeOK, CleanUp
  <2>3. lock' \in [Keys -> Runners \cup {"none"}]
    BY DEF IInv, TypeOK, CleanUp, Unlock, Released
  <2>4. \A s \in Runners : staging'[s] # NoImage => Preparing(s)' \/ pc'[s] = "dead"
    BY DEF IInv, TypeOK, CleanUp, Go, Preparing
  <2>5. QED
    BY <2>1, <2>2, <2>3, <2>4 DEF IInv, TypeOK, CleanUp
<1>2. ASSUME NEW s \in Runners
      PROVE  Staged(s)' /\ OpenIsUnclean(s)' /\ Backed(s)'
  BY BoundsAssumption DEF IInv, TypeOK, CleanUp, Go, Staged, OpenIsUnclean, Backed,
     Preparing, Prepared, Valid, Images, NoImage, Exists, Entries, Stages
<1>3. ASSUME NEW k \in Keys
      PROVE  Prepared(k)'
  BY DEF IInv, TypeOK, CleanUp, Go, Staged, Prepared, Valid, Images, Entries
<1>4. QED
  BY <1>1, <1>2, <1>3 DEF IInv

(* A discarded image backs nothing.                                        *)
LEMMA DiscardPreserves ==
    ASSUME IInv, NEW r \in Runners, Discard(r)
    PROVE  IInv'
<1>1. TypeOK'
  <2>1. pc' \in [Runners -> Stages]
    BY DEF IInv, TypeOK, Discard, Go, Stages
  <2>2. staging' \in [Runners -> Images]
    BY ImageFields DEF IInv, TypeOK, Discard
  <2>3. lock' \in [Keys -> Runners \cup {"none"}]
    BY DEF IInv, TypeOK, Discard, Unlock, Released
  <2>4. \A s \in Runners : staging'[s] # NoImage => Preparing(s)' \/ pc'[s] = "dead"
    BY DEF IInv, TypeOK, Discard, Go, Preparing
  <2>5. QED
    BY <2>1, <2>2, <2>3, <2>4 DEF IInv, TypeOK, Discard
<1>2. ASSUME NEW s \in Runners
      PROVE  Staged(s)' /\ OpenIsUnclean(s)' /\ Backed(s)'
  BY BoundsAssumption DEF IInv, TypeOK, Discard, Go, Staged, OpenIsUnclean, Backed,
     Preparing, Prepared, Valid, Images, NoImage, Exists, Entries, Stages
<1>3. ASSUME NEW k \in Keys
      PROVE  Prepared(k)'
  BY DEF IInv, TypeOK, Discard, Go, Staged, Prepared, Valid, Images, Entries
<1>4. QED
  BY <1>1, <1>2, <1>3 DEF IInv

(* Booting the overlay changes no image.                                   *)
LEMMA OverlayPreserves ==
    ASSUME IInv, NEW r \in Runners, Overlay(r)
    PROVE  IInv'
<1>1. TypeOK'
  <2>1. pc' \in [Runners -> Stages]
    BY DEF IInv, TypeOK, Overlay, Go, Stages
  <2>2. \A s \in Runners : staging'[s] # NoImage => Preparing(s)' \/ pc'[s] = "dead"
    BY DEF IInv, TypeOK, Overlay, Go, Preparing
  <2>3. QED
    BY <2>1, <2>2 DEF IInv, TypeOK, Overlay
<1>2. ASSUME NEW s \in Runners
      PROVE  Staged(s)' /\ OpenIsUnclean(s)' /\ Backed(s)'
  BY BoundsAssumption DEF IInv, TypeOK, Overlay, Go, Staged, OpenIsUnclean, Backed,
     Preparing, Prepared, Valid, Images, NoImage, Exists, Entries, Stages
<1>3. ASSUME NEW k \in Keys
      PROVE  Prepared(k)'
  BY DEF IInv, TypeOK, Overlay, Go, Staged, Prepared, Valid, Images, Entries
<1>4. QED
  BY <1>1, <1>2, <1>3 DEF IInv

(* The end of an experiment changes no image.                              *)
LEMMA FinishPreserves ==
    ASSUME IInv, NEW r \in Runners, Finish(r)
    PROVE  IInv'
<1>1. TypeOK'
  <2>1. pc' \in [Runners -> Stages]
    BY DEF IInv, TypeOK, Finish, Go, Stages
  <2>2. \A s \in Runners : staging'[s] # NoImage => Preparing(s)' \/ pc'[s] = "dead"
    BY DEF IInv, TypeOK, Finish, Go, Preparing
  <2>3. QED
    BY <2>1, <2>2 DEF IInv, TypeOK, Finish
<1>2. ASSUME NEW s \in Runners
      PROVE  Staged(s)' /\ OpenIsUnclean(s)' /\ Backed(s)'
  BY BoundsAssumption DEF IInv, TypeOK, Finish, Go, Staged, OpenIsUnclean, Backed,
     Preparing, Prepared, Valid, Images, NoImage, Exists, Entries, Stages
<1>3. ASSUME NEW k \in Keys
      PROVE  Prepared(k)'
  BY DEF IInv, TypeOK, Finish, Go, Staged, Prepared, Valid, Images, Entries
<1>4. QED
  BY <1>1, <1>2, <1>3 DEF IInv

(* An interrupt discards the image, its guest off or not.                  *)
LEMMA InterruptedPreserves ==
    ASSUME IInv, NEW r \in Runners, Interrupted(r)
    PROVE  IInv'
<1>1. TypeOK'
  <2>1. pc' \in [Runners -> Stages]
    BY DEF IInv, TypeOK, Interrupted, Stages
  <2>2. vm' \in [Runners -> {"off", "up"}]
    BY DEF IInv, TypeOK, Interrupted
  <2>3. staging' \in [Runners -> Images]
    BY ImageFields DEF IInv, TypeOK, Interrupted
  <2>4. lock' \in [Keys -> Runners \cup {"none"}]
    BY DEF IInv, TypeOK, Interrupted, Unlock, Released
  <2>5. \A s \in Runners : staging'[s] # NoImage => Preparing(s)' \/ pc'[s] = "dead"
    BY DEF IInv, TypeOK, Interrupted, Preparing
  <2>6. QED
    BY <2>1, <2>2, <2>3, <2>4, <2>5 DEF IInv, TypeOK, Interrupted
<1>2. ASSUME NEW s \in Runners
      PROVE  Staged(s)' /\ OpenIsUnclean(s)' /\ Backed(s)'
  BY BoundsAssumption DEF IInv, TypeOK, Interrupted, Staged, OpenIsUnclean, Backed,
     Preparing, Prepared, Valid, Images, NoImage, Exists, Entries, Stages
<1>3. ASSUME NEW k \in Keys
      PROVE  Prepared(k)'
  BY DEF IInv, TypeOK, Interrupted, Staged, Prepared, Valid, Images, Entries
<1>4. QED
  BY <1>1, <1>2, <1>3 DEF IInv

(* A killed runner leaves an image that nobody publishes.                  *)
LEMMA KilledPreserves ==
    ASSUME IInv, NEW r \in Runners, Killed(r)
    PROVE  IInv'
<1>1. TypeOK'
  <2>1. pc' \in [Runners -> Stages]
    BY DEF IInv, TypeOK, Killed, Stages
  <2>2. lock' \in [Keys -> Runners \cup {"none"}]
    BY DEF IInv, TypeOK, Killed, Unlock, Released
  <2>3. \A s \in Runners : staging'[s] # NoImage => Preparing(s)' \/ pc'[s] = "dead"
    BY DEF IInv, TypeOK, Killed, Preparing
  <2>4. QED
    BY <2>1, <2>2, <2>3 DEF IInv, TypeOK, Killed
<1>2. ASSUME NEW s \in Runners
      PROVE  Staged(s)' /\ OpenIsUnclean(s)' /\ Backed(s)'
  BY BoundsAssumption DEF IInv, TypeOK, Killed, Staged, OpenIsUnclean, Backed,
     Preparing, Prepared, Valid, Images, NoImage, Exists, Entries, Stages
<1>3. ASSUME NEW k \in Keys
      PROVE  Prepared(k)'
  BY DEF IInv, TypeOK, Killed, Staged, Prepared, Valid, Images, Entries
<1>4. QED
  BY <1>1, <1>2, <1>3 DEF IInv

(* A guest that exits by itself makes no image clean.                      *)
LEMMA GuestExitsPreserves ==
    ASSUME IInv, NEW r \in Runners, GuestExits(r)
    PROVE  IInv'
<1>1. TypeOK'
  <2>1. vm' \in [Runners -> {"off", "up"}]
    BY DEF IInv, TypeOK, GuestExits
  <2>2. \A s \in Runners : staging'[s] # NoImage => Preparing(s)' \/ pc'[s] = "dead"
    BY DEF IInv, TypeOK, GuestExits, Preparing
  <2>3. QED
    BY <2>1, <2>2 DEF IInv, TypeOK, GuestExits
<1>2. ASSUME NEW s \in Runners
      PROVE  Staged(s)' /\ OpenIsUnclean(s)' /\ Backed(s)'
  BY BoundsAssumption DEF IInv, TypeOK, GuestExits, Staged, OpenIsUnclean, Backed,
     Preparing, Prepared, Valid, Images, NoImage, Exists, Entries, Stages
<1>3. ASSUME NEW k \in Keys
      PROVE  Prepared(k)'
  BY DEF IInv, TypeOK, GuestExits, Staged, Prepared, Valid, Images, Entries
<1>4. QED
  BY <1>1, <1>2, <1>3 DEF IInv

(* Touching an image takes the entry's validity away and nothing else.     *)
LEMMA CorruptPreserves ==
    ASSUME IInv, NEW c \in Keys, Corrupt(c)
    PROVE  IInv'
<1>1. entry' \in [Keys -> Entries]
  BY DEF IInv, TypeOK, Corrupt, Entries
<1>2. TypeOK'
  BY <1>1 DEF IInv, TypeOK, Corrupt, Preparing
<1>3. \A k \in Keys : /\ entry'[k].image = entry[k].image
                      /\ entry[k].state # "absent" => entry'[k].state # "absent"
                      /\ entry'[k].state = "valid" => entry[k].state = "valid"
  BY DEF IInv, TypeOK, Corrupt, Valid, Entries
<1>4. ASSUME NEW s \in Runners
      PROVE  Staged(s)' /\ OpenIsUnclean(s)' /\ Backed(s)'
  BY <1>3 DEF IInv, TypeOK, Corrupt, Staged, OpenIsUnclean, Backed, Preparing
<1>5. ASSUME NEW k \in Keys
      PROVE  Prepared(k)'
  BY <1>3 DEF IInv, Prepared, Valid
<1>6. QED
  BY <1>2, <1>4, <1>5 DEF IInv

(* A new base changes no image, and a stutter changes nothing.             *)
LEMMA QuietPreserves ==
    ASSUME IInv, base' \in Keys,
           UNCHANGED <<entry, lock, pc, key, staging, vm, hit, backing, runs>>
    PROVE  IInv'
BY DEF IInv, TypeOK, Staged, OpenIsUnclean, Backed, Prepared, Preparing, Valid

(* Every step preserves the invariant.                                     *)
LEMMA NextPreserves == IInv /\ [Next]_vars => IInv'
<1>1. SUFFICES ASSUME IInv, [Next]_vars PROVE IInv'
  OBVIOUS
<1>2. CASE UNCHANGED vars
  BY <1>1, <1>2, QuietPreserves DEF vars, IInv, TypeOK
<1>3. ASSUME NEW r \in Runners,
             Start(r) \/ RunnerStep(r) \/ Interrupted(r) \/ Killed(r) \/ GuestExits(r)
      PROVE  IInv'
  BY <1>1, <1>3, StartPreserves, AcquirePreserves, HitPreserves, RefusePreserves,
     BootPreserves, ProvisionPreserves, ProvisionFailsPreserves, PowerOffPreserves,
     UncleanStopPreserves, InspectPreserves, PublishPreserves, PublishFailsPreserves,
     CleanUpPreserves, DiscardPreserves, OverlayPreserves, FinishPreserves,
     InterruptedPreserves, KilledPreserves, GuestExitsPreserves
     DEF RunnerStep
<1>4. ASSUME NEW c \in Keys, Corrupt(c)
      PROVE  IInv'
  BY <1>1, <1>4, CorruptPreserves
<1>5. CASE ReplaceBase
  <2>1. base' \in Keys
    BY <1>1, <1>5, BoundsAssumption DEF IInv, TypeOK, ReplaceBase, Keys
  <2>2. QED
    BY <1>1, <1>5, <2>1, QuietPreserves DEF ReplaceBase
<1>6. QED
  BY <1>1, <1>2, <1>3, <1>4, <1>5 DEF Next

(* The invariant behind the results below.                                 *)
LEMMA Invariance == Spec => []IInv
BY InitIInv, NextPreserves, PTL DEF Spec

-----------------------------------------------------------------------------
(* Results                                                                 *)

(* Every variable keeps its type, and a staging directory outlives its run *)
(* only if the runner is killed (obtain, qemu_setup_cache.py:89-101).      *)
THEOREM TypeCorrect == Spec => []TypeOK
<1>1. IInv => TypeOK
  BY DEF IInv
<1>2. QED
  BY <1>1, Invariance, PTL

(* "Only successfully prepared, cleanly powered-off images are published"  *)
(* (README.md:117), and no guest has one open, for any number of runners   *)
(* and whatever is killed or interrupted: an image that an orphaned guest  *)
(* has open was never powered off cleanly, so it was never published.      *)
THEOREM OnlyPrepared == Spec => []PublishedIsPrepared
<1>1. ASSUME IInv PROVE PublishedIsPrepared
  <2>1. SUFFICES ASSUME NEW k \in Keys, Valid(k)
                 PROVE  /\ entry[k].image.built /\ entry[k].image.clean
                        /\ \A r \in Runners : vm[r] = "up" => staging[r] # entry[k].image
    BY DEF PublishedIsPrepared
  <2>2. entry[k].image.built /\ entry[k].image.clean
    BY <1>1, <2>1 DEF IInv, Prepared
  <2>3. \A r \in Runners : vm[r] = "up" => ~staging[r].clean
    BY <1>1 DEF IInv, OpenIsUnclean
  <2>4. QED
    BY <2>2, <2>3
<1>2. QED
  BY <1>1, Invariance, PTL

(* The overlay of a running experiment sits on the published image of its  *)
(* key, which the runner prepared itself unless it reports a hit (obtain,  *)
(* lines 83-84 and 100, and run_qemu_player.py:417-421).                   *)
THEOREM OverlaysBacked == Spec => []BackedByEntry
<1>1. IInv => BackedByEntry
  BY DEF IInv, Backed, BackedByEntry
<1>2. QED
  BY <1>1, Invariance, PTL

(* A published image is never renamed or replaced (obtain, lines 85-88):   *)
(* the only step that writes an entry anew finds none there.               *)
THEOREM NeverReplaced == Spec => EntryIsNeverReplaced
<1> DEFINE Kept == \A k \in Keys : entry[k].state # "absent" =>
                      /\ entry'[k].state # "absent"
                      /\ entry'[k].image = entry[k].image
<1>1. ASSUME IInv, [Next]_vars PROVE [Kept]_vars
  <2>1. SUFFICES ASSUME NEW k \in Keys, entry[k].state # "absent"
                 PROVE  /\ entry'[k].state # "absent"
                        /\ entry'[k].image = entry[k].image
    OBVIOUS
  <2>2. CASE UNCHANGED entry
    BY <2>1, <2>2
  <2>3. ASSUME NEW r \in Runners, Publish(r) PROVE k # key[r] /\ entry'[k] = entry[k]
    BY <1>1, <2>1, <2>3 DEF IInv, TypeOK, Publish, Exists
  <2>4. ASSUME NEW c \in Keys, Corrupt(c)
        PROVE  entry'[k].state # "absent" /\ entry'[k].image = entry[k].image
    BY <1>1, <2>1, <2>4 DEF IInv, TypeOK, Corrupt, Valid, Entries
  <2>5. QED
    BY <1>1, <2>1, <2>2, <2>3, <2>4 DEF Next, vars, RunnerStep, Start, Acquire, Hit, Refuse,
       Boot, Provision, ProvisionFails, PowerOff, UncleanStop, Inspect, PublishFails,
       CleanUp, Discard, Overlay, Finish, Interrupted, Killed, GuestExits, ReplaceBase
<1>2. QED
  BY <1>1, Invariance, PTL DEF Spec, EntryIsNeverReplaced
=============================================================================

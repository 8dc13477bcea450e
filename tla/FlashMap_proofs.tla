--------------------------- MODULE FlashMap_proofs ---------------------------
(***************************************************************************)
(* Proofs about FlashMap, for every set of sectors and images, whatever    *)
(* their sizes: nothing is assumed about where a stream ends.  Where the   *)
(* writers meet is arithmetic over the map, collected in MapValues,        *)
(* WholeFits and OwnArea.                                                  *)
(***************************************************************************)
EXTENDS FlashMap, TLAPS

\* Where the two ROMs start.
LEMMA MapValues == roms[0] = 2 /\ roms[1] = 514 /\ \A s \in Slots : roms[s] \in {2, 514}
BY DEF roms, Slots, flashsize, BOOT_CONFIG_SECTOR

\* A shorter stream covers part of what a longer one covers.
LEMMA StreamGrows ==
    ASSUME NEW s \in Slots, NEW m \in Nat, NEW n \in Nat, m <= n
    PROVE  Stream(s, m) \subseteq Stream(s, n)
<1> SUFFICES ASSUME NEW x \in Stream(s, m)
             PROVE  x \in Stream(s, n)
  OBVIOUS
<1>1. x \in Sectors /\ x \in Nat /\ roms[s] \in Nat
  BY FlashAssumption, MapValues DEF Stream, flashsize
<1>2. QED
  BY <1>1 DEF Stream

\* A slot that begins a whole image while every stream lies in its area holds an image
\* that lies in its area: a longer one would cover the sector behind it.
LEMMA WholeFits ==
    ASSUME TypeOK, Provenance, Apart, NEW s \in Slots, NEW i \in Images, Holds(s, i)
    PROVE  roms[s] + Size[i] <= AreaEnd[s]
<1>1. /\ Size[i] \in Nat /\ AreaEnd[s] \in Sectors /\ AreaEnd[s] \in Nat
      /\ roms[s] \in Nat /\ roms[s] <= AreaEnd[s]
      /\ reach[0] \in Nat /\ reach[1] \in Nat
  BY FlashAssumption, MapValues DEF AreaEnd, FLASH_PARAM_SECTOR, Slots, TypeOK
<1>2. SUFFICES ASSUME AreaEnd[s] < roms[s] + Size[i] PROVE FALSE
  BY <1>1
<1>3. flash[AreaEnd[s]] \in Images
  BY <1>1, <1>2 DEF Holds, Stream
<1>4. PICK t \in Slots : AreaEnd[s] \in Stream(t, reach[t])
  BY <1>1, <1>3 DEF Provenance
<1>5. roms[t] <= AreaEnd[s] /\ AreaEnd[s] < roms[t] + reach[t] /\ roms[t] + reach[t] <= AreaEnd[t]
  BY <1>4 DEF Stream, Apart
<1>6. /\ roms[0] = 2 /\ roms[1] = 514 /\ AreaEnd[0] = 129 /\ AreaEnd[1] = 1021
      /\ s \in {0, 1} /\ t \in {0, 1}
  BY MapValues DEF AreaEnd, FLASH_PARAM_SECTOR, Slots
<1>7. QED
  BY <1>1, <1>5, <1>6

\* What lies in a slot's area belongs to no other writer, and not to the other slot.
LEMMA OwnArea ==
    ASSUME NEW s \in Slots, NEW n \in Nat, roms[s] + n <= AreaEnd[s],
           NEW m \in Nat, roms[1 - s] + m <= AreaEnd[1 - s], NEW x \in Stream(s, n)
    PROVE  x \notin Shared /\ x \notin Stream(1 - s, m)
<1>1. x \in Nat
  BY FlashAssumption DEF Stream, flashsize
<1>2. /\ roms[0] = 2 /\ roms[1] = 514 /\ AreaEnd[0] = 129 /\ AreaEnd[1] = 1021
  BY MapValues DEF AreaEnd, FLASH_PARAM_SECTOR, Slots
<1>3. CASE s = 0
  BY <1>1, <1>2, <1>3 DEF Stream, Shared, SdkSectors, FLASH_PARAM_SECTOR
<1>4. CASE s = 1
  BY <1>1, <1>2, <1>4 DEF Stream, Shared, SdkSectors, FLASH_PARAM_SECTOR
<1>5. QED
  BY <1>3, <1>4 DEF Slots

-----------------------------------------------------------------------------
(****************************** Type correctness ****************************)

\* What the cache is set to after a flash operation.
LEMMA CacheType ==
    ASSUME TypeOK, current_rom' \in Slots, Cache_Read_Enable_New
    PROVE  mmap' \in Nat \X Nat
<1>1. roms[current_rom'] \in Nat
  BY MapValues
<1>2. Window(current_rom') \in Nat \X Nat
  BY <1>1 DEF Window, Megabyte
<1>3. QED
  BY <1>2 DEF Cache_Read_Enable_New, TypeOK

\* An update in progress is into a slot, of an image.
LEMMA InProgress ==
    ASSUME TypeOK, up.on
    PROVE  up \in [on: {TRUE}, slot: Slots, img: Images, done: 0..flashsize]
<1>1. up # NoUpdate
  <2>1. NoUpdate.on = FALSE
    BY DEF NoUpdate
  <2>2. QED
    BY <2>1
<1>2. QED
  BY <1>1 DEF TypeOK

\* The state has its type: no stream runs past the end of the chip.
THEOREM TypeCorrect == Spec => []TypeOK
<1>1. Init => TypeOK
  <2> SUFFICES ASSUME Init PROVE TypeOK
    OBVIOUS
  <2>1. flash \in [Sectors -> Contents]
    BY DEF Init, Contents
  <2>2. Unset \in Nat \X Nat
    BY DEF Unset
  <2>3. reach \in [Slots -> Nat]
    BY FlashAssumption DEF Init, Slots
  <2>4. QED
    BY <2>1, <2>2, <2>3 DEF Init, TypeOK, Slots
<1>2. TypeOK /\ [Next]_vars => TypeOK'
  <2> SUFFICES ASSUME TypeOK, [Next]_vars PROVE TypeOK'
    OBVIOUS
  <2> USE DEF TypeOK
  <2>1. ASSUME NEW s \in Slots, Boot(s) PROVE TypeOK'
    <3>1. mmap' \in Nat \X Nat
      BY <2>1 DEF Boot, Unset
    <3>2. QED
      BY <2>1, <3>1 DEF Boot
  <2>2. CASE user_init
    BY <2>2, CacheType DEF user_init
  <2>3. CASE Erase
    BY <2>3, CacheType DEF Erase, Contents
  <2>4. CASE Write
    BY <2>4, CacheType DEF Write, Contents
  <2>5. ASSUME NEW cmd \in {"baud", "port"}, Save(cmd) PROVE TypeOK'
    BY <2>5 DEF Save
  <2>6. ASSUME NEW x \in SdkSectors, SdkSave(x) PROVE TypeOK'
    BY <2>6, CacheType DEF SdkSave, Contents
  <2>7. CASE config_cmd_switch
    <3>1. current_rom' \in Slots
      BY <2>7 DEF config_cmd_switch, Slots
    <3>2. QED
      BY <2>7, <3>1, CacheType DEF config_cmd_switch
  <2>8. ASSUME NEW i \in Images, rboot_ota_start(i) PROVE TypeOK'
    BY <2>8, FlashAssumption DEF rboot_ota_start, Slots, flashsize
  <2>9. ASSUME NEW n \in Cuts, upgrade_recvcb(n) PROVE TypeOK'
    <3>0. up \in [on: {TRUE}, slot: Slots, img: Images, done: 0..flashsize]
      BY <2>9, InProgress DEF upgrade_recvcb
    <3>1. up.slot \in Slots /\ up.img \in Images /\ n \in 0..flashsize
      <4>1. n \in Nat /\ roms[up.slot] \in Nat /\ roms[up.slot] + n <= flashsize
        BY <2>9, <3>0, FlashAssumption, MapValues DEF upgrade_recvcb
      <4>2. QED
        BY <3>0, <4>1 DEF flashsize
    <3>2. flash' \in [Sectors -> Contents]
      BY <2>9, <3>1 DEF upgrade_recvcb, Streamed, Contents
    <3>3. current_rom' \in Slots /\ running' \in Slots
      BY <2>9, <3>1 DEF upgrade_recvcb
    <3>4. mmap' \in Nat \X Nat
      BY <2>9, <3>3, CacheType DEF upgrade_recvcb
    <3>5. up' \in [on: {TRUE}, slot: Slots, img: Images, done: 0..flashsize] \cup {NoUpdate}
      BY <2>9, <3>1 DEF upgrade_recvcb, NoUpdate
    <3>6. reach' \in [Slots -> Nat]
      BY <2>9, <3>1 DEF upgrade_recvcb, Reaches
    <3>7. QED
      BY <2>9, <3>2, <3>3, <3>4, <3>5, <3>6 DEF upgrade_recvcb
  <2>10. CASE upgrade_recvcb_part
    <3>1. flash' \in [Sectors -> Contents]
      BY <2>10 DEF upgrade_recvcb_part, Begun, Contents
    <3>0. up \in [on: {TRUE}, slot: Slots, img: Images, done: 0..flashsize]
      BY <2>10, InProgress DEF upgrade_recvcb_part
    <3>2. up.done + 1 \in Nat
      BY <3>0 DEF flashsize
    <3>3. reach' \in [Slots -> Nat]
      BY <2>10, <3>2 DEF upgrade_recvcb_part, Reaches
    <3>4. QED
      BY <2>10, <3>1, <3>3, CacheType DEF upgrade_recvcb_part
  <2>11. CASE rboot_ota_deinit
    BY <2>11 DEF rboot_ota_deinit
  <2>12. CASE ConfigLost
    BY <2>12 DEF ConfigLost, Slots
  <2>13. CASE PowerCut
    BY <2>13 DEF PowerCut
  <2>14. CASE UNCHANGED vars
    BY <2>14 DEF vars
  <2>15. QED
    BY <2>1, <2>2, <2>3, <2>4, <2>5, <2>6, <2>7, <2>8, <2>9, <2>10, <2>11,
       <2>12, <2>13, <2>14 DEF Next
<1>3. QED
  BY <1>1, <1>2, PTL DEF Spec

-----------------------------------------------------------------------------
(******************************* The slots **********************************)

\* The windows of the two ROMs.
LEMMA WindowValues == \A s \in Slots : Window(s) # Unset
<1> SUFFICES ASSUME NEW s \in Slots PROVE Window(s) # Unset
  OBVIOUS
<1>1. roms[s] \in {2, 514}
  BY MapValues
<1>2. roms[s] \div Megabyte \in {0, 2}
  BY <1>1 DEF Megabyte
<1>3. QED
  BY <1>2 DEF Window, Unset

\* After a flash operation the window is there; one that was there is kept.
LEMMA CacheKept ==
    ASSUME Cache_Read_Enable_New, current_rom' \in Slots
    PROVE  /\ mmap' # Unset
           /\ mmap # Unset => mmap' = mmap
           /\ mmap = Unset => mmap' = Window(current_rom')
BY WindowValues DEF Cache_Read_Enable_New

\* How far streams have come is never forgotten.
LEMMA ReachGrows ==
    ASSUME TypeOK, [Next]_vars
    PROVE  \A s \in Slots : reach[s] <= reach'[s]
<1> SUFFICES ASSUME NEW s \in Slots PROVE reach[s] <= reach'[s]
  OBVIOUS
<1>0. reach \in [Slots -> Nat]
  BY DEF TypeOK
<1>1. ASSUME NEW n \in Nat, Reaches(n) PROVE reach[s] <= reach'[s]
  BY <1>0, <1>1 DEF Reaches
<1>2. ASSUME NEW n \in Cuts, upgrade_recvcb(n) PROVE reach[s] <= reach'[s]
  BY <1>1, <1>2, FlashAssumption DEF upgrade_recvcb
<1>3. CASE upgrade_recvcb_part
  <2>1. up \in [on: {TRUE}, slot: Slots, img: Images, done: 0..flashsize]
    BY <1>3, InProgress DEF upgrade_recvcb_part
  <2>2. up.done + 1 \in Nat
    BY <2>1 DEF flashsize
  <2>3. QED
    BY <1>1, <1>3, <2>2 DEF upgrade_recvcb_part
<1>4. ASSUME reach' = reach PROVE reach[s] <= reach'[s]
  BY <1>0, <1>4
<1>5. QED
  BY <1>2, <1>3, <1>4
     DEF Next, vars, Boot, user_init, Erase, Write, Save, SdkSave, config_cmd_switch,
         rboot_ota_start, rboot_ota_deinit, ConfigLost, PowerCut

\* So what one has covered it still has.
LEMMA CoveredGrows ==
    ASSUME TypeOK, TypeOK', [Next]_vars, NEW s \in Slots
    PROVE  Stream(s, reach[s]) \subseteq Stream(s, reach'[s])
<1>1. reach[s] \in Nat /\ reach'[s] \in Nat /\ reach[s] <= reach'[s]
  BY ReachGrows DEF TypeOK
<1>2. QED
  BY <1>1, StreamGrows

\* If the images are apart after a step they were before it.
LEMMA ApartBefore ==
    ASSUME TypeOK, TypeOK', [Next]_vars, Apart'
    PROVE  Apart
<1> SUFFICES ASSUME NEW s \in Slots PROVE roms[s] + reach[s] <= AreaEnd[s]
  BY DEF Apart
<1>1. reach[s] \in Nat /\ reach'[s] \in Nat /\ reach[s] <= reach'[s]
  BY ReachGrows DEF TypeOK
<1>2. roms[s] + reach'[s] <= AreaEnd[s]
  BY DEF Apart
<1>3. roms[s] \in Nat /\ AreaEnd[s] \in Nat
  BY MapValues DEF AreaEnd, FLASH_PARAM_SECTOR
<1>4. QED
  BY <1>1, <1>2, <1>3

\* An update covers what it stores.
LEMMA StoresWithin ==
    ASSUME TypeOK, TypeOK', up.on, NEW n \in Nat, Reaches(n)
    PROVE  Stream(up.slot, n) \subseteq Stream(up.slot, reach'[up.slot])
<1>1. up \in [on: {TRUE}, slot: Slots, img: Images, done: 0..flashsize]
  BY InProgress
<1>2. reach'[up.slot] \in Nat /\ n <= reach'[up.slot]
  BY <1>1 DEF Reaches, TypeOK
<1>3. QED
  BY <1>1, <1>2, StreamGrows

\* The two ways an update stores something.
LEMMA Stores ==
    ASSUME TypeOK, TypeOK', up.on,
           \/ \E n \in Cuts : upgrade_recvcb(n)
           \/ upgrade_recvcb_part
    PROVE  \A x \in Sectors : flash'[x] # flash[x] => x \in Stream(up.slot, reach'[up.slot])
<1>1. up \in [on: {TRUE}, slot: Slots, img: Images, done: 0..flashsize]
  BY InProgress
<1>2. ASSUME NEW n \in Cuts, upgrade_recvcb(n), NEW x \in Sectors, flash'[x] # flash[x]
      PROVE  x \in Stream(up.slot, reach'[up.slot])
  <2>1. x \in Stream(up.slot, n)
    BY <1>2 DEF upgrade_recvcb, Streamed
  <2>2. n \in Nat /\ Reaches(n)
    BY <1>2, FlashAssumption DEF upgrade_recvcb
  <2>3. QED
    BY <2>1, <2>2, StoresWithin
<1>3. ASSUME upgrade_recvcb_part, NEW x \in Sectors, flash'[x] # flash[x]
      PROVE  x \in Stream(up.slot, reach'[up.slot])
  <2>1. x \in Stream(up.slot, up.done + 1)
    BY <1>3 DEF upgrade_recvcb_part, Begun
  <2>2. up.done + 1 \in Nat /\ Reaches(up.done + 1)
    BY <1>1, <1>3 DEF upgrade_recvcb_part, flashsize
  <2>3. PICK n \in Nat : n = up.done + 1
    BY <2>2
  <2>4. QED
    BY <2>1, <2>2, <2>3, StoresWithin
<1>4. QED
  BY <1>2, <1>3

\* Only the settings, the SDK and updates write, the first two no images.
LEMMA Writers ==
    ASSUME TypeOK, TypeOK', [Next]_vars, NEW x \in Sectors, flash'[x] # flash[x]
    PROVE  \/ x \in Shared /\ flash'[x] \notin Images
           \/ up.on /\ x \in Stream(up.slot, reach'[up.slot])
<1>1. flash \in [Sectors -> Contents]
  BY DEF TypeOK
<1>2. CASE Erase \/ Write
  <2>1. \E v \in {"erased", "settings", "cut"} : flash' = [flash EXCEPT ![FLASH_PARAM_SECTOR] = v]
    BY <1>2 DEF Erase, Write
  <2>2. QED
    BY <1>1, <2>1, FlashAssumption DEF Shared
<1>3. ASSUME NEW y \in SdkSectors, SdkSave(y)
      PROVE  x \in Shared /\ flash'[x] \notin Images
  BY <1>1, <1>3, FlashAssumption DEF SdkSave, Shared
<1>4. ASSUME NEW n \in Cuts, upgrade_recvcb(n)
      PROVE  up.on /\ x \in Stream(up.slot, reach'[up.slot])
  BY <1>4, Stores DEF upgrade_recvcb
<1>5. CASE upgrade_recvcb_part
  BY <1>5, Stores DEF upgrade_recvcb_part
<1>6. QED
  BY <1>2, <1>3, <1>4, <1>5
     DEF Next, vars, Boot, user_init, Save, config_cmd_switch, rboot_ota_start,
         rboot_ota_deinit, ConfigLost, PowerCut

\* What holds an image was streamed.
LEMMA ProvenanceNext ==
    ASSUME TypeOK, TypeOK', Provenance, [Next]_vars
    PROVE  Provenance'
<1> SUFFICES ASSUME NEW x \in Sectors, flash'[x] \in Images
             PROVE  \E s \in Slots : x \in Stream(s, reach'[s])
  BY DEF Provenance, Stream
<1>1. CASE flash'[x] = flash[x]
  BY <1>1, CoveredGrows DEF Provenance
<1>2. CASE flash'[x] # flash[x]
  <2>1. up.on /\ x \in Stream(up.slot, reach'[up.slot])
    BY <1>2, Writers
  <2>2. QED
    BY <2>1, InProgress
<1>3. QED
  BY <1>1, <1>2

LEMMA ProvenanceInit == Init => Provenance
<1> SUFFICES ASSUME Init, NEW x \in Sectors, flash[x] \in Images
             PROVE  \E s \in Slots : x \in Stream(s, reach[s])
  BY DEF Provenance
<1>1. PICK i \in Images, j \in Images \cup {"erased"}, f \in {"settings", "erased"} :
        /\ flash = [y \in Sectors |->
              IF y \in Stream(0, Size[i]) THEN i
              ELSE IF j # "erased" /\ y \in Stream(1, Size[j]) THEN j
              ELSE IF y = FLASH_PARAM_SECTOR THEN f ELSE "other"]
        /\ reach = [s \in Slots |-> IF s = 0 THEN Size[i]
                                   ELSE IF j = "erased" THEN 0 ELSE Size[j]]
  BY DEF Init
<1>2. reach[0] = Size[i] /\ (j # "erased" => reach[1] = Size[j]) /\ {0, 1} \subseteq Slots
  BY <1>1 DEF Slots
<1>3. x \in Stream(0, Size[i]) \/ (j # "erased" /\ x \in Stream(1, Size[j]))
  BY <1>1, FlashAssumption
<1>4. QED
  BY <1>2, <1>3

-----------------------------------------------------------------------------
(************************ The ROM that executes *****************************)

\* An update of the slot that does not execute, the settings and the SDK leave the ROM
\* that executes as RomIntact says.
LEMMA IntactNext ==
    ASSUME TypeOK, TypeOK', Provenance, RomIntact, [Next]_vars, running' = running,
           up.on => up.slot # running
    PROVE  RomIntact'
<1>0. running \in Slots /\ 1 - running \in Slots
  BY DEF TypeOK, Slots
<1>00. up.on => up.slot = 1 - running
  BY <1>0, InProgress DEF Slots
<1>1. \E i \in Images : \A x \in Stream(running, Size[i]) :
          \/ flash'[x] = i
          \/ x \in Shared
          \/ x \in Stream(1 - running, reach'[1 - running])
  <2>1. PICK i \in Images : \A x \in Stream(running, Size[i]) :
          \/ flash[x] = i
          \/ x \in Shared
          \/ x \in Stream(1 - running, reach[1 - running])
    BY DEF RomIntact
  <2>2. ASSUME NEW x \in Stream(running, Size[i])
        PROVE  \/ flash'[x] = i
               \/ x \in Shared
               \/ x \in Stream(1 - running, reach'[1 - running])
    <3>1. x \in Sectors
      BY DEF Stream
    <3>2. CASE flash'[x] = flash[x]
      BY <1>0, <2>1, <3>2, CoveredGrows
    <3>3. CASE flash'[x] # flash[x]
      BY <1>00, <3>1, <3>3, Writers
    <3>4. QED
      BY <3>2, <3>3
  <2>3. QED
    BY <2>2
<1>2. ASSUME Apart' PROVE Whole(running)'
  <2>1. Apart
    BY <1>2, ApartBefore
  <2>2. PICK i \in Images : Holds(running, i)
    BY <2>1 DEF RomIntact, Whole
  <2>3. roms[running] + Size[i] <= AreaEnd[running] /\ Size[i] \in Nat
    BY <1>0, <2>1, <2>2, WholeFits, FlashAssumption
  <2>4. /\ reach'[1 - running] \in Nat
        /\ roms[1 - running] + reach'[1 - running] <= AreaEnd[1 - running]
    BY <1>0, <1>2 DEF Apart, TypeOK
  <2>5. ASSUME NEW x \in Stream(running, Size[i]) PROVE flash'[x] = i
    <3>1. x \in Sectors /\ x \notin Shared /\ x \notin Stream(1 - running, reach'[1 - running])
      BY <1>0, <2>3, <2>4, OwnArea DEF Stream
    <3>2. flash'[x] = flash[x]
      BY <1>00, <3>1, Writers
    <3>3. QED
      BY <2>2, <3>2 DEF Holds
  <2>6. QED
    BY <2>5 DEF Whole, Holds
<1>3. QED
  BY <1>1, <1>2 DEF RomIntact, Stream

\* A ROM that is whole is intact.
LEMMA WholeIntact == ASSUME Whole(running) PROVE RomIntact
BY DEF RomIntact, Whole, Holds

LEMMA SlotsInit == Init => SlotsApart
<1> SUFFICES ASSUME Init PROVE SlotsApart
  OBVIOUS
<1>1. PICK i \in Images : \A x \in Stream(0, Size[i]) : flash[x] = i
  BY DEF Init, Stream
<1>2. RomIntact
  BY <1>1, WholeIntact DEF Init, Whole, Holds
<1>3. QED
  BY <1>2 DEF Init, SlotsApart, NoUpdate

LEMMA SlotsNext ==
    ASSUME TypeOK, TypeOK', Provenance, SlotsApart, [Next]_vars
    PROVE  SlotsApart'
<1> USE DEF SlotsApart
<1>0. /\ running \in Slots /\ current_rom \in Slots /\ current_rom' \in Slots
      /\ flash \in [Sectors -> Contents]
  BY DEF TypeOK
<1>00. running' = running => RomIntact'
  BY IntactNext
<1>1. ASSUME NEW s \in Slots, Boot(s) PROVE SlotsApart'
  <2>1. Whole(running)'
    BY <1>1 DEF Boot, Whole, Holds
  <2>2. RomIntact'
    BY <2>1 DEF RomIntact, Whole, Holds
  <2>3. ~up.on
    BY <1>1 DEF Boot
  <2>4. QED
    BY <1>1, <2>2, <2>3 DEF Boot
<1>2. CASE user_init
  BY <1>2, <1>0, <1>00, CacheKept DEF user_init
<1>3. CASE Erase
  BY <1>3, <1>0, <1>00, CacheKept DEF Erase
<1>4. CASE Write
  BY <1>4, <1>0, <1>00, CacheKept DEF Write
<1>5. ASSUME NEW cmd \in {"baud", "port"}, Save(cmd) PROVE SlotsApart'
  BY <1>5, <1>00 DEF Save
<1>6. ASSUME NEW x \in SdkSectors, SdkSave(x) PROVE SlotsApart'
  BY <1>6, <1>0, <1>00, CacheKept DEF SdkSave
<1>7. CASE config_cmd_switch
  BY <1>7, <1>0, <1>00, CacheKept DEF config_cmd_switch
<1>8. ASSUME NEW i \in Images, rboot_ota_start(i) PROVE SlotsApart'
  <2>1. up'.slot # running'
    BY <1>8, <1>0 DEF rboot_ota_start, Slots
  <2>2. QED
    BY <1>8, <1>00, <2>1 DEF rboot_ota_start
<1>9. ASSUME NEW n \in Cuts, upgrade_recvcb(n) PROVE SlotsApart'
  <2>1. up.slot # running
    BY <1>9 DEF upgrade_recvcb
  <2>2. up'.on => up'.slot = up.slot
    BY <1>9, InProgress DEF upgrade_recvcb, NoUpdate
  <2>3. /\ pc' # "off" /\ pc' # "boot"
        /\ pc' # "restart" => current_rom' = current_rom
        /\ mmap' = mmap /\ mmap # Unset /\ running' = running
    BY <1>9, <1>0, CacheKept DEF upgrade_recvcb
  <2>4. QED
    BY <1>9, <1>00, <2>1, <2>2, <2>3 DEF upgrade_recvcb
<1>10. CASE upgrade_recvcb_part
  BY <1>10, <1>0, <1>00, CacheKept DEF upgrade_recvcb_part
<1>11. CASE rboot_ota_deinit
  BY <1>11, <1>00 DEF rboot_ota_deinit, NoUpdate
<1>12. CASE ConfigLost
  BY <1>12, <1>00 DEF ConfigLost
<1>13. CASE PowerCut
  BY <1>13, <1>00 DEF PowerCut, NoUpdate
<1>14. CASE UNCHANGED vars
  BY <1>14, <1>00 DEF vars
<1>15. QED
  BY <1>1, <1>2, <1>3, <1>4, <1>5, <1>6, <1>7, <1>8, <1>9, <1>10, <1>11,
     <1>12, <1>13, <1>14 DEF Next

\* What holds an image was streamed there.
LEMMA ProvenanceKept == Spec => []Provenance
<1>1. Init => Provenance
  BY ProvenanceInit
<1>2. TypeOK /\ TypeOK' /\ Provenance /\ [Next]_vars => Provenance'
  BY ProvenanceNext
<1>3. QED
  BY <1>1, <1>2, TypeCorrect, PTL DEF Spec

\* An update is only ever into the ROM that does not execute, and the ROM that executes
\* is damaged only where RomIntact says.
THEOREM SlotsStayApart == Spec => []SlotsApart
<1>1. Init => SlotsApart
  BY SlotsInit
<1>2. TypeOK /\ TypeOK' /\ Provenance /\ SlotsApart /\ [Next]_vars => SlotsApart'
  BY SlotsNext
<1>3. QED
  BY <1>1, <1>2, TypeCorrect, ProvenanceKept, PTL DEF Spec

\* The ROM that executes stays what the boot loader accepted, but for the sectors of the
\* settings and of the SDK and those an update ran into; as long as no image and no
\* stream has come that far it can be started again.
THEOREM RomStaysIntact == Spec => []RomIntact
<1>1. SlotsApart => RomIntact
  BY DEF SlotsApart
<1>2. QED
  BY <1>1, SlotsStayApart, PTL

\* Whatever ROM has been selected meanwhile, the code that executes is seen through
\* the window at the place it was linked for.
THEOREM CodeStaysMapped == Spec => []CodeMapped
<1>1. ASSUME TypeOK, SlotsApart, pc \notin {"off", "boot"},
             NEW x \in Stream(running, LinkedLength)
      PROVE  LET val == (2 * mmap[2]) + mmap[1] IN
             /\ x - (val * Megabyte) >= Linked /\ x - (val * Megabyte) < Megabyte
             /\ x - roms[running] = x - (val * Megabyte) - Linked
  <2>1. mmap = Window(running)
    BY <1>1 DEF SlotsApart
  <2>2. running \in Slots
    BY <1>1 DEF TypeOK
  <2>3. x \in Nat
    BY <1>1, FlashAssumption DEF Stream, flashsize
  <2>4. CASE running = 0
    <3>1. roms[running] = 2 /\ roms[running] \div Megabyte = 0
      BY <2>4, MapValues DEF Megabyte
    <3>2. mmap[1] = 0 /\ mmap[2] = 0
      BY <2>1, <3>1 DEF Window
    <3>3. 2 <= x /\ x < 2 + 240
      BY <1>1, <3>1 DEF Stream, LinkedLength
    <3>4. QED
      BY <2>3, <3>1, <3>2, <3>3 DEF Linked, Megabyte
  <2>5. CASE running = 1
    <3>1. roms[running] = 514 /\ roms[running] \div Megabyte = 2
      BY <2>5, MapValues DEF Megabyte
    <3>2. mmap[1] = 0 /\ mmap[2] = 1
      BY <2>1, <3>1 DEF Window
    <3>3. 514 <= x /\ x < 514 + 240
      BY <1>1, <3>1 DEF Stream, LinkedLength
    <3>4. QED
      BY <2>3, <3>1, <3>2, <3>3 DEF Linked, Megabyte
  <2>6. QED
    BY <2>2, <2>4, <2>5 DEF Slots
<1>2. TypeOK /\ SlotsApart => CodeMapped
  BY <1>1 DEF CodeMapped
<1>3. QED
  BY <1>2, TypeCorrect, SlotsStayApart, PTL

-----------------------------------------------------------------------------
(****************************** The writers *********************************)

\* What an update has stored stays there until it is over, but for what the settings and
\* the SDK have inside it.
LEMMA StoredNext ==
    ASSUME TypeOK, TypeOK', StreamStored, [Next]_vars
    PROVE  StreamStored'
<1> SUFFICES ASSUME up'.on, NEW x \in Stream(up'.slot, up'.done) \ Shared
             PROVE  flash'[x] = up'.img
  BY DEF StreamStored, Stream
<1>0. x \in Sectors /\ flash \in [Sectors -> Contents]
  BY DEF Stream, TypeOK
<1>1. ASSUME up' = up, flash'[x] = flash[x] PROVE flash'[x] = up'.img
  BY <1>1 DEF StreamStored
<1>2. CASE Erase \/ Write
  <2>1. \E v : flash' = [flash EXCEPT ![FLASH_PARAM_SECTOR] = v]
    BY <1>2 DEF Erase, Write
  <2>2. flash'[x] = flash[x]
    BY <1>0, <2>1 DEF Shared
  <2>3. QED
    BY <1>1, <1>2, <2>2 DEF Erase, Write
<1>3. ASSUME NEW y \in SdkSectors, SdkSave(y) PROVE flash'[x] = up'.img
  <2>1. flash'[x] = flash[x]
    BY <1>0, <1>3 DEF SdkSave, Shared
  <2>2. QED
    BY <1>1, <1>3, <2>1 DEF SdkSave
<1>4. ASSUME NEW i \in Images, rboot_ota_start(i) PROVE flash'[x] = up'.img
  <2>1. up'.slot \in Slots /\ up'.done = 0
    BY <1>4 DEF rboot_ota_start, TypeOK, Slots
  <2>2. roms[up'.slot] \in Nat /\ x \in Nat
    BY <1>0, <2>1, MapValues, FlashAssumption DEF flashsize
  <2>3. QED
    BY <2>1, <2>2 DEF Stream
<1>5. ASSUME NEW n \in Cuts, upgrade_recvcb(n) PROVE flash'[x] = up'.img
  <2>1. up'.slot = up.slot /\ up'.img = up.img /\ up'.done = n
    BY <1>5, InProgress DEF upgrade_recvcb, NoUpdate
  <2>2. QED
    BY <1>0, <1>5, <2>1 DEF upgrade_recvcb, Streamed, StreamStored
<1>6. CASE upgrade_recvcb_part
  <2>1. flash'[x] = flash[x] /\ up' = up
    BY <1>0, <1>6 DEF upgrade_recvcb_part, Begun
  <2>2. QED
    BY <1>1, <2>1
<1>7. QED
  BY <1>1, <1>2, <1>3, <1>4, <1>5, <1>6
     DEF Next, vars, Boot, user_init, Save, config_cmd_switch, rboot_ota_deinit,
         ConfigLost, PowerCut, NoUpdate

LEMMA StoredAlways == Spec => []StreamStored
<1>1. Init => StreamStored
  <2>1. NoUpdate.on = FALSE
    BY DEF NoUpdate
  <2>2. QED
    BY <2>1 DEF Init, StreamStored
<1>2. TypeOK /\ TypeOK' /\ StreamStored /\ [Next]_vars => StreamStored'
  BY StoredNext
<1>3. QED
  BY <1>1, <1>2, TypeCorrect, PTL DEF Spec

\* Every sector changes only at the hand of its owner, or of an update that has put its
\* image over everything between the start of its slot and there.
THEOREM WritersStayApart == Spec => WritersApart
<1> DEFINE Owned(x) ==
          \/ x = FLASH_PARAM_SECTOR /\ pc \in {"erase", "write"}
          \/ x \in SdkSectors /\ flash'[x] = "sdk"
          \/ /\ up.on /\ up.slot # running /\ roms[up.slot] <= x
             /\ \A y \in Sectors \ Shared :
                   roms[up.slot] <= y /\ y < x => flash'[y] = up.img
<1>1. ASSUME TypeOK, SlotsApart, StreamStored, [Next]_vars, NEW x \in Sectors, flash'[x] # flash[x]
      PROVE  Owned(x)
  <2>1. CASE Erase \/ Write
    BY <1>1, <2>1 DEF Erase, Write, TypeOK
  <2>2. ASSUME NEW y \in SdkSectors, SdkSave(y) PROVE Owned(x)
    BY <1>1, <2>2 DEF SdkSave, TypeOK
  <2>3. ASSUME NEW n \in Cuts, upgrade_recvcb(n) PROVE Owned(x)
    <3>1. /\ up.on /\ up.slot # running /\ up.slot \in Slots /\ up.done \in Nat
          /\ n \in Nat /\ roms[up.slot] \in Nat
      BY <1>1, <2>3, InProgress, FlashAssumption, MapValues DEF upgrade_recvcb, SlotsApart, flashsize
    <3>2. x \in Stream(up.slot, n)
      BY <1>1, <2>3 DEF upgrade_recvcb, Streamed
    <3>3. ASSUME NEW y \in Sectors \ Shared, roms[up.slot] <= y, y < x
          PROVE  flash'[y] = up.img
      <4>1. x \in Nat /\ y \in Nat
        BY <1>1, <3>3, FlashAssumption DEF flashsize
      <4>2. y \in Stream(up.slot, n)
        BY <3>1, <3>2, <3>3, <4>1 DEF Stream
      <4>3. y \in Stream(up.slot, up.done) => flash[y] = up.img
        BY <1>1, <3>1, <3>3 DEF StreamStored
      <4>4. QED
        BY <2>3, <4>2, <4>3 DEF upgrade_recvcb, Streamed
    <3>4. QED
      BY <3>1, <3>2, <3>3 DEF Stream
  <2>4. CASE upgrade_recvcb_part
    <3>1. /\ up.on /\ up.slot # running /\ up.slot \in Slots /\ up.done \in Nat
          /\ roms[up.slot] \in Nat
      BY <1>1, <2>4, InProgress, MapValues DEF upgrade_recvcb_part, SlotsApart, flashsize
    <3>2. x \in Stream(up.slot, up.done + 1)
      BY <1>1, <2>4 DEF upgrade_recvcb_part, Begun
    <3>3. ASSUME NEW y \in Sectors \ Shared, roms[up.slot] <= y, y < x
          PROVE  flash'[y] = up.img
      <4>1. x \in Nat /\ y \in Nat
        BY <1>1, <3>3, FlashAssumption DEF flashsize
      <4>2. y \in Stream(up.slot, up.done)
        BY <3>1, <3>2, <3>3, <4>1 DEF Stream
      <4>3. flash[y] = up.img
        BY <1>1, <3>1, <3>3, <4>2 DEF StreamStored
      <4>4. QED
        BY <2>4, <4>2, <4>3 DEF upgrade_recvcb_part, Begun
    <3>4. QED
      BY <3>1, <3>2, <3>3 DEF Stream
  <2>5. QED
    BY <1>1, <2>1, <2>2, <2>3, <2>4
       DEF Next, vars, Boot, user_init, Save, config_cmd_switch, rboot_ota_start,
           rboot_ota_deinit, ConfigLost, PowerCut
<1>2. TypeOK /\ SlotsApart /\ StreamStored /\ [Next]_vars
        => [\A x \in Sectors : flash'[x] # flash[x] => Owned(x)]_vars
  BY <1>1
<1>3. Spec => [][\A x \in Sectors : flash'[x] # flash[x] => Owned(x)]_vars
  BY <1>2, TypeCorrect, SlotsStayApart, StoredAlways, PTL DEF Spec
<1>4. QED
  BY <1>3 DEF WritersApart

-----------------------------------------------------------------------------
(************************** The abstract update ****************************)

LEMMA AbInitially == Init => Ab!Init
<1> SUFFICES ASSUME Init PROVE Ab!Init
  OBVIOUS
<1>1. PICK i \in Images : \A x \in Stream(0, Size[i]) : flash[x] = i
  BY DEF Init, Stream
<1>2. Whole(running)
  BY <1>1 DEF Init, Whole, Holds
<1>3. QED
  BY <1>2 DEF Init, Ab!Init, Slots

\* A step that keeps the ROM that executes whole, and the rest the abstract update sees,
\* overwrites the other slot or nothing.
LEMMA AbOverwrites ==
    ASSUME TypeOK, Whole(running)' <=> Whole(running),
           UNCHANGED <<current_rom, running>>, (why' = "ota") = (why = "ota")
    PROVE  Ab!Next
<1>1. running \in Slots /\ 1 - running \in Slots /\ 1 - running # running
  BY DEF TypeOK, Slots
<1>2. \A t \in Slots : t # 1 - running => t = running
  BY <1>1 DEF Slots
<1>3. Ab!Overwrite(1 - running)
  BY <1>1, <1>2 DEF Ab!Overwrite
<1>4. QED
  BY <1>1, <1>3 DEF Ab!Next

LEMMA AbStep ==
    ASSUME TypeOK, TypeOK', SlotsApart, SlotsApart', StreamStored, [Next]_vars, Apart'
    PROVE  [Ab!Next]_(Ab!abVars)
<1>0. /\ running \in Slots /\ current_rom \in Slots /\ current_rom' \in Slots
      /\ flash \in [Sectors -> Contents]
  BY DEF TypeOK
<1>00. ASSUME flash' = flash PROVE \A s \in Slots : Whole(s)' <=> Whole(s)
  BY <1>00 DEF Whole, Holds
<1>000. Whole(running) /\ Whole(running)'
  BY ApartBefore DEF SlotsApart, RomIntact
<1>0000. Whole(running)' <=> Whole(running)
  BY <1>000
<1>1. ASSUME NEW s \in Slots, Boot(s) PROVE Ab!Next
  <2>1. \A t \in Slots : Whole(t)' <=> Whole(t)
    BY <1>1, <1>00 DEF Boot
  <2>2. Ab!Boot(s)
    BY <1>0, <1>1, <2>1 DEF Boot, Ab!Boot
  <2>3. QED
    BY <2>2 DEF Ab!Next
<1>2. CASE user_init
  BY <1>2, <1>0000, AbOverwrites DEF user_init, SlotsApart
<1>3. CASE Erase
  BY <1>3, <1>0000, AbOverwrites DEF Erase
<1>4. CASE Write
  BY <1>4, <1>0000, AbOverwrites DEF Write, SlotsApart
<1>5. ASSUME NEW cmd \in {"baud", "port"}, Save(cmd) PROVE Ab!Next
  BY <1>5, <1>0000, AbOverwrites DEF Save, SlotsApart
<1>6. ASSUME NEW x \in SdkSectors, SdkSave(x) PROVE Ab!Next
  BY <1>6, <1>0000, AbOverwrites DEF SdkSave
<1>7. ASSUME config_cmd_switch \/ ConfigLost PROVE [Ab!Next]_(Ab!abVars)
  <2>1. \A t \in Slots : Whole(t)' <=> Whole(t)
    BY <1>7, <1>00 DEF config_cmd_switch, ConfigLost
  <2>2. Ab!Switch(current_rom')
    BY <1>7, <2>1 DEF config_cmd_switch, ConfigLost, Ab!Switch, SlotsApart
  <2>3. QED
    BY <1>0, <2>2 DEF Ab!Next
<1>8. ASSUME NEW i \in Images, rboot_ota_start(i) PROVE Ab!Next
  BY <1>8, <1>0000, AbOverwrites DEF rboot_ota_start
<1>9. ASSUME NEW n \in Cuts, upgrade_recvcb(n) PROVE [Ab!Next]_(Ab!abVars)
  <2>1. /\ up.slot \in Slots /\ up.slot # running /\ n \in Nat /\ up.img \in Images
        /\ reach'[up.slot] \in Nat /\ n <= reach'[up.slot]
    <3>1. up \in [on: {TRUE}, slot: Slots, img: Images, done: 0..flashsize]
      BY <1>9, InProgress DEF upgrade_recvcb
    <3>2. n \in Nat /\ Reaches(n)
      BY <1>9, FlashAssumption DEF upgrade_recvcb
    <3>3. reach'[up.slot] \in Nat /\ n <= reach'[up.slot]
      BY <3>1, <3>2 DEF Reaches, TypeOK
    <3>4. QED
      BY <1>9, <3>1, <3>2, <3>3 DEF upgrade_recvcb, SlotsApart
  <2>2. CASE n # Size[up.img]
    BY <1>9, <1>0000, <2>2, AbOverwrites DEF upgrade_recvcb
  <2>3. CASE n = Size[up.img]
    <3>1. roms[up.slot] + n <= AreaEnd[up.slot]
      <4>1. roms[up.slot] + reach'[up.slot] <= AreaEnd[up.slot]
        BY <2>1 DEF Apart
      <4>2. roms[up.slot] \in Nat /\ AreaEnd[up.slot] \in Nat
        BY <2>1, MapValues DEF AreaEnd, FLASH_PARAM_SECTOR
      <4>3. QED
        BY <2>1, <4>1, <4>2
    <3>2. ASSUME NEW x \in Stream(up.slot, n) PROVE flash'[x] = up.img
      <4>1. /\ 1 - up.slot \in Slots /\ reach'[1 - up.slot] \in Nat
            /\ roms[1 - up.slot] + reach'[1 - up.slot] <= AreaEnd[1 - up.slot]
        BY <2>1 DEF Slots, Apart, TypeOK
      <4>2. x \in Sectors /\ x \notin Shared
        BY <2>1, <3>1, <4>1, OwnArea DEF Stream
      <4>3. x \in Stream(up.slot, up.done) => flash[x] = up.img
        BY <1>9, <4>2 DEF upgrade_recvcb, StreamStored
      <4>4. QED
        BY <1>9, <4>2, <4>3 DEF upgrade_recvcb, Streamed
    <3>3. ASSUME NEW t \in Slots, t = up.slot PROVE Whole(t)'
      <4>1. \E i \in Images : \A x \in Stream(t, Size[i]) : flash'[x] = i
        BY <2>1, <2>3, <3>2, <3>3
      <4>2. QED
        BY <4>1 DEF Whole, Holds, Stream
    <3>4. /\ current_rom' \in {current_rom, up.slot} /\ why' = "ota" /\ running' = running
      BY <1>9, <2>3 DEF upgrade_recvcb
    <3>5. Ab!Succeed(up.slot)
      <4>1. \A t \in Slots : t # up.slot => t = running
        BY <1>0, <2>1 DEF Slots
      <4>2. QED
        BY <1>0, <1>0000, <2>1, <3>3, <3>4, <4>1 DEF Ab!Succeed
    <3>6. QED
      BY <2>1, <3>5 DEF Ab!Next
  <2>4. QED
    BY <2>2, <2>3
<1>10. CASE upgrade_recvcb_part
  BY <1>10, <1>0000, AbOverwrites DEF upgrade_recvcb_part
<1>11. CASE rboot_ota_deinit
  BY <1>11, <1>0000, AbOverwrites DEF rboot_ota_deinit
<1>12. CASE PowerCut
  BY <1>12, <1>0000, AbOverwrites DEF PowerCut
<1>13. CASE UNCHANGED vars
  BY <1>13, <1>0000, AbOverwrites DEF vars
<1>14. QED
  BY <1>1, <1>2, <1>3, <1>4, <1>5, <1>6, <1>7, <1>8, <1>9, <1>10, <1>11,
     <1>12, <1>13 DEF Next

\* The flash as a whole, its settings and the areas of the SDK included, implements the
\* A/B update AbUpdate states, as long as no image and no stream has left its area.
THEOREM ImplementsAbUpdate == Spec => RefinesAbUpdate
<1>1. Init => Ab!Init
  BY AbInitially
<1>2. TypeOK /\ TypeOK' /\ SlotsApart /\ SlotsApart' /\ StreamStored /\ [Next]_vars
        => [Apart' => [Ab!Next]_(Ab!abVars)]_vars
  BY AbStep
<1>3. QED
  BY <1>1, <1>2, TypeCorrect, SlotsStayApart, StoredAlways, PTL DEF Spec, RefinesAbUpdate
==============================================================================

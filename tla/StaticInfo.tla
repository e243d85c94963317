----------------------------- MODULE StaticInfo -----------------------------
(***************************************************************************)
(* The table of images and instructions the tool keeps across executions   *)
(* (src/src/core/static_info.cc): every instruction that is instrumented   *)
(* gets an identifier once and for all, the race database names            *)
(* instructions by it.  The operators map a table to a table; Sessions     *)
(* holds the table of the running tool and the one on disk.                *)
(***************************************************************************)
EXTENDS Naturals, FiniteSets, FiniteSetsExt, TLC

CONSTANTS
  Image,        \* the names of the executable and its libraries
  PseudoImage,  \* PSEUDO_IMAGE_NAME, of code that belongs to no image
  Place,        \* the instructions: where each is in the program
  ImageOf,      \* the image of a place
  OffsetOf      \* its offset in the image

ASSUME PlaceAssumption ==
  /\ PseudoImage \notin Image
  /\ ImageOf \in [Place -> Image \cup {PseudoImage}]
  /\ OffsetOf \in [Place -> Nat]
  /\ \A p, q \in Place :
       ImageOf[p] = ImageOf[q] /\ OffsetOf[p] = OffsetOf[q] => p = q

NoId == 0
NoEntries == [i \in {} |-> NoId]

\* The largest identifier in use, NoId for an empty table
LastId(table) == IF DOMAIN table = {} THEN NoId ELSE Max(DOMAIN table)

\* StaticInfoProto: what the file holds
EmptyFile == [images |-> NoEntries, insts |-> NoEntries]

\* StaticInfo's tables with the counters of the next identifiers
NoInfo == [images |-> NoEntries, insts |-> NoEntries,
           currImage |-> NoId, currInst |-> NoId]

\* FindImage by name
FindImage(info, name) ==
  LET found == {i \in DOMAIN info.images : info.images[i] = name}
  IN  IF found = {} THEN NoId ELSE CHOOSE i \in found : TRUE

CreateImage(info, name) ==
  LET id == info.currImage + 1
  IN  [info EXCEPT !.images = id :> name @@ @, !.currImage = id]

\* ImageLoad, and PostSetup for the pseudo image: one entry per name
KnowImage(info, name) ==
  IF FindImage(info, name) # NoId THEN info ELSE CreateImage(info, name)

\* Inst, without what is printed of it
InstOf(image, offset) == [image |-> image, offset |-> offset]

\* Image::Find
FindAt(info, image, offset) ==
  LET found == {i \in DOMAIN info.insts :
                  info.insts[i] = InstOf(image, offset)}
  IN  IF found = {} THEN NoId ELSE CHOOSE i \in found : TRUE

CreateInst(info, image, offset) ==
  LET id == info.currInst + 1
  IN  [info EXCEPT !.insts = id :> InstOf(image, offset) @@ @,
                   !.currInst = id]

\* GetInst: the instruction's entry, made when it is first instrumented
KnowInst(info, place) ==
  LET image == FindImage(info, ImageOf[place])
  IN  IF FindAt(info, image, OffsetOf[place]) # NoId
        THEN info
        ELSE CreateInst(info, image, OffsetOf[place])

InstAt(info, place) ==
  FindAt(info, FindImage(info, ImageOf[place]), OffsetOf[place])

\* Load and Save of StaticInfo: the counters continue after the file's
LoadInfo(file) ==
  [images |-> file.images, insts |-> file.insts,
   currImage |-> LastId(file.images), currInst |-> LastId(file.insts)]

InfoFile(info) == [images |-> info.images, insts |-> info.insts]

\* The place an identifier stands for in a file, if the file knows it
Names(file, inst, place) ==
  inst \in DOMAIN file.insts =>
    LET at == file.insts[inst]
    IN  /\ at.offset = OffsetOf[place]
        /\ at.image \in DOMAIN file.images
        /\ file.images[at.image] = ImageOf[place]
=============================================================================

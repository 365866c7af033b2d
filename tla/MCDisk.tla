------------------------------ MODULE MCDisk ------------------------------
(* Images of up to three slots, whole or damaged in one place, by themselves *)
(* or in archives of one or two members; headers that say to be shorter or   *)
(* longer than what is used of them, up to more than there is.               *)
EXTENDS Disk

Slots == {<<0, 0>>, <<1, 3>>, <<1, 4>>, <<2, 5>>}
SlotLists == UNION {[1..n -> Slots] : n \in 1..3}
Table == <<<<0, 0>>, <<1, 4>>, <<2, 5>>>>
Intact == {Partitioned(slots, size, lba, 7, 0) :
             slots \in SlotLists, size \in {2, 4, 8}, lba \in {2, 3}}
          \cup {Partitioned(Table, 4, 3, header_size, reserved) :
                  header_size \in 2..9, reserved \in {0, 1}}

\* One field of the header, or one cell of what follows, is not what it was, or
\* the image ends early.  Where the checksum does not cover the count, a shorter
\* table may pass for the one that was made.
DamagedImages(image) ==
  {[image EXCEPT !.header = h, !.intact = FALSE] : h \in
     {[image.header EXCEPT !.signature = FALSE], [image.header EXCEPT !.entry_lba = 0],
      [image.header EXCEPT !.size = @ + 1], [image.header EXCEPT !.size = @ - 1],
      [image.header EXCEPT !.entry_lba = @ + 1], [image.header EXCEPT !.count = 0],
      [image.header EXCEPT !.count = @ - 1], [image.header EXCEPT !.entry_size = 6],
      [image.header EXCEPT !.entry_size = @ * 2],
      [image.header EXCEPT !.count = @ - 1,
                           !.array_crc = SubSeq(@, 1, Len(@) - image.header.entry_size)],
      [image.header EXCEPT !.crc = <<>>], [image.header EXCEPT !.array_crc = <<>>]}
     \cup (IF image.header.size < 8 THEN {} ELSE {[image.header EXCEPT !.reserved = 1 - @]})}
  \cup {[image EXCEPT !.data[i] = 1 - @, !.intact = FALSE] :
          i \in (image.header.entry_lba - 1)..Len(image.data)}
  \cup {[image EXCEPT !.data = SubSeq(@, 1, Len(@) - 1), !.intact = FALSE]}
  \cup {[image EXCEPT !.header.length = length, !.data = <<>>, !.intact = FALSE] :
          length \in {0, 6, 7, 8}}
Some == {Partitioned(Table, 4, 3, 7, 0), Partitioned(<<<<2, 5>>>>, 2, 2, 8, 1)}
ToDamage == Some \cup {Partitioned(Table, 4, 3, 4, 0), Partitioned(Table, 4, 3, 6, 0)}
Images == Intact \cup UNION {DamagedImages(image) : image \in ToDamage}

M(raw, file, inside, declared, length, image) ==
  [raw |-> raw, file |-> file, inside |-> inside,
   declared |-> declared, length |-> length, image |-> image]
RawDisks == {[archive |-> FALSE, readable |-> TRUE,
              members |-> <<M(TRUE, TRUE, TRUE, 0, 0, image)>>] : image \in Images}
Members == {M(raw, file, inside, declared, length, image) :
              raw \in BOOLEAN, file \in BOOLEAN, inside \in BOOLEAN,
              declared \in {1, 5, 6}, length \in {0, 4, 5, 7}, image \in Some}
Archives == {[archive |-> TRUE, readable |-> readable, members |-> ms] :
               readable \in BOOLEAN,
               ms \in {<<>>} \cup {<<m>> : m \in Members}
                        \cup {<<m, n>> : m, n \in {x \in Members : x.file /\ x.inside}}}
MCInputs == RawDisks \cup Archives
=============================================================================

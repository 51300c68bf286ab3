------------------------------- MODULE MCZns -------------------------------
(* IOWorkerLba and Zns on 11 blocks, 9 of them in the checksum table,
   with 3 sections: one size or several, aligned or not, inside and beyond
   the namespace, with steps both ways and with bad LBAs; and zones of two
   blocks, four apart. *)
EXTENDS Zns

IoSize(s, a) == [size |-> s, ratio |-> 1, align |-> a]

Default == [lba_start |-> 0, lba_step_valid |-> FALSE, lba_step |-> 0,
            sizes |-> <<IoSize(2, 1)>>, lba_random |-> 0,
            region_start |-> 0, region_end |-> 8, io_count |-> 0,
            distribution |-> <<>>, bad |-> {}, time |-> 0, zoned |-> FALSE]

Regions == {<<0, 8>>, <<1, 8>>, <<3, 10>>, <<4, 9>>, <<0, 11>>, <<2, 15>>}

SizeLists == {<<IoSize(1, 1)>>, <<IoSize(2, 1)>>, <<IoSize(3, 1)>>,
              <<IoSize(2, 2)>>, <<IoSize(4, 2)>>, <<IoSize(3, 2)>>,
              <<IoSize(1, 2)>>, <<IoSize(1, 1), IoSize(3, 2)>>,
              <<IoSize(2, 2), [size |-> 4, ratio |-> 2, align |-> 4]>>,
              <<IoSize(2, 2), IoSize(3, 3)>>}

Bads == {{}, {0}, {2, 3}, {7}, {5, 6, 7, 8}}

Sequential ==
    {[Default EXCEPT !.sizes = s, !.region_start = r[1], !.region_end = r[2],
                     !.bad = b, !.lba_start = l] :
       s \in SizeLists, r \in Regions, b \in Bads, l \in {0, 5}}

Mixed ==
    {[Default EXCEPT !.sizes = s, !.region_start = r[1], !.region_end = r[2],
                     !.lba_random = p, !.io_count = 3, !.bad = b] :
       s \in SizeLists, r \in {<<1, 8>>, <<3, 10>>}, p \in {50, 100},
       b \in {{}, {2, 3}}}

Stepping ==
    {[Default EXCEPT !.lba_step_valid = TRUE, !.lba_step = d, !.io_count = 4,
                     !.region_start = 3, !.region_end = 9, !.sizes = s] :
       d \in {-2, 0, 4, 9}, s \in {<<IoSize(2, 1)>>, <<IoSize(2, 2)>>}}

Distributed ==
    {[Default EXCEPT !.distribution = w, !.lba_random = 100, !.io_count = 2,
                     !.region_end = FULL, !.sizes = s] :
       w \in {<<1, 0, 2>>, <<0, 3, 0>>, <<0, 0, 3>>},
       s \in {<<IoSize(1, 1)>>, <<IoSize(2, 2)>>}}

(* Aligning the start leaves no region, or one of no blocks. *)
Inverted ==
    {[Default EXCEPT !.sizes = <<IoSize(4, 4)>>, !.lba_random = 50,
                     !.region_start = 5, !.region_end = e, !.io_count = 2] :
       e \in {7, 8}}

(* elba is the end of the capacity, or given. *)
Zoned ==
    {[Default EXCEPT !.zoned = TRUE, !.time = 10, !.sizes = s, !.lba_start = r[1],
                     !.region_start = r[1], !.region_end = r[2]] :
       s \in {<<IoSize(1, 1)>>, <<IoSize(2, 1)>>, <<IoSize(3, 1)>>},
       r \in {<<0, 2>>, <<4, 6>>, <<0, 8>>, <<4, 8>>}}

MCArgs ==
    Zoned \cup Sequential \cup Mixed \cup Stepping \cup Distributed \cup Inverted
=============================================================================

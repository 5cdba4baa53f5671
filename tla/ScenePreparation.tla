-------------------------- MODULE ScenePreparation --------------------------
(***************************************************************************)
(* What becomes of the Gaussians of a scene: the export as tiles, layers   *)
(* and objects (prepare_player_sh3.py) with its manifest, what the player  *)
(* accepts of a manifest (run_camera_trace_player.py), and the conversion  *)
(* to parts of 32-byte records (convert_3dgs_ply_to_splat.py).             *)
(*                                                                         *)
(* Operators only.  A source is a sequence of Gaussians, each a position   *)
(* with integer coordinates and an opacity; Gaussians are named by their   *)
(* index in it.  The encoding of an object is left out.                    *)
(***************************************************************************)
EXTENDS Integers, Sequences, SequencesExt, FiniteSetsExt

CONSTANTS
    Grid,           \* cells along each axis
    Fractions,      \* weights of the layers
    TileLimit,      \* --max-tile-gaussians, 0 for none
    Chunk,          \* --chunk-gaussians
    PartLimit,      \* --part-splats, 0 for none
    ReadSize        \* --chunk-size of the conversion

ASSUME PreparationAssumption ==
    /\ Grid \in Seq(Nat \ {0}) /\ Fractions \in Seq(Nat \ {0}) /\ Fractions # <<>>
    /\ TileLimit \in Nat /\ Chunk \in Nat \ {0} /\ PartLimit \in Nat /\ ReadSize \in Nat \ {0}

Smaller(a, b) == IF a <= b THEN a ELSE b
Axes == DOMAIN Grid

(* argsort(kind='stable') of names by their keys.                          *)
StableSort(names, key) ==
    LET Before(i, j) == \/ key[names[i]] < key[names[j]]
                        \/ key[names[i]] = key[names[j]] /\ i < j
        order == SortSeq([i \in DOMAIN names |-> i], Before)
    IN FoldLeft(LAMBDA sorted, i : Append(sorted, names[i]), <<>>, order)

Descending(source) == [i \in DOMAIN source |-> -source[i].opacity]

----------------------------------------------------------------------------
(* Tiles                                                                   *)

Along(source, names, a) == {source[names[i]].at[a] : i \in DOMAIN names}
Extent(source, names, a) == Max(Along(source, names, a)) - Min(Along(source, names, a))

Everything(source) == [i \in DOMAIN source |-> i]

(* The highest coordinate belongs to the last cell.                        *)
Cell(source, i) ==
    LET Coordinate(a) ==
            LET span == Extent(source, Everything(source), a)
                low == Min(Along(source, Everything(source), a))
            IN IF span = 0 THEN 0
               ELSE Smaller(Grid[a] - 1, ((source[i].at[a] - low) * Grid[a]) \div span)
    IN FoldLeftDomain(LAMBDA cell, a : cell * Grid[a] + Coordinate(a), 0, Grid)

Cells(source) == SetToSortSeq({Cell(source, i) : i \in DOMAIN source}, <)

WidestAxis(source, names) ==
    CHOOSE a \in Axes : \A b \in Axes :
        \/ Extent(source, names, b) < Extent(source, names, a)
        \/ Extent(source, names, b) = Extent(source, names, a) /\ a <= b

(* A cell with too many Gaussians is halved along its widest axis.         *)
Halves(source, names) ==
    LET half[part \in Seq(DOMAIN source)] ==
            IF TileLimit = 0 \/ Len(part) <= TileLimit THEN <<part>>
            ELSE LET position == [i \in DOMAIN source |-> source[i].at[WidestAxis(source, part)]]
                     ordered == StableSort(part, position)
                     middle == Len(ordered) \div 2
                 IN half[SubSeq(ordered, 1, middle)] \o half[SubSeq(ordered, middle + 1, Len(ordered))]
    IN half[names]

Tiles(source) ==
    LET Inside(c) == SelectSeq(Everything(source), LAMBDA i : Cell(source, i) = c)
    IN FoldLeft(LAMBDA tiles, c : tiles \o Halves(source, Inside(c)), <<>>, Cells(source))

----------------------------------------------------------------------------
(* Layers and objects of a tile                                            *)

Weight(k) == SumFunctionOnSet(Fractions, 1..k)

(* The last layer ends with the tile, whatever rounding did before.        *)
End(n, k) ==
    IF k = Len(Fractions) THEN n
    ELSE (2 * n * Weight(k) + Weight(Len(Fractions))) \div (2 * Weight(Len(Fractions)))

M_Layers(source, names) ==
    [k \in DOMAIN Fractions |->
        SubSeq(names, 1 + (IF k = 1 THEN 0 ELSE End(Len(names), k - 1)), End(Len(names), k))]
Layers(source, names) ==
    LET sorted == StableSort(names, Descending(source))
    IN [k \in DOMAIN Fractions |->
           SubSeq(sorted, 1 + (IF k = 1 THEN 0 ELSE End(Len(sorted), k - 1)), End(Len(sorted), k))]

M_Objects(layer) ==
    [j \in 1..(Len(layer) \div Chunk) |->
        SubSeq(layer, (j - 1) * Chunk + 1, Smaller(j * Chunk, Len(layer)))]
Objects(layer) ==
    [j \in 1..((Len(layer) + Chunk - 1) \div Chunk) |->
        SubSeq(layer, (j - 1) * Chunk + 1, Smaller(j * Chunk, Len(layer)))]

(* round(255 * id / max(1, count - 1)), a half to the even number.         *)
PublisherPriority(id, count) ==
    LET d == IF count > 1 THEN count - 1 ELSE 1
        q == (255 * id) \div d
        twice == 2 * ((255 * id) % d)
    IN IF twice > d \/ (twice = d /\ q % 2 = 1) THEN q + 1 ELSE q

(* For each tile and each layer, the objects.                              *)
Export(source) ==
    LET Refinements(layers) ==
            FoldLeft(LAMBDA done, layer : Append(done, Objects(layer)), <<>>, layers)
    IN FoldLeft(LAMBDA done, names : Append(done, Refinements(Layers(source, names))),
                <<>>, Tiles(source))

Count(objects) == FoldLeft(LAMBDA n, o : n + Len(o), 0, objects)

Manifest(source) ==
    LET export == Export(source)
        tiles == Tiles(source)
    IN [gaussians |-> Len(source), occupied |-> Len(export),
        tiles |-> [t \in DOMAIN export |->
           [count |-> Len(tiles[t]),
            refinements |-> [k \in DOMAIN Fractions |->
               [index |-> k - 1, count |-> Count(export[t][k]), track |-> <<t, k - 1>>,
                priorities |-> [j \in DOMAIN export[t][k] |->
                                   PublisherPriority(j - 1, Len(export[t][k]))]]]]]]

----------------------------------------------------------------------------
(* validate_manifest; a track stands for the file as well                  *)

ValidManifest(m) ==
    LET total(t) == SumFunction([k \in DOMAIN m.tiles[t].refinements |-> m.tiles[t].refinements[k].count])
        named == (DOMAIN m.tiles) \X (1..4)
    IN /\ Len(m.tiles) = m.occupied
       /\ \A t \in DOMAIN m.tiles :
             /\ [k \in DOMAIN m.tiles[t].refinements |-> m.tiles[t].refinements[k].index] = <<0, 1, 2, 3>>
             /\ total(t) = m.tiles[t].count
       /\ Cardinality({m.tiles[x[1]].refinements[x[2]].track : x \in named}) = Cardinality(named)
       /\ SumFunction([t \in DOMAIN m.tiles |-> m.tiles[t].count]) = m.gaussians

----------------------------------------------------------------------------
(* The conversion: parts as sequences of names                             *)

Ordered(source) == StableSort(Everything(source), Descending(source))

(* As many at a time as are read, are left, and fit into the part.         *)
M_Take(left, used) == Smaller(ReadSize, left)
Take(left, used) ==
    LET some == Smaller(ReadSize, left)
    IN IF PartLimit > 0 THEN Smaller(some, PartLimit - used) ELSE some

NeedsPart(parts) == parts = <<>> \/ (PartLimit > 0 /\ Len(Last(parts)) >= PartLimit)

(* One pass of the loop: it opens a part if it needs one, and writes to it. *)
Pass(names, acc) ==
    IF acc.start = Len(names) THEN acc
    ELSE LET parts == IF NeedsPart(acc.parts) THEN Append(acc.parts, <<>>) ELSE acc.parts
             n == Take(Len(names) - acc.start, Len(parts[Len(parts)]))
         IN [start |-> acc.start + n,
             parts |-> [parts EXCEPT ![Len(parts)] =
                           @ \o SubSeq(names, acc.start + 1, acc.start + n)]]

(* Each pass writes something, so as many passes as there are names do.    *)
Written(names) ==
    LET pass[i \in 0..Len(names)] ==
            IF i = 0 THEN [start |-> 0, parts |-> <<>>] ELSE Pass(names, pass[i - 1])
    IN pass[Len(names)].parts

Parts(source) == Written(Ordered(source))

=============================================================================

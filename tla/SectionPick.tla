----------------------------- MODULE SectionPick -----------------------------
(***************************************************************************)
(* What the pointer finds in the two silicon views, and their vertical     *)
(* cross-section: the ray through the drawn chunks (lib/silicon-parts.ts   *)
(* pickChunk; castRay of silicon/layout-engine.ts for the A1 layout and of *)
(* silicon/inspector.ts for the model), the plane that follows the camera, *)
(* and the caps drawn where it cuts the pieces.  And what a piece of the   *)
(* model that does not record its part is taken for (identifyPrimitive),   *)
(* beside what the generator of lib/silicon-macro.ts draws it for.         *)
(*                                                                         *)
(* Lengths are whole numbers and rays run along the axes or a diagonal of  *)
(* two, so that a ray enters a box at a whole distance; nothing ends in    *)
(* the plane; the crater is square; a cap is as thin as can be, and is     *)
(* told apart from the plane by the side it stands on.                     *)
(***************************************************************************)
EXTENDS Integers, FiniteSetsExt, SequencesExt

CONSTANTS
  Pictures,  \* [engine, records, statics]: what is drawn, in the order it is kept
  Looks,     \* [orbit, forward, distance, shown, crater]: the camera's views
  Rays,      \* <<origin, direction>>
  Cull,      \* radius of the sphere around the camera that is not drawn
  Far        \* bound: the length of a ray

VARIABLES
  picture, look,
  sectionOn, section,
  sectionStamp, capEps,
  caps,       \* each record's capStamp and caps
  faceCaps    \* the substrate's or package's, and the stamp they are placed for

sectionVars == <<sectionOn, section, sectionStamp, capEps>>
pickVars == <<picture, look, sectionVars, caps, faceCaps>>

Records == picture.records
Miss == [t |-> -1]
NoStamp == <<>>
NoFaces == [stamp |-> NoStamp, faces |-> {}]
NoCaps == [stamp |-> NoStamp, cuts |-> {}]
Axes == 1 .. 3   \* x, y, z
Side(axis) == IF axis = 1 THEN 3 ELSE 1
Distant(a, b) == IF a < b THEN b - a ELSE a - b
----------------------------------------------------------------------------
(* A ray through one chunk.                                                *)

\* slabEnter: where a ray enters a box within [t0, t1], or -1.
slabEnter(o, d, lo, hi, t0, t1) ==
  LET moving == {i \in Axes : d[i] # 0}
      a(i) == (lo[i] - o[i]) * d[i]
      b(i) == (hi[i] - o[i]) * d[i]
      enter == Max({t0} \cup {Min({a(i), b(i)}) : i \in moving})
      leave == Min({t1} \cup {Max({a(i), b(i)}) : i \in moving})
      beside == \E i \in Axes \ moving : o[i] < lo[i] \/ o[i] > hi[i]
  IN  IF beside \/ enter > leave THEN -1 ELSE enter

\* cylinderEnter: through the side, or through a cap; from within the side
\* (of where the ray starts, not of where it is looked at from) at t0.
cylinderEnter(o, d, lo, hi, t0, t1) ==
  LET r == (hi[1] - lo[1]) \div 2
      px == o[1] - (lo[1] + r)
      pz == o[3] - (lo[3] + r)
      level(t) == lo[2] <= o[2] + t * d[2] /\ o[2] + t * d[2] <= hi[2]
      b == 2 * (px * d[1] + pz * d[3])
      c == px * px + pz * pz - r * r
      square == b * b - 4 * c
      roots == {root \in 0 .. 2 * (Distant(b, 0) + r) : root * root = square}
      sides == IF d[1] = 0 /\ d[3] = 0 THEN {}
               ELSE {t \in UNION {{(-b - root) \div 2, (-b + root) \div 2} : root \in roots} : t0 <= t /\ t <= t1 /\ level(t)}
                      \cup (IF roots # {} /\ c <= 0 /\ level(t0) THEN {t0} ELSE {})
      ends == IF d[2] = 0 THEN {}
              ELSE {t \in {(lo[2] - o[2]) * d[2], (hi[2] - o[2]) * d[2]} :
                      /\ t0 <= t /\ t <= t1
                      /\ (px + t * d[1]) ^ 2 + (pz + t * d[3]) ^ 2 <= r * r}
  IN  IF sides \cup ends = {} THEN -1 ELSE Min(sides \cup ends)

At(o, d, t) == [i \in Axes |-> o[i] + t * d[i]]

\* craterCleared: what the delayering crater of this look removes.
craterCleared(p) ==
  look.crater # {} /\
    LET c == CHOOSE c \in look.crater : TRUE
    IN  p[2] > c.floor + Max({0, Max({Distant(p[1], c.x), Distant(p[3], c.z)}) - c.radius})

\* pickChunk: the nearest piece of a chunk that the ray enters, not in the
\* crater; batches is what of the chunk is looked at.
Room(half) == half + (12 * half) \div 100
pickChunk(chunk, batches, o, d, t0, t1) ==
  LET own == [o EXCEPT ![1] = @ - chunk.origin[1], ![3] = @ - chunk.origin[2]]
      lo == <<-Room(chunk.half[1]), chunk.yMin, -Room(chunk.half[2])>>
      hi == <<Room(chunk.half[1]), chunk.yMax, Room(chunk.half[2])>>
      order == FlattenSeq([b \in DOMAIN batches |-> [k \in DOMAIN batches[b].pieces |-> <<b, k>>]])
      nearer(best, at) ==
        LET batch == batches[at[1]]
            piece == batch.pieces[at[2]]
            limit == IF best = Miss THEN t1 ELSE best.t
            t == IF batch.shape = "box" THEN slabEnter(own, d, piece.lo, piece.hi, t0, limit)
                                        ELSE cylinderEnter(own, d, piece.lo, piece.hi, t0, limit)
        IN  IF t < 0 \/ craterCleared(At(o, d, t)) THEN best ELSE [t |-> t, batch |-> at[1], index |-> at[2]]
  IN  IF slabEnter(own, d, lo, hi, t0, t1) < 0 THEN Miss ELSE FoldLeft(nearer, Miss, order)
----------------------------------------------------------------------------
(* A ray through the scene.                                                *)

\* The part of a ray on the kept side of the section, or nothing of it.
OnKeptSide(p) == sectionOn => section.keep * (p[section.axis] - section.value) >= 0
KeptPart(o, d) ==
  LET d0 == section.keep * (o[section.axis] - section.value)
      dn == section.keep * d[section.axis]
  IN  IF ~sectionOn THEN <<0, Far>>
      ELSE IF d0 < 0 THEN IF dn <= 0 THEN <<0, -1>> ELSE <<-d0, Far>>
      ELSE IF dn < 0 THEN <<0, Min({Far, d0})>> ELSE <<0, Far>>

\* "The cell outlines are hidden from picking once the cells' own shapes have
\* replaced them": a record's batches that count, by number.
IsOutline(batch) == batch.material \in {"logic", "sequential", "clockcell", "physical"}
AllBatches(record) == [b \in DOMAIN record.batches |-> b]
withoutOutlines(record) == SelectSeq(AllBatches(record), LAMBDA b : ~IsOutline(record.batches[b]))
levelVisible(record) == record.level \in look.shown /\ record.up
Pickable(record) ==
  IF picture.engine = "layout" /\ record.level = "tile" /\ "footprint" \notin look.shown
  THEN withoutOutlines(record) ELSE AllBatches(record)

\* The surfaces that are meshes of their own: the substrate, or the package's
\* parts, and their cut faces, a hair behind the plane seen from the cut.
Faces(o, d, near, far) ==
  LET boxes == {s \in picture.statics : slabEnter(o, d, s.lo, s.hi, -Far, far) >= near}
      plane == (section.value - o[section.axis]) * d[section.axis]
      met == IF plane = near /\ near > 0 THEN near < far ELSE near <= plane /\ plane <= far
      cut == {s \in faceCaps.faces : d[section.axis] # 0 /\ met /\ slabEnter(o, d, s.lo, s.hi, plane, plane) = plane}
  IN  {<<slabEnter(o, d, s.lo, s.hi, -Far, far), s.part>> : s \in boxes} \cup {<<plane, s.part>> : s \in cut}
Foremost(faces) == CHOOSE f \in faces : \A g \in faces : f[1] <= g[1]
FaceHit(face) == [t |-> face[1], part |-> face[2]]

\* Mistake: the place in the batches looked at is taken for the batch's number.
BatchLookedAt(record, hit) == hit.batch

batchOf(record, hit) == Pickable(record)[hit.batch]

LookedAt(record) == [b \in DOMAIN Pickable(record) |-> record.batches[Pickable(record)[b]]]
farthest(best, part) == IF best = Miss THEN part[2] ELSE best.t
Nearer(best, r, hit) ==
  IF ~levelVisible(Records[r]) \/ hit = Miss THEN best
  ELSE [t |-> hit.t, record |-> r, batch |-> batchOf(Records[r], hit), index |-> hit.index]
Through(o, d, part) ==
  LET pick(best, r) ==
        Nearer(best, r, pickChunk(Records[r], LookedAt(Records[r]), o, d, Max({part[1], Cull}), farthest(best, part)))
  IN  FoldLeft(pick, Miss, [r \in DOMAIN Records |-> r])

\* castRay of the layout view: a face in front of the nearest piece wins if it
\* is on the kept side.
layoutCast(o, d, part, best, faces) ==
  IF part[1] > part[2] THEN Miss
  ELSE IF faces # {} /\ OnKeptSide(At(o, d, Foremost(faces)[1])) THEN FaceHit(Foremost(faces))
  ELSE best

\* castRay of the model's inspector: the first face on the kept side.
inspectorCast(part, best, faces) ==
  IF part[1] > part[2] THEN Miss
  ELSE IF faces # {} /\ (best = Miss \/ Foremost(faces)[1] < best.t) THEN FaceHit(Foremost(faces))
  ELSE best

Cast(o, d, part, best, faces) ==
  IF picture.engine = "layout" THEN layoutCast(o, d, part, best, faces)
  ELSE inspectorCast(part, best, {f \in faces : OnKeptSide(At(o, d, f[1]))})
CastBefore(o, d, part, best) == Cast(o, d, part, best, Faces(o, d, part[1], farthest(best, part)))
castWithin(o, d, part) == CastBefore(o, d, part, Through(o, d, part))
castRay(o, d) == castWithin(o, d, KeptPart(o, d))
----------------------------------------------------------------------------
(* The section.                                                            *)

\* Where a plane cuts a piece, along the other axis and up: only what it
\* crosses, and a cylinder along its chord.
Chord(half, away) == Max({n \in 0 .. half : n * n <= half * half - away * away})
CutsOf(record, plane) ==
  LET axis == plane.axis
      other == Side(axis)
      v == plane.value - record.origin[IF axis = 1 THEN 1 ELSE 2]
      base == record.origin[IF axis = 1 THEN 2 ELSE 1]
      crossed(piece) == piece.lo[axis] < v /\ v < piece.hi[axis]
      middle(piece) == (piece.lo[other] + piece.hi[other]) \div 2
      half(piece) == (piece.hi[axis] - piece.lo[axis]) \div 2
      chord(piece) == Chord(half(piece), Distant(piece.lo[axis] + half(piece), v))
  IN  UNION {LET batch == record.batches[b]
             IN  {[u0 |-> base + (IF batch.shape = "box" THEN piece.lo[other] ELSE middle(piece) - chord(piece)),
                   u1 |-> base + (IF batch.shape = "box" THEN piece.hi[other] ELSE middle(piece) + chord(piece)),
                   y0 |-> piece.lo[2], y1 |-> piece.hi[2], side |-> plane.keep] :
                    piece \in {p \in ToSet(batch.pieces) : crossed(p)}} : b \in DOMAIN record.batches}

CapStamp(on, stamp, eps) == IF on THEN <<stamp, eps>> ELSE NoStamp

\* capsFor: a record's caps are made again when their stamp is not the present.
capsFor(record, had, on, plane, stamp, eps) ==
  LET now == CapStamp(on, stamp, eps)
  IN  IF had.stamp = now THEN had
      ELSE [stamp |-> now, cuts |-> IF on THEN CutsOf(record, plane) ELSE {}]

\* updateSection: the plane turns to face the camera, with some give, and moves
\* when the target has left it; the model's snaps to what there is to see.
Snapped(v) == 4 * (v \div 4) + 1
AlongX(l) ==
  LET fx == Distant(l.forward[1], 0)
      fz == Distant(l.forward[2], 0)
  IN  IF section.axis = 1 THEN 5 * fx > 4 * fz ELSE 4 * fx > 5 * fz
NextSection(l) ==
  LET axis == IF AlongX(l) THEN 1 ELSE 3
      keep == IF (IF axis = 1 THEN l.forward[1] ELSE l.forward[2]) >= 0 THEN 1 ELSE -1
      at == IF axis = 1 THEN l.orbit[1] ELSE l.orbit[2]
      recut == axis # section.axis \/ keep # section.keep \/ 10 * Distant(at, section.value) > 3 * l.distance
  IN  IF recut THEN [axis |-> axis, keep |-> keep, value |-> IF picture.engine = "layout" THEN at ELSE Snapped(at)]
      ELSE section
NextEps(l, eps) ==
  IF NextSection(l) # section \/ eps = 0 \/ l.distance > 4 * eps \/ 4 * l.distance < eps THEN l.distance ELSE eps

\* Mistake: the stamp forgets which side is kept.
StampOfPlane(plane) == <<plane.axis, plane.value>>
StampOf(plane) == <<plane.axis, plane.keep, plane.value>>

\* The layout's substrate has one cut face, wherever the plane is; of the
\* package, every part that the plane crosses.
placeSubstrateCap(plane, stamp, eps) == [stamp |-> CapStamp(TRUE, stamp, eps), faces |-> picture.statics]
rebuildStaticCaps(plane, stamp, eps) ==
  [stamp |-> CapStamp(TRUE, stamp, eps),
   faces |-> {s \in picture.statics : s.lo[plane.axis] < plane.value /\ plane.value < s.hi[plane.axis]}]

updateSection(l, on, eps) ==
  IF on
  THEN /\ section' = NextSection(l)
       /\ capEps' = NextEps(l, eps)
       /\ sectionStamp' = StampOf(section')
       /\ faceCaps' = IF picture.engine = "layout" THEN placeSubstrateCap(section', sectionStamp', capEps')
                      ELSE IF faceCaps.stamp = CapStamp(TRUE, sectionStamp', capEps') THEN faceCaps
                      ELSE rebuildStaticCaps(section', sectionStamp', capEps')
  ELSE /\ sectionStamp' = NoStamp /\ capEps' = eps /\ faceCaps' = NoFaces
       /\ UNCHANGED section

PickInit ==
  /\ picture \in Pictures /\ look \in Looks
  /\ sectionOn = FALSE /\ section = [axis |-> 1, keep |-> 1, value |-> 1]
  /\ sectionStamp = NoStamp /\ capEps = 0 /\ faceCaps = NoFaces
  /\ caps = [r \in DOMAIN Records |-> NoCaps]

\* A frame: the camera has moved, the section follows, and the first records
\* are capped, as many as the frame's budget lets through.
SectionFrame ==
  \E l \in Looks, n \in 0 .. Len(Records) :
    /\ look' = l
    /\ updateSection(l, sectionOn, capEps)
    /\ caps' = [r \in DOMAIN Records |->
                  IF r <= n THEN capsFor(Records[r], caps[r], sectionOn, section', sectionStamp', capEps') ELSE caps[r]]
    /\ UNCHANGED <<picture, sectionOn>>

\* Mistake: switching the section off leaves the caps to the next frames.
SwitchLazily ==
  /\ sectionOn' = ~sectionOn
  /\ updateSection(look, ~sectionOn, 0)
  /\ UNCHANGED <<picture, look, caps>>

SwitchSection ==
  /\ sectionOn' = ~sectionOn
  /\ updateSection(look, ~sectionOn, 0)
  /\ caps' = IF sectionOn THEN [r \in DOMAIN Records |-> capsFor(Records[r], caps[r], FALSE, section', sectionStamp', capEps')]
             ELSE caps
  /\ UNCHANGED <<picture, look>>

PickNext == SectionFrame \/ SwitchSection
PickSpec == PickInit /\ [][PickNext]_pickVars
----------------------------------------------------------------------------
\* The pieces of a picture, where they are in the world.
PieceOf(pic, p) == pic.records[p[1]].batches[p[2]].pieces[p[3]]
IsBox(pic, p) == pic.records[p[1]].batches[p[2]].shape = "box"
Holds(pic, p, at) ==
  LET origin == pic.records[p[1]].origin
      own == [at EXCEPT ![1] = @ - origin[1], ![3] = @ - origin[2]]
      piece == PieceOf(pic, p)
      r == (piece.hi[1] - piece.lo[1]) \div 2
  IN  /\ piece.lo[2] <= own[2] /\ own[2] <= piece.hi[2]
      /\ IF IsBox(pic, p) THEN \A i \in {1, 3} : piece.lo[i] <= own[i] /\ own[i] <= piece.hi[i]
         ELSE (own[1] - piece.lo[1] - r) ^ 2 + (own[3] - piece.lo[3] - r) ^ 2 <= r * r
AllPieces(pic) ==
  UNION {{<<r, b, k>> : k \in DOMAIN pic.records[r].batches[b].pieces} :
           <<r, b>> \in UNION {{q} \X DOMAIN pic.records[q].batches : q \in DOMAIN pic.records}}

\* Where along a ray a piece is, for the pieces the ray meets at all.
Spans ==
  [pic \in Pictures |->
     [ray \in Rays |->
        {span \in {[of |-> p, at |-> {t \in 0 .. Far : Holds(pic, p, At(ray[1], ray[2], t))}] : p \in AllPieces(pic)} :
           span.at # {}}]]

IsDrawn(p) == levelVisible(Records[p[1]]) /\ p[2] \in ToSet(Pickable(Records[p[1]]))

\* A piece that reaches out of its chunk's room is only found within it.
InItsRoom(p, at) ==
  LET chunk == Records[p[1]]
  IN  /\ Distant(at[1], chunk.origin[1]) <= Room(chunk.half[1])
      /\ Distant(at[3], chunk.origin[2]) <= Room(chunk.half[2])

HitIsFirst(hit, seen, faces) ==
  LET first == {e.t : e \in seen} \cup {f[1] : f \in faces}
  IN  IF first = {} THEN hit = Miss
      ELSE /\ hit.t = Min(first)
           /\ IF "record" \in DOMAIN hit
              THEN [of |-> <<hit.record, hit.batch, hit.index>>, t |-> hit.t] \in seen
              ELSE <<hit.t, hit.part>> \in faces
RayIsRight(ray, part, t0) ==
  LET o == ray[1]
      d == ray[2]
      met == {s \in Spans[picture][ray] : IsDrawn(s.of) /\ \E t \in s.at : t0 <= t /\ t <= part[2]}
      entries == {[of |-> s.of, t |-> Min({t \in s.at : t0 <= t})] : s \in met}
      seen == {e \in entries : ~craterCleared(At(o, d, e.t)) /\ InItsRoom(e.of, At(o, d, e.t))}
      within == \E s \in met : ~IsBox(picture, s.of) /\ t0 \in s.at
  IN  part[1] <= part[2] /\ ~within => HitIsFirst(castRay(o, d), seen, Faces(o, d, part[1], part[2]))

\* The pointer finds what is drawn in front: the first piece that the kept
\* part of its ray enters, in whatever order the chunks came, or a face before
\* it.  Not so of a ray whose kept part starts within a cylinder.
PicksTheFirst ==
  \A ray \in Rays :
    LET part == KeptPart(ray[1], ray[2]) IN RayIsRight(ray, part, Max({part[1], Cull}))

HitsPieceAt(hit, t) == hit.t = t /\ "record" \in DOMAIN hit
CutFaceIsHit(ray, part) ==
  ( /\ Cull <= part[1] /\ part[1] <= part[2] /\ ~craterCleared(At(ray[1], ray[2], part[1]))
    /\ \E s \in Spans[picture][ray] : IsDrawn(s.of) /\ part[1] \in s.at )
  => HitsPieceAt(castRay(ray[1], ray[2]), part[1])

\* "A cut primitive is hit on its cut face" (lib/silicon-parts.ts, pickChunk).
CutIsHitOnItsFace ==
  sectionOn => \A ray \in Rays : CutFaceIsHit(ray, KeptPart(ray[1], ray[2]))

\* A record whose caps are up to date shows exactly where the present plane
\* goes through its pieces, on the side that is kept; without a section there
\* are none; and what is cut of the substrate or package is never of an
\* earlier plane.
CapsAreTheCut ==
  /\ ~sectionOn => faceCaps = NoFaces /\ \A r \in DOMAIN Records : caps[r].cuts = {}
  /\ sectionOn =>
       /\ faceCaps.stamp = <<StampOf(section), capEps>>
       /\ \A f \in picture.statics : f.lo[section.axis] < section.value /\ section.value < f.hi[section.axis] => f \in faceCaps.faces
       /\ \A r \in DOMAIN Records : caps[r].stamp = <<sectionStamp, capEps>> =>
            LET record == Records[r]
                all == {<<r, b, k>> : <<b, k>> \in UNION {{b} \X DOMAIN record.batches[b].pieces : b \in DOMAIN record.batches}}
                place(u, y) == [i \in Axes |-> IF i = section.axis THEN section.value ELSE IF i = 2 THEN y ELSE u]
                reach == record.half[1] + record.half[2] + 6
                around == record.origin[IF section.axis = 1 THEN 2 ELSE 1]
            IN  /\ \A cut \in caps[r].cuts : cut.side = section.keep
                /\ \A u \in around - reach .. around + reach, y \in record.yMin .. record.yMax :
                     (\E cut \in caps[r].cuts : cut.u0 <= u /\ u <= cut.u1 /\ cut.y0 <= y /\ y <= cut.y1)
                       <=> \E p \in all : Holds(picture, p, place(u, y))

\* Both; picking reads no caps, and is looked at when all are up to date.
CapsSettled == \A r \in DOMAIN Records : caps[r].stamp = CapStamp(sectionOn, sectionStamp, capEps)
SectionIsSound == CapsAreTheCut /\ (CapsSettled => PicksTheFirst)
----------------------------------------------------------------------------
\* The name of a piece.  Heights and widths are in nanometres; a piece is
\* whole and its centre lies in the leaf of the floorplan it is drawn for;
\* rail: it lies along the boundary of two rows.

Stack ==
  [fin |-> <<0, 50>>, gate |-> <<0, 80>>, epi |-> <<20, 62>>, contact |-> <<62, 98>>,
   m0 |-> <<100, 128>>, v0 |-> <<128, 150>>, m1 |-> <<150, 180>>, v1 |-> <<180, 205>>,
   m2 |-> <<205, 235>>, v2 |-> <<235, 262>>, m3 |-> <<262, 300>>, mx1 |-> <<800, 1100>>,
   vx1 |-> <<1100, 1400>>, mx2 |-> <<1400, 1720>>, vx2 |-> <<1720, 2100>>, mx3 |-> <<2100, 2500>>,
   mx4 |-> <<2800, 3200>>, sysH |-> <<3700, 4100>>, sysV |-> <<4150, 4500>>,
   my1 |-> <<4600, 5400>>, vy1 |-> <<5400, 6200>>, my2 |-> <<6200, 7000>>,
   chanH |-> <<7050, 7300>>, chanV |-> <<7320, 7550>>, noc |-> <<7600, 8400>>, ring |-> <<8500, 9100>>,
   mz1 |-> <<9200, 10800>>, vz1 |-> <<10800, 11400>>, mz2 |-> <<11400, 13000>>, pad |-> <<13000, 14500>>,
   pillar |-> <<14620, 20500>>, bpr |-> <<-50, -12>>, nanoTsv |-> <<-600, -50>>,
   backside |-> <<-680, -600>>, dtc |-> <<-1600, 2>>, tsv |-> <<-60000, 98>>]

\* What the generator draws without saying what it is: the part it stands for
\* and how it looks.
Drawn(is, material, shape, y0, y1, leaf, narrow) ==
  [part |-> is, material |-> material, shape |-> shape, y0 |-> y0, y1 |-> y1, leaf |-> leaf,
   narrow |-> narrow, glows |-> FALSE, inductor |-> FALSE, cell |-> "none", lastColumn |-> FALSE, rail |-> FALSE]
Slab(is, material, band, leaf, narrow) ==
  Drawn(is, material, "box", Stack[band][1], Stack[band][2], leaf, narrow)
Rod(is, material, y0, y1, leaf) == Drawn(is, material, "cyl", y0, y1, leaf, 100)
Glowing(pieces) == UNION {{piece, [piece EXCEPT !.glows = TRUE]} : piece \in pieces}

SealRing ==
  {Drawn("seal-ring", "copper", "box", 100, Stack.mz2[2], "seal", 5000),
   Drawn("seal-ring", "gold", "box", 100, Stack.pad[2], "seal", 7000)}
IoPads ==
  {Slab("bond-pad", "gold", "pad", "io", 60000), Slab("pad-frame", "copper", "mz2", "io", 10000),
   Slab("pad-lead", "copper", "mz1", "io", 22000)}
squareSpiral ==
  {[Slab("inductor", "gold", "mz2", "analog", 18000) EXCEPT !.inductor = TRUE],
   Slab("inductor-underpass", "copper", "my2", "analog", 18000)}
InductorGuard == {Slab("inductor-guard", "copper", "my1", "analog", 10000)}
SramMacro ==
  {Slab("sram-ring", "copper", band, "sram-periph", 8000) : band \in {"my1", "my2"}}
    \cup {Slab("sram-strap", "copper", "my2", "sram", 2000)}
TsvColumn ==
  {Rod("tsv", "copper", Stack.tsv[1], Stack.tsv[2], "tsv"), Rod("tsv-liner", "oxide", Stack.tsv[1], 20, "tsv"),
   Drawn("tsv-plug", "copper", "box", Stack.m0[1], Stack.v2[2], "tsv", 4400),
   Slab("tsv-landing", "copper", "m3", "tsv", 8000),
   Drawn("tsv-via-stack", "tungsten", "box", Stack.m3[2] + 12, Stack.my1[1], "tsv", 2800),
   Slab("tsv-strap-pad", "copper", "my1", "tsv", 9000)}
IoCells ==
  {Slab("esd-finger", "copper", "my2", "io", 2800), Slab("io-guard", "copper", "my1", "io", 4000)}
RouterCrossbar ==
  Glowing({Slab("router-xbar", "copper", band, "router", 2400) : band \in {"my1", "my2"}})
ArrayStraps ==
  Glowing({Slab("global-bit-line", "copper", "mx2", "sram", 340)})
    \cup {Slab("word-line-strap", "copper", "mx3", "sram", 500), Slab("bit-line-strap", "copper", "mx1", "sram", 300)}
TrenchStraps == {Slab("dtc-strap", "copper", "m1", "decap", 50)}
ArrayLines ==
  Glowing({Slab("bit-line", "copper", "m1", "sram", 20)})
    \cup {Slab("word-line", "copper", "m2", "sram", 24),
          [Slab("sram-supply", "copper", "m0", "sram", 20) EXCEPT !.rail = TRUE],
          Drawn("bitcell-via", "tungsten", "box", Stack.v0[1], Stack.v1[2], "sram", 18)}
Fins == {Slab("fin", "silicon", "fin", leaf, 7) : leaf \in {"logic", "sram"}}
WellTaps == {Drawn("well-tap", "tungsten", "box", Stack.fin[2], Stack.contact[2], "logic", 24)}
Trenches ==
  UNION {{Rod("dtc-liner", "oxide", Stack.dtc[1], 0, leaf), Rod("dtc", "gate", Stack.dtc[1], Stack.dtc[2], leaf)} :
           leaf \in {"logic", "decap"}}
\* A gate switches when its cell does and it has a contact, which the last
\* column has not; without a layout a cell is never active.
CellGates ==
  {LET dummy == type \in {"FILL", "DECAP"} \/ last
       switching == active /\ ~dummy
   IN  [Slab(IF switching THEN "gate-switching" ELSE IF dummy THEN "gate-dummy" ELSE "gate", "gate", "gate", "logic", 16)
          EXCEPT !.glows = switching, !.cell = type, !.lastColumn = last] :
     type \in {"FILL", "DECAP", "logic"}, last \in BOOLEAN, active \in BOOLEAN}
Epitaxy ==
  {Slab("epi-n", "epiN", "epi", leaf, 30) : leaf \in {"logic", "sram"}}
    \cup {Slab("epi-p", "epiP", "epi", leaf, 30) : leaf \in {"logic", "sram"}}
Bitcells ==
  {Slab("bitcell-gate", "gate", "gate", "sram", 16), Slab("contact-md", "tungsten", "contact", "sram", 14)}

AllDrawn ==
  UNION {SealRing, IoPads, squareSpiral, InductorGuard, SramMacro, TsvColumn, IoCells, RouterCrossbar, ArrayStraps,
         TrenchStraps, ArrayLines, Fins, WellTaps, Trenches, CellGates, Epitaxy, Bitcells}

\* A box's top is raised by less than a twenty-fifth of its height, after its
\* tint: here by the least and the most.
Raised(piece) ==
  {[piece EXCEPT !.y1 = @ + lift] :
     lift \in IF piece.shape = "cyl" THEN {0} ELSE {1, (4 * (piece.y1 - piece.y0)) \div 100}}

Starts(p, band) == p.y0 = Stack[band][1]
nameCylinder(p) ==
  CASE Starts(p, "tsv") -> IF p.material = "oxide" THEN "tsv-liner" ELSE "tsv"
    [] Starts(p, "dtc") -> IF p.material = "oxide" THEN "dtc-liner" ELSE "dtc"
    [] OTHER -> IF p.material = "solder" THEN "solder-cap" ELSE IF Starts(p, "pillar") THEN "pillar" ELSE "metal"
nameGate(p) ==
  IF p.leaf = "sram" THEN "bitcell-gate"
  ELSE IF p.glows THEN "gate-switching"
  ELSE IF p.cell = "FILL" \/ p.lastColumn THEN "gate-dummy" ELSE "gate"
nameTungsten(p) ==
  CASE p.y0 = Stack.fin[2] -> "well-tap"
    [] Starts(p, "contact") -> "contact-md"
    [] p.y0 = Stack.gate[2] -> "contact-vg"
    [] Starts(p, "v0") -> IF p.y1 > Stack.v1[1] THEN "bitcell-via" ELSE "v0"
    [] Starts(p, "v2") -> "v2"
    [] Starts(p, "vx1") -> "vx1"
    [] Starts(p, "vx2") -> "vx2"
    [] Starts(p, "vy1") -> "strap-via"
    [] Starts(p, "vz1") -> "top-via"
    [] Stack.m3[2] < p.y0 /\ p.y0 < Stack.mx1[1] -> "tsv-via-stack"
    [] OTHER -> "metal"
nameGold(p) ==
  CASE Starts(p, "ring") -> "tile-ring"
    [] Starts(p, "pad") -> IF p.leaf = "io" THEN "bond-pad" ELSE "ubm"
    [] Starts(p, "mz2") -> IF p.inductor THEN "inductor" ELSE "global-strap"
    [] Starts(p, "mz1") -> "global-strap"
    [] OTHER -> "metal"

\* Copper by its band, and there by its leaf.
ByLeaf == [m0 |-> [sram |-> "sram-supply"], m1 |-> [sram |-> "bit-line", decap |-> "dtc-strap"],
           m2 |-> [sram |-> "word-line"], m3 |-> [tsv |-> "tsv-landing"],
           mx1 |-> [sram |-> "bit-line-strap"], mx2 |-> [sram |-> "global-bit-line"],
           mx3 |-> [sram |-> "word-line-strap"],
           my1 |-> [router |-> "router-xbar", io |-> "io-guard", tsv |-> "tsv-strap-pad", analog |-> "inductor-guard"]
                     @@ ("phy-drivers" :> "phy-lane"),
           my2 |-> [router |-> "router-xbar", io |-> "esd-finger", tsv |-> "tsv-strap-pad",
                    analog |-> "inductor-underpass"] @@ ("phy-drivers" :> "phy-lane")]
ByBand == [bpr |-> "bpr", nanoTsv |-> "nano-tsv", backside |-> "backside-rail", m1 |-> "m1-pin", m2 |-> "m2",
           m3 |-> "m3", mx1 |-> "mx1", mx2 |-> "mx2", mx3 |-> "mx3", mx4 |-> "mx4-strap",
           chanH |-> "channel-bus", chanV |-> "channel-bus", noc |-> "noc-lane", ring |-> "sram-spine",
           mz1 |-> "pad-lead", mz2 |-> "pad-frame"]
nameCopper(p) ==
  LET bands == {band \in DOMAIN ByLeaf \cup DOMAIN ByBand \cup {"sysH", "sysV"} : Starts(p, band)}
      band == CHOOSE b \in bands : TRUE
  IN  CASE bands = {} -> "metal"
        [] bands # {} /\ band \in DOMAIN ByLeaf /\ p.leaf \in DOMAIN ByLeaf[band] -> ByLeaf[band][p.leaf]
        [] band = "m0" /\ p.leaf # "sram" -> IF p.narrow > 40 THEN "decap-plate" ELSE IF p.rail THEN "m0-rail" ELSE "m0-wire"
        [] band \in {"sysH", "sysV"} -> IF p.glows THEN "systolic-bus" ELSE "pe-pins"
        [] band \in {"my1", "my2"} /\ p.leaf \notin DOMAIN ByLeaf[band] ->
             IF p.narrow > 6500 THEN "sram-ring"
             ELSE IF p.narrow < 3000 /\ p.leaf \in {"sram", "sram-periph"} THEN "sram-strap" ELSE "semi-global-strap"
        [] OTHER -> ByBand[band]

nameOf(p) ==
  CASE p.material = "silicon" -> "fin"
    [] p.material = "epiN" -> "epi-n"
    [] p.material = "epiP" -> "epi-p"
    [] p.material = "gate" -> nameGate(p)
    [] p.material = "tungsten" -> nameTungsten(p)
    [] p.material = "gold" -> nameGold(p)
    [] OTHER -> nameCopper(p)

\* Mistake: the walls and plugs that start on a shared band come after the
\* materials and bands.
IdentifyByBand(p) == IF p.shape = "cyl" THEN nameCylinder(p) ELSE nameOf(p)

identifyPrimitive(p) ==
  IF p.shape = "cyl" THEN nameCylinder(p)
  ELSE IF Starts(p, "m0") /\ p.y1 > Stack.mx1[1] THEN "seal-ring"
  ELSE IF Starts(p, "m0") /\ p.y1 > Stack.m3[1] THEN "tsv-plug"
  ELSE nameOf(p)

\* Whatever its tint, a piece is named as what it was drawn for: except the
\* gates of a DECAP before its last column, which the generator draws as
\* dummies and the viewer calls transistor gates.
NamedAsDrawn ==
  \A piece \in AllDrawn : \A p \in Raised(piece) :
    identifyPrimitive(p) = IF p.cell = "DECAP" /\ ~p.lastColumn THEN "gate" ELSE piece.part
=============================================================================

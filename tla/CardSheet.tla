------------------------------ MODULE CardSheet ------------------------------
(* The print-and-cut sheets of internal/service/cardsheet: Composer.Render    *)
(* lays the cards of a batch out eight to a letter page, under the marks the  *)
(* cutter aligns itself by, and RenderCutlinesDXF writes the one cut file     *)
(* that serves every page.  Lengths are in twentieths of a millimetre, in     *)
(* which every constant of the code is a whole number.                        *)
EXTENDS Integers, FiniteSets, FiniteSetsExt, Sequences

CONSTANTS
    MaxSheetCards,      \* bound: cards of one request
    BleedsAsked         \* the values of cfg.Bleed callers may pass

ASSUME SheetAssumption ==
    /\ MaxSheetCards \in Nat
    /\ BleedsAsked \subseteq Nat

PageW == 4318
PageH == 5588
CardW == 1778
CardH == 1016
Gutter == 80
GridX == 381
GridY == 912
GridCols == 2
GridRows == 4
CardsPerPage == GridCols * GridRows
MarkInset == 200
MarkSquare == 100
LegLong == 380
LegThick == 10
DefaultBleed == 40
BottomBarH == 440

VARIABLES
    sheetAsked,     \* [cards, bleed, cutter] of the request, and how it stands
    sheetPages,     \* pages added to the document
    faces,          \* [page, of, ink, cut]: what each card drawn put on paper
    cutlines        \* rectangles of the DXF, as DXF coordinates (y grows up)

sheetVars == <<sheetAsked, sheetPages, faces, cutlines>>

Box(x, y, w, h) == [left |-> x, top |-> y, right |-> x + w, bottom |-> y + h]

(* Mutant of SlotBox: the rows packed without the gutter.                     *)
SlotBoxPacked(slot) ==
    Box(GridX + (slot % GridCols) * (CardW + Gutter),
        GridY + (slot \div GridCols) * CardH, CardW, CardH)

(* The place of a page's slot: filled left to right, then top to bottom.      *)
SlotBox(slot) ==
    Box(GridX + (slot % GridCols) * (CardW + Gutter),
        GridY + (slot \div GridCols) * (CardH + Gutter), CardW, CardH)

(* Mutant of Clamped: the bleed as it was asked.                              *)
ClampedNot(bleed) == IF bleed = 0 THEN DefaultBleed ELSE bleed

(* The bleed Render draws with: 0 asks for the default, and no more than half *)
(* the gutter is ever given.                                                  *)
Clamped(bleed) ==
    LET chosen == IF bleed = 0 THEN DefaultBleed ELSE bleed
    IN  IF chosen > Gutter \div 2 THEN Gutter \div 2 ELSE chosen

(* Where TransformTranslate and TransformRotate put a box that is drawn on    *)
(* the upright card: the card's top becomes the slot's left edge.             *)
Rotated(box, slot) ==
    [left   |-> slot.left + box.top,        right  |-> slot.left + box.bottom,
     top    |-> slot.bottom - box.right,    bottom |-> slot.bottom - box.left]

(* The colour bar, which is all of a face that reaches past the cut: the bar  *)
(* bleeds down, left and right on the upright card.                           *)
ColourBar(bleed) ==
    Box(-bleed, CardW - BottomBarH, CardH + 2 * bleed, BottomBarH + bleed)

(* The registration marks of every page.                                      *)
Marks == {Box(MarkInset, MarkInset, LegLong, LegThick),
          Box(MarkInset, MarkInset, LegThick, LegLong),
          Box(PageW - MarkInset - MarkSquare, MarkInset, MarkSquare, MarkSquare),
          Box(MarkInset, PageH - MarkInset - MarkSquare, MarkSquare, MarkSquare)}

(* Mutant of PageCount: the part sheet is forgotten.                          *)
PageCountFloor(n) == IF n <= 0 THEN 0 ELSE n \div CardsPerPage

(* The sheets that n cards take.                                              *)
PageCount(n) == IF n <= 0 THEN 0 ELSE (n + CardsPerPage - 1) \div CardsPerPage

(* A cut frame in DXF coordinates, where y grows upwards from the page's foot *)
(* and a box's bottom is its lower number.                                    *)
Flipped(box) == [box EXCEPT !.top = PageH - box.top, !.bottom = PageH - box.bottom]

-----------------------------------------------------------------------------
(* Render: an empty batch and a cutter it does not know are refused.          *)
Refused(n, cutter) == n = 0 \/ cutter # "silhouette_type2"

AskSheet(n, bleed, cutter) ==
    /\ sheetAsked.state = "idle"
    /\ sheetAsked' = [cards |-> n, bleed |-> Clamped(bleed),
                      state |-> IF Refused(n, cutter) THEN "refused" ELSE "drawing"]
    /\ UNCHANGED <<sheetPages, faces, cutlines>>

Drawn == Cardinality(faces)

(* The outer loop: a page for the next eight cards.                           *)
AddPage ==
    /\ sheetAsked.state = "drawing"
    /\ Drawn < sheetAsked.cards /\ Drawn = sheetPages * CardsPerPage
    /\ sheetPages' = sheetPages + 1
    /\ UNCHANGED <<sheetAsked, faces, cutlines>>

(* The inner loop: one card's face, and its cut path at the card's edge.      *)
DrawCard ==
    /\ sheetAsked.state = "drawing"
    /\ Drawn < sheetAsked.cards /\ Drawn < sheetPages * CardsPerPage
    /\ LET slot == SlotBox(Drawn - (sheetPages - 1) * CardsPerPage)
       IN  faces' = faces \cup
                {[page |-> sheetPages, of |-> Drawn, cut |-> slot,
                  ink |-> Rotated(ColourBar(sheetAsked.bleed), slot)]}
    /\ UNCHANGED <<sheetAsked, sheetPages, cutlines>>

OutputSheet ==
    /\ sheetAsked.state = "drawing" /\ Drawn = sheetAsked.cards
    /\ sheetAsked' = [sheetAsked EXCEPT !.state = "sent"]
    /\ UNCHANGED <<sheetPages, faces, cutlines>>

(* RenderCutlinesDXF takes no batch: all eight frames, whatever the sheet.    *)
RenderCutlinesDXF ==
    /\ cutlines = {}
    /\ cutlines' = {Flipped(SlotBox(row * GridCols + col)) :
                        row \in 0 .. GridRows - 1, col \in 0 .. GridCols - 1}
    /\ UNCHANGED <<sheetAsked, sheetPages, faces>>

SheetInit ==
    /\ sheetAsked = [cards |-> 0, bleed |-> 0, state |-> "idle"]
    /\ sheetPages = 0 /\ faces = {} /\ cutlines = {}

SheetNext ==
    \/ \E n \in 0 .. MaxSheetCards, bleed \in BleedsAsked,
          cutter \in {"silhouette_type2", "other"} : AskSheet(n, bleed, cutter)
    \/ AddPage \/ DrawCard \/ OutputSheet \/ RenderCutlinesDXF

SheetSpec == SheetInit /\ [][SheetNext]_sheetVars

-----------------------------------------------------------------------------
Overlap(a, b) == /\ a.left < b.right /\ b.left < a.right
                 /\ a.top < b.bottom /\ b.top < a.bottom
Within(a, b) == /\ b.left <= a.left /\ a.right <= b.right
                /\ b.top <= a.top /\ a.bottom <= b.bottom

SheetTypeOK ==
    /\ sheetAsked.state \in {"idle", "refused", "drawing", "sent"}
    /\ sheetAsked.cards \in 0 .. MaxSheetCards
    /\ sheetPages \in Nat
    /\ \A f \in faces : f.page \in 1 .. sheetPages /\ f.of \in 0 .. MaxSheetCards - 1
    /\ Cardinality(cutlines) \in {0, CardsPerPage}

(* Each card of the request is on one page, in the order asked and on as      *)
(* many pages as PageCount announces.                                         *)
EveryCardOnce ==
    sheetAsked.state = "sent" =>
        /\ {f.of : f \in faces} = 0 .. sheetAsked.cards - 1
        /\ Cardinality(faces) = sheetAsked.cards
        /\ sheetPages = PageCount(sheetAsked.cards)
        /\ \A f, g \in faces : f.of < g.of => f.page <= g.page

(* A cut is clean: no card's ink reaches into another card, and every edge    *)
(* the cutter follows is inside the page and off the marks it aligns by.      *)
CutsAreClean ==
    /\ \A f, g \in faces :
          f.page = g.page /\ f.of # g.of =>
             ~Overlap(f.ink, g.cut) /\ ~Overlap(f.cut, g.cut) /\ ~Overlap(f.ink, g.ink)
    /\ \A f \in faces : /\ Within(f.cut, Box(0, 0, PageW, PageH))
                        /\ \A m \in Marks : ~Overlap(f.ink, m) /\ ~Overlap(f.cut, m)

(* The DXF may stand in for the magenta lines of any page: it cuts where they *)
(* run.                                                                       *)
CutFilesAgree == cutlines # {} => \A f \in faces : Flipped(f.cut) \in cutlines

(* Sheets of any size come out whole (Composer.Render, RenderCutlinesDXF).    *)
SheetsComeOutWhole == EveryCardOnce /\ CutsAreClean /\ CutFilesAgree

(* What sheet.go says of the cutter: it needs ten millimetres clear around    *)
(* each registration mark.                                                    *)
Gap(lo, hi, lo2, hi2) == IF hi < lo2 THEN lo2 - hi ELSE IF hi2 < lo THEN lo - hi2 ELSE 0
MarksAreClear ==
    \A f \in faces, m \in Marks :
        LET dx == Gap(f.cut.left, f.cut.right, m.left, m.right)
            dy == Gap(f.cut.top, f.cut.bottom, m.top, m.bottom)
        IN  dx * dx + dy * dy >= MarkInset * MarkInset

-----------------------------------------------------------------------------
(* The faces of a route card: the upright face of a print sheet               *)
(* (cardsheet/card_draw.go), the two print cards and the shared digital card  *)
(* of service/cardgen.go, and the preview of the sheet face                   *)
(* (cardgen_sheet_face.go).  A face is the set of boxes its texts and its QR  *)
(* code take; what the texts say, their ink and the panels behind them are    *)
(* left out.  A text is its number of runes, a route's name the sequence of   *)
(* its words' lengths, and every rune is six tenths of the font's size      *)
(* wide: the two embedded fonts are taken for monospaced.                     *)
(*   Lengths: hundredths of a millimetre and half points on the sheet face,   *)
(* pixels elsewhere; the preview's fonts are in points at 300 dpi.            *)
CONSTANTS
    CardNames,      \* names of routes: sequences of word lengths, <<>> unnamed
    TextLengths,    \* lengths of wall, location and setter names
    LabelLengths,   \* lengths of grades and colour names
    TagLengths      \* sequences of tag lengths

ASSUME FacesAssumption ==
    /\ CardNames \subseteq Seq(Nat \ {0}) /\ TagLengths \subseteq Seq(Nat)
    /\ TextLengths \subseteq Nat /\ LabelLengths \subseteq Nat

FaceKinds == {"sheet", "preview", "graded", "circuit", "digital"}

VARIABLES card, face, drawn
faceVars == <<card, face, drawn>>

-----------------------------------------------------------------------------
(* What a rune measures, in thousandths of a length per unit of font size:    *)
(* half points on paper, points at 300 dpi, pixels.                           *)
Em(f) == CASE f = "sheet" -> 10583 [] f = "preview" -> 2500 [] OTHER -> 600
Measure(f, runes, size) == (runes * size * Em(f)) \div 1000

(* fitFontSizeStyle, fitWidth, fitPrintFont: the largest size that fits, in   *)
(* steps down from the first; the smallest if none does.                      *)
Fit(f, runes, width, start, min, step) ==
    LET sizes == {s \in min .. start : (start - s) % step = 0}
        good  == {s \in sizes : Measure(f, runes, s) <= width}
    IN  IF good = {} THEN Min(sizes) ELSE Max(good)

(* Mutant of Truncated: the ellipsis is not counted.                          *)
TruncatedBare(f, runes, width, size) ==
    IF Measure(f, runes, size) <= width THEN runes
    ELSE LET kept == {i \in 1 .. runes - 1 : Measure(f, i, size) <= width}
         IN  IF kept = {} THEN runes ELSE Max(kept) + 1

(* truncateText, truncatePDF: the runes left with the ellipsis, and the whole *)
(* text when not even one rune and the ellipsis fit.                          *)
Truncated(f, runes, width, size) ==
    IF Measure(f, runes, size) <= width THEN runes
    ELSE LET kept == {i \in 1 .. runes - 1 : Measure(f, i + 1, size) <= width}
         IN  IF kept = {} THEN runes ELSE Max(kept) + 1

(* A line with one more word on it, after a blank.                            *)
Joined(line, word) == IF line = 0 THEN word ELSE line + 1 + word

(* A name on a line of its own.                                               *)
LineRunes(words) ==
    LET upTo[n \in 0 .. Len(words)] ==
            IF n = 0 THEN 0 ELSE Joined(upTo[n - 1], words[n])
    IN  upTo[Len(words)]

(* One word of the greedy wrap.  The loop is left when only the last line is  *)
(* to come, with the word that opens it.                                      *)
Took(f, w, word, width, size, maxLines) ==
    LET trial == Joined(w.cur, word)
        full  == IF w.cur = 0 THEN w.lines ELSE Append(w.lines, w.cur)
    IN  IF w.left THEN w
        ELSE IF Measure(f, trial, size) <= width
             THEN [w EXCEPT !.cur = trial, !.taken = @ + 1]
        ELSE [lines |-> full, cur |-> word, taken |-> w.taken + 1,
              left |-> Len(full) = maxLines - 1]

(* wrapTextPDF, wrapString, wrapLines: the runes on each line, how many words *)
(* they have, and whether the last is to be cut to its ellipsis.              *)
Wrapped(f, name, width, size, maxLines) ==
    LET upTo[n \in 0 .. Len(name)] ==
            IF n = 0 THEN [lines |-> <<>>, cur |-> 0, taken |-> 0, left |-> FALSE]
            ELSE Took(f, upTo[n - 1], name[n], width, size, maxLines)
        end   == upTo[Len(name)]
        all   == IF end.cur = 0 THEN end.lines ELSE Append(end.lines, end.cur)
        lines == IF Len(all) > maxLines THEN SubSeq(all, 1, maxLines) ELSE all
    IN  [lines |-> lines, taken |-> end.taken,
         cut   |-> lines # <<>> /\ Measure(f, lines[Len(lines)], size) > width]

-----------------------------------------------------------------------------
(* A text's box: it stands on its baseline and is as high as its size.        *)
Height(f, size) == (size * Em(f)) \div 600
Text(f, what, x, y, runes, size) ==
    [what |-> what, left |-> x, right |-> x + Measure(f, runes, size),
     top |-> y - Height(f, size), bottom |-> y]
Centred(f, what, x0, x1, y, runes, size) ==
    Text(f, what, x0 + (x1 - x0 - Measure(f, runes, size)) \div 2, y, runes, size)
Shown(runes, box) == IF runes = 0 THEN {} ELSE {box}
Area(what, x, y, w, h) ==
    [what |-> what, left |-> x, right |-> x + w, top |-> y, bottom |-> y + h]

(* The width and the size that each design wraps a route's name to.           *)
NameWidth(f) == CASE f = "sheet"   -> 5080 - 2 * 300 - 1400 - 200
                  [] f = "preview" -> 540
                  [] f = "digital" -> 2400 - 96 - (960 + 112)
NameSize(f) == CASE f = "sheet" -> 22 [] f = "preview" -> 18 [] f = "digital" -> 112
NameOn(f, name) == Wrapped(f, name, NameWidth(f), NameSize(f), 2)

(* The lines of a wrapped name, one under the other.                          *)
NameLines(f, lines, x, y, pitch) ==
    {LET runes == IF i = Len(lines) THEN Truncated(f, lines[i], NameWidth(f), NameSize(f))
                  ELSE lines[i]
     IN  Text(f, "name", x, y + (i - 1) * pitch, runes, NameSize(f)) : i \in DOMAIN lines}

DateRunes == 12
QrOn(f) == CASE f = "sheet"   -> Area("qr", 3430, 5090, 1400, 1400)
             [] f = "preview" -> Area("qr", 410, 606, 160, 160)
             [] OTHER         -> Area("qr", 300, 182, 80, 80)

(* drawCardPortrait: label in the colour bar, name, wall, setter, date, QR.   *)
Col1W == 1700
(* Mutant of Col2W: the second column as wide as the first.                   *)
Col2WWide == Col1W
Col2W == 1150
SheetFace(c) ==
    LET f == "sheet"
        lines == NameOn(f, c.name).lines
        labelSize == Fit(f, c.label, 5080 - 800, IF c.circuit THEN 48 ELSE 68, 20, 1)
        metaY == Max({4200 + 440 * Len(lines), 4200 + 2 * 440 + 120})
        value(what, x, y, runes, width) ==
            LET size == Fit(f, runes, width, 18, 14, 1)
            IN  Shown(runes, Text(f, what, x, y, Truncated(f, runes, width, size), size))
        col2X == 300 + Col1W + 150
    IN  {Centred(f, "label", 0, 5080, 6690 + 1100 + (Height(f, labelSize) * 36) \div 100,
                 c.label, labelSize),
         Text(f, "WALL", 300, metaY, 4, 11), Text(f, "SETTER", col2X, metaY, 6, 11),
         Text(f, "SET", 300, metaY + 800, 3, 11),
         Text(f, "date", 300, metaY + 1160, DateRunes, 18), QrOn(f)}
        \cup NameLines(f, lines, 300, 4200, 440)
        \cup value("wall", 300, metaY + 360, c.wall, Col1W)
        \cup value("setter", col2X, metaY + 360, c.setter, Col2W)

(* GenerateSheetCardPNG: the same design at 300 dpi for the sample tool.      *)
PreviewFace(c) ==
    LET f == "preview"
        lines == NameOn(f, c.name).lines
        y == IF c.name = <<>> THEN 496 ELSE 496 + 68 * Len(lines) + 14
    IN  {Centred(f, "label", 0, 600, 1050, c.label,
                 Fit(f, c.label, 520, IF c.circuit THEN 56 ELSE 72, 18, 2)),
         Text(f, "WALL", 30, y, 4, 9), Text(f, "SETTER", 310, y, 6, 9),
         Text(f, "SET", 30, y + 90, 3, 9),
         Text(f, "date", 30, y + 142, DateRunes, 13), QrOn(f)}
        \cup NameLines(f, lines, 30, 496, 68)
        \cup Shown(c.wall, Text(f, "wall", 30, y + 52, Truncated(f, c.wall, 260, 13), 13))
        \cup Shown(c.setter, Text(f, "setter", 310, y + 52, Truncated(f, c.setter, 240, 13), 13))

(* generateGradedPrintPNG: the grade in a block, the facts right of it.       *)
GradedFace(c) ==
    LET f == "graded"
        width == 400 - 150 - 20
        name == LineRunes(c.name)
        y == IF c.name = <<>> THEN 46 ELSE 78
        line(what, at, runes, size) ==
            Shown(runes, Text(f, what, 150, at, Truncated(f, runes, width, size), size))
        size == IF c.label <= 2 THEN 64 ELSE IF c.label <= 4 THEN 52 ELSE 42
    IN  {Centred(f, "label", 20, 130, 110 + size \div 2, c.label, size),
         Text(f, "date", 150, IF c.setter = 0 THEN 170 ELSE 188, DateRunes, 11),
         QrOn(f), Text(f, "brand", 20, 286, 9, 9)}
        \cup (IF c.name = <<>> THEN {} ELSE line("name", 46, name, 24))
        \cup line("wall", y, c.wall, 16)
        \cup (IF c.setter = 0 THEN {} ELSE line("setter", 170, 7 + c.setter, 12))

(* generateCircuitPrintPNG: colour name and route name in full, the wall      *)
(* truncated before the QR code, setter and date on one line at the foot.     *)
CircuitFace(c) ==
    LET f == "circuit"
        y == IF c.name = <<>> THEN 130 ELSE 158
    IN  {Text(f, "label", 52, 72, c.label, 52), Text(f, "circuit", 52, 94, 7, 14),
         QrOn(f), Text(f, "brand", 52, 286, 9, 9)}
        \cup (IF c.name = <<>> THEN {} ELSE {Text(f, "name", 52, 130, LineRunes(c.name), 20)})
        \cup Shown(c.wall, Text(f, "wall", 52, y, Truncated(f, c.wall, 400 - 52 - 120, 16), 16))
        \cup Shown(c.setter, Text(f, "setter", 52, 266, 7 + c.setter + 5 + DateRunes, 11))

(* The pills of generateDigitalPNG: as many tags as fit the panel, in order.  *)
Pill(p, tag, to) ==
    LET w == Measure("digital", tag, 28) + 48
    IN  IF p.full \/ p.x + w > to THEN [p EXCEPT !.full = TRUE]
        ELSE [p EXCEPT !.x = @ + w + 16, !.boxes = @ \cup {Area("tag", p.x, 908, w, 52)}]

Pills(tags, from, to) ==
    LET upTo[n \in 0 .. Len(tags)] ==
            IF n = 0 THEN [x |-> from, full |-> FALSE, boxes |-> {}]
            ELSE Pill(upTo[n - 1], tags[n], to)
    IN  upTo[Len(tags)].boxes

(* generateDigitalPNG: the hero zone, and the panel with name, place, setter, *)
(* tags and the link.  The stats row is left out.                             *)
DigitalFace(c) ==
    LET f == "digital"
        from == 960 + 112
        to == 2400 - 96
        lines == NameOn(f, c.name).lines
        y == IF c.name = <<>> THEN 144 ELSE 144 + 116 * Len(lines) + 40
        place == IF c.wall # 0 /\ c.gym # 0 THEN c.wall + 5 + c.gym ELSE c.wall + c.gym
        link == Truncated(f, c.url, ((to - from) * 6) \div 10, 22)
        placed == IF place = 0 THEN y ELSE y + 24
        size == Fit(f, c.label, 960 - 160, IF c.circuit THEN 360 ELSE 440, 144, 1)
    IN  {Centred(f, "label", 0, 960, 630 + (size * 252) \div 1000, c.label, size),
         Text(f, "brand", from, 1204, 9 + 3 * 8, 24),
         Text(f, "link", to - Measure(f, link, 22), 1204, link, 22)}
        \cup NameLines(f, lines, from, 260, 116)
        \cup Shown(place, Text(f, "place", from, placed,
                               Truncated(f, place, to - from, 44), 44))
        \cup Shown(c.setter, Text(f, "setter", from, placed + 56,
                                  7 + c.setter + 5 + DateRunes, 36))
        \cup Pills(c.tags, from, to)

-----------------------------------------------------------------------------
(* resolveCardData: the route is there; what else the card names is left      *)
(* blank when its lookup fails or finds nothing.                              *)
ResolveCardData(c, wall, gym, setter) ==
    /\ drawn = {} /\ face = "none"
    /\ \E f \in FaceKinds :
          /\ f = "graded" => ~c.circuit
          /\ f = "circuit" => c.circuit
          /\ face' = f
    /\ card' = [c EXCEPT !.wall = wall, !.gym = gym, !.setter = setter]
    /\ UNCHANGED drawn

FaceOf(f, c) == CASE f = "sheet"   -> SheetFace(c)
                  [] f = "preview" -> PreviewFace(c)
                  [] f = "graded"  -> GradedFace(c)
                  [] f = "circuit" -> CircuitFace(c)
                  [] f = "digital" -> DigitalFace(c)

DrawFace == /\ face # "none" /\ drawn = {}
            /\ drawn' = FaceOf(face, card)
            /\ UNCHANGED <<card, face>>

(* The link of every card is as long as the frontend's URL and a route's id.  *)
UrlRunes == 71
NewCard == [name : CardNames, label : LabelLengths, circuit : BOOLEAN,
            wall : {0}, gym : {0}, setter : {0}, tags : TagLengths, url : {UrlRunes}]

FaceInit == card \in NewCard /\ face = "none" /\ drawn = {}

FaceNext ==
    \/ \E wall, setter \in TextLengths \cup {0}, gym \in {0, 12} :
          ResolveCardData(card, wall, gym, setter)
    \/ DrawFace

FaceSpec == FaceInit /\ [][FaceNext]_faceVars

-----------------------------------------------------------------------------
FaceTypeOK == face \in FaceKinds \cup {"none"} /\ \A b \in drawn : b.left <= b.right

Widest(f) == CASE f = "sheet" -> 5080 [] f = "preview" -> 600 [] f = "digital" -> 2400
               [] OTHER -> 400

(* A name whose first word alone is wider than a line, with another after it: *)
(* the line it is on is not the last, which is the only one that is cut.      *)
Overlong(f, name) ==
    /\ f \in {"sheet", "preview", "digital"} /\ Len(name) > 1
    /\ Measure(f, name[1], NameSize(f)) > NameWidth(f)

(* Texts that no code keeps within the card: an identifier at its smallest    *)
(* size or of fixed size, and what is drawn without being truncated.          *)
Unbounded(f, c) ==
    CASE f = "circuit" -> {"label", "name", "setter"}
      [] f = "digital" -> {"label", "setter"} \cup (IF Overlong(f, c.name) THEN {"name"} ELSE {})
      [] OTHER -> {"label"} \cup (IF Overlong(f, c.name) THEN {"name"} ELSE {})

(* Every other text stays between the edges of its card, and on the two faces *)
(* printed for the wall, whose QR code a climber scans, that code and the     *)
(* setter keep clear of every text but the label (card_draw.go, cardgen.go).  *)
FaceReads ==
    /\ \A b \in drawn : b.what \notin Unbounded(face, card)
                        => b.left >= 0 /\ b.right <= Widest(face)
    /\ face \in {"sheet", "graded"} =>
          \A a, b \in drawn : a # b /\ {a.what, b.what} \cap {"qr", "setter"} # {}
                                /\ "label" \notin {a.what, b.what} => ~Overlap(a, b)

(* What the comment on the wrap says: "The last line is ellipsis-truncated if *)
(* overflow remains after the line budget is exhausted", so that a name is    *)
(* shown whole or seen to be cut.                                             *)
NameIsWholeOrCut ==
    drawn # {} /\ face \in {"sheet", "digital", "preview"} =>
        LET w == NameOn(face, card.name)
        IN  w.cut \/ w.taken = Len(card.name)

(* And what it says before that: "at most maxLines lines whose widths do not  *)
(* exceed maxWidth".                                                          *)
LinesFit ==
    face \in {"sheet", "digital", "preview"} =>
        \A b \in drawn : b.what = "name" => b.right - b.left <= NameWidth(face)
=============================================================================

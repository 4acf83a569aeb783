------------------------------- MODULE Labels -------------------------------
(***************************************************************************)
(* The label of one item: ComposerAgent (agents/composer.py), the          *)
(* reference generator it prefers (agents/diecut_reference.py) and         *)
(* ValidatorAgent (agents/validator.py), which searches the label that the *)
(* other two wrote.  Lengths are in tenths of a millimetre.  A label is    *)
(* the words that can be found in it, its barcode and, when it has them,   *)
(* its placements.                                                         *)
(***************************************************************************)
EXTENDS Integers, Sequences, FiniteSets

CONSTANTS
  Inches,       \* the sides of a carton that the layout is tried on
  MaxSymbols,   \* handling symbols the profile prints, at most
  MaxWarnings,  \* applicable warnings of the compliance report, at most
  NoVerdict

ASSUME InchesAssumption == /\ Inches \subseteq Nat \ {0} /\ 12 \in Inches
                           /\ MaxSymbols \in Nat /\ MaxWarnings \in Nat \ {0}

VARIABLES sample, carton, verdict   \* an item with its profile; what is made of it
avars == <<sample, carton, verdict>>

-----------------------------------------------------------------------------
\* What matters of a fused item, its importer's profile and its reports.
\* description "logo" and brand "placeholder" hold a placeholder word (LOGO,
\* TODO); "long" does not fit a line of the template; UPC "letters" has twelve
\* characters that are not all digits; "product" dimensions are those of the
\* product, not of the box.
Item == [description : {"none", "plain", "long", "logo"},
         upc : {"none", "short", "digits", "letters"},
         dims : {"box", "product", "none"}, origin : {"none", "India", "other"},
         drawing : {"known", "unknown"}, line : {"none", "vector", "raster"},
         brand : {"name", "placeholder"},
         required : SUBSET {"logo", "warnings", "description"},
         symbols : 0..MaxSymbols, warnings : 0..MaxWarnings,
         side : [{"L", "W", "H"} -> Inches]]

\* Every content on one carton, and plain content on cartons of every size.
Cube(d) == [k \in {"L", "W", "H"} |-> d]
InfoText ==
  [description : {"none", "plain", "long", "logo"}, upc : {"none", "short", "digits", "letters"},
   dims : {"box", "product", "none"}, origin : {"none", "India", "other"},
   drawing : {"known", "unknown"}, line : {"none", "raster"}, brand : {"name", "placeholder"},
   required : {{}, {"logo"}, {"warnings", "description"}}, symbols : {0}, warnings : {0, 1},
   side : {Cube(12)}]
Cartons ==
  [description : {"none"}, upc : {"none", "digits"}, dims : {"box"}, origin : {"none", "India"},
   drawing : {"known"}, line : {"none", "vector"}, brand : {"name"}, required : {{}},
   symbols : 0..MaxSymbols, warnings : 0..MaxWarnings, side : [{"L", "W", "H"} -> Inches]]

\* Characters of the UPC, of which _add_barcode draws the first 12 as bars.
Length(upc) == CASE upc = "none" -> 0 [] upc = "short" -> 6 [] OTHER -> 12

Lower(a, b) == IF a < b THEN a ELSE b

\* _panel_dims_mm: a carton with no box dimensions is drawn as 16 x 12 x 10 inches.
Side(s, k) == 254 * (IF s.dims = "box" THEN s.side[k]
                     ELSE CASE k = "L" -> 16 [] k = "W" -> 12 [] k = "H" -> 10)

-----------------------------------------------------------------------------
(* The template builder: _build_panel.                                     *)
LongPanels == {"long_front", "long_back"}
Panels     == LongPanels \cup {"short_right", "short_left"}
Margin == 60   Logo == 240   TextLine == 45   Symbol == 140
BarcodeWidth == 420   BarcodeHeight == 140   CooReserved == 80
Below == Margin + Logo + 30     \* where the info block starts

\* The short panels name the order, the carton, its weight and its cube.
InfoLines(s, long) ==
  IF long THEN 2 + (IF s.description = "none" THEN 0 ELSE 1) + (IF s.dims = "none" THEN 0 ELSE 1)
  ELSE 6

Place(t, xx, yy) == [type |-> t, x |-> xx, y |-> yy]

\* The barcode is lifted above the line of the origin.
BarcodeTopLow(h) == h - BarcodeHeight - Margin   \* mutant: it is not
BarcodeTop(h) == h - BarcodeHeight - Margin - TextLine - CooReserved

\* Everything placed on a panel, with coordinates from the panel's corner.
Placements(s, panel) ==
  LET long == panel \in LongPanels
      w == IF long THEN Side(s, "L") ELSE Side(s, "W")
      h == Side(s, "H")
      n == InfoLines(s, long)
  IN  <<Place("logo", w \div 2, Margin)>>
   \o [i \in 1..n |-> Place("text", Margin, Below + (i - 1) * TextLine)]
   \o [i \in 1..Lower(3, s.symbols) |->
        Place("handling", Margin + (i - 1) * (Symbol + 20), h - Symbol - Margin)]
   \o [i \in 1..Lower(4, s.warnings) |->
        Place("warning", w - Symbol - Margin, Below + (i - 1) * (Symbol + 20))]
   \o (IF s.origin = "none" THEN <<>> ELSE <<Place("text", w \div 2, h - Margin - 20)>>)
   \o (IF s.upc = "none" THEN <<>>
       ELSE <<Place("barcode", IF long THEN Margin ELSE w - BarcodeWidth - Margin,
                    BarcodeTop(h))>>)
   \o (IF long \/ s.line = "none" THEN <<>>
       ELSE <<Place("drawing", (w - Lower(w - 2 * Margin, 600)) \div 2,
                    Below + n * TextLine + 20)>>)

\* The words of the label that the validator may look for.
TemplateWords(s) ==
  {"item_no", "case_qty"}
    \cup (IF s.dims = "none" THEN {} ELSE {"dimensions"})
    \cup (IF s.origin = "none" THEN {} ELSE {"origin"})
    \cup (IF s.upc = "none" THEN {} ELSE {"upc"})
    \cup (IF s.description \in {"plain", "logo"} THEN {"description"} ELSE {})
    \cup (IF s.warnings > 0 THEN {"warnings"} ELSE {})

NoCarton == [by |-> "nobody", words |-> {}, glyph |-> FALSE, bars |-> 0,
            placed |-> [p \in Panels |-> <<>>]]

\* execute: the drawing is embedded on the short panels, where a raster one is
\* refused; the lint then looks for placeholder words in the whole label.
Template(s) ==
  IF s.line = "raster" \/ s.brand = "placeholder" \/ s.description = "logo" THEN NoCarton
  ELSE [by |-> "template", words |-> TemplateWords(s), glyph |-> s.upc # "none",
        bars |-> Lower(12, Length(s.upc)), placed |-> [p \in Panels |-> Placements(s, p)]]

(* The reference generator: no placements, "MADE IN INDIA" on every panel, *)
(* and a barcode whose group has neither a class nor a data-value.         *)
HasReferenceInputs(s) == s.description # "none" /\ s.upc # "none" /\ s.dims # "none"

\* UPC_ENCODING[...] and DRAWINGS[...] raise for what they do not know.
Reference(s) ==
  [by |-> "reference", glyph |-> FALSE, bars |-> 0, placed |-> NoCarton.placed,
   words |-> {"item_no", "case_qty", "dimensions", "upc", "description"}
               \cup (IF s.origin = "India" THEN {"origin"} ELSE {})]
ReferenceRaises(s) == s.upc = "letters" \/ s.drawing = "unknown"

Composed(s) == IF HasReferenceInputs(s) /\ ~ReferenceRaises(s)
               THEN Reference(s) ELSE Template(s)

-----------------------------------------------------------------------------
(* ValidatorAgent.                                                         *)

\* _required_fields_from_profile: the baseline, and what the profile's panel
\* layouts name.
Required(s) == {"item_no", "case_qty", "dimensions", "country_of_origin", "barcode"}
                 \cup s.required

\* _check_required_fields: what a field is looked for as.  Without an origin
\* the origin is missing, without a description there is nothing to look for.
Found(s, l, field) ==
  CASE field = "barcode" -> s.upc # "none" /\ "upc" \in l.words
    [] field = "country_of_origin" -> s.origin # "none" /\ "origin" \in l.words
    [] field = "description" -> s.description = "none" \/ "description" \in l.words
    [] OTHER -> field \in l.words

\* _check_barcode: the group is found by class or data-value; its bars, their
\* height and the caption are right whenever the template drew them.
BarcodeFine(s, l) == s.upc = "none" \/ (l.glyph /\ l.bars >= 8)

\* _bboxes_overlap: rough sizes per type; handling symbols have none of their
\* own.  Touching edges are allowed.
Box(t) == CASE t = "logo" -> <<240, 240>> [] t = "barcode" -> <<240, 150>>
            [] t = "warning" -> <<140, 140>> [] t = "text" -> <<400, 45>>
            [] t = "drawing" -> <<400, 300>> [] OTHER -> <<80, 45>>
BoxesOverlap(a, b) ==
  /\ a.x < b.x + Box(b.type)[1] /\ b.x < a.x + Box(a.type)[1]
  /\ a.y < b.y + Box(b.type)[2] /\ b.y < a.y + Box(a.type)[2]
Overlapping(l) ==
  UNION {{<<l.placed[p][ij[1]].type, l.placed[p][ij[2]].type>> :
            ij \in {ij \in (DOMAIN l.placed[p]) \X (DOMAIN l.placed[p]) :
                      /\ ij[1] < ij[2]
                      /\ BoxesOverlap(l.placed[p][ij[1]], l.placed[p][ij[2]])}} : p \in Panels}

\* The verdict: what is critical asks a human, an overlap alone does not and
\* does not keep the activity from succeeding either.
Verdict(s, l) ==
  [critical |-> {f \in Required(s) : ~Found(s, l, f)}
                  \cup (IF BarcodeFine(s, l) THEN {} ELSE {"glyph"}),
   overlaps |-> Overlapping(l)]

Accepted(v) == v.critical = {}

-----------------------------------------------------------------------------
AInit == sample \in InfoText \cup Cartons /\ carton = NoCarton /\ verdict = NoVerdict

\* compose_label_activity.  A label that could not be composed is nobody's.
ComposeLabel == /\ carton = NoCarton /\ verdict = NoVerdict
                /\ carton' = Composed(sample)
                /\ UNCHANGED <<sample, verdict>>

\* validate_output_activity.
ValidateLabel == /\ carton # NoCarton /\ verdict = NoVerdict
                 /\ verdict' = Verdict(sample, carton)
                 /\ UNCHANGED <<sample, carton>>

ANext == ComposeLabel \/ ValidateLabel
ASpec == AInit /\ [][ANext]_avars

-----------------------------------------------------------------------------
(***************************************************************************)
(* Properties                                                              *)
(***************************************************************************)
\* Type invariant of the label builder.
ATypeOK == /\ sample \in Item
           /\ carton = NoCarton \/ carton = Template(sample) \/ carton = Reference(sample)
           /\ verdict # NoVerdict => verdict.critical \subseteq
                Required(sample) \cup {"glyph"}

\* What the template places passes the validator's overlap check: on a carton
\* with sides of 5 inches or more nothing overlaps, with any number of warnings,
\* with and without drawing and origin, unless handling symbols and a barcode
\* are both printed, which share the corner of the long panels (_build_panel
\* against _bboxes_overlap).
LayoutIsClean ==
  verdict # NoVerdict /\ (\A k \in {"L", "W", "H"} : sample.side[k] >= 5)
    /\ (sample.symbols = 0 \/ sample.upc = "none")
    => verdict.overlaps = {}

\* The composer prefers the reference generator for items that carry
\* everything it "needs to produce a sign-off-quality label"
\* (_has_reference_inputs, composer.py:80-82): an item with description, UPC,
\* box, origin and a product drawing gets a label that the validator accepts.
\* It does not hold: the reference barcode is a group without class and
\* data-value, so the validator finds no barcode glyph, on any such item.
CompleteItemsPass ==
  verdict # NoVerdict /\ sample.description = "plain" /\ sample.upc = "digits"
    /\ sample.dims = "box" /\ sample.origin = "India" /\ sample.drawing = "known"
    /\ sample.required = {}
    => Accepted(verdict)
=============================================================================

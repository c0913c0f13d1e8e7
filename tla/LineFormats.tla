----------------------------- MODULE LineFormats -----------------------------
(***************************************************************************)
(* Which downloads the validators accept (sftp/validator.go), and which    *)
(* the parsers then understand (parser/exrate.go, parser/market.go): they    *)
(* read the same lines and ask different things of them.                    *)
(*                                                                          *)
(* A file is the sequence of its non-blank lines.  Of the numbers in        *)
(* a line all that is asked is whether a pair of them is written as numbers *)
(* and whether both are positive.                                           *)
(***************************************************************************)
EXTENDS Integers, Sequences

Pair == {"none", "zero", "positive"}   \* of two columns: the lesser of them

\* HH:MM:SSUSD buy sell.  A line of fewer than three fields has no rates; the
\* parser asks for the time and the currency, the validator does not.
ExrateLine == [stamp : BOOLEAN, rates : Pair]

\* Columns divided by bars.  Lines of fewer than 12 are read by nobody and
\* left out; the products are those the dashboard shows.
Product    == {"G965B", "G9999KG", "G9999G"}
MarketLine == [columns : {12, 15}, product : Product,
               spot : BOOLEAN, bar : BOOLEAN, price : BOOLEAN]

validateExrateData(lines) ==
  \E i \in DOMAIN lines : lines[i].rates = "positive"

\* Only the last line counts, and its rates may be zero.
GetLatestUSDRate(lines) ==
  IF lines = <<>> THEN "none"
  ELSE LET last == lines[Len(lines)]
       IN  IF last.stamp THEN last.rates ELSE "none"

validateMarketRetailData(lines) ==
  \E i \in DOMAIN lines :
    lines[i].columns >= 15 /\ lines[i].spot /\ lines[i].bar

\* ParseMarketData finds a spot price and a price of each product, each on any
\* of the lines.
ParseMarketData(lines) ==
  /\ \E i \in DOMAIN lines : lines[i].spot
  /\ \A p \in Product :
       \E i \in DOMAIN lines : lines[i].product = p /\ lines[i].price

-----------------------------------------------------------------------------
(***************************************************************************)
(* What becomes of a file, by its kind: two and three lines show every case.*)
(***************************************************************************)
Files(Line, n) == UNION {[1 .. k -> Line] : k \in 0 .. n}

Outcome == [valid : BOOLEAN, parses : BOOLEAN]

ExrateOutcomes ==
  Outcome \cap
  {[valid  |-> validateExrateData(lines),
    parses |-> GetLatestUSDRate(lines) # "none"] :
     lines \in Files(ExrateLine, 2)}

MarketOutcomes ==
  Outcome \cap
  {[valid  |-> validateMarketRetailData(lines),
    parses |-> ParseMarketData(lines)] : lines \in Files(MarketLine, 3)}
=============================================================================

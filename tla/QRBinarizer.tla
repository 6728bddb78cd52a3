------------------------------ MODULE QRBinarizer ------------------------------
(***************************************************************************)
(* Black and white from the grey pixels of an image (the binarizer of      *)
(* static/js/jsQR.js).  An image is its width, its height and the          *)
(* sequence of its grey values by rows; a matrix of black and white is     *)
(* its width, its height and the set of its dark pixels <<x, y>>.          *)
(***************************************************************************)
EXTENDS Evaluation

REGION_SIZE       == 8
MIN_DYNAMIC_RANGE == 24

Regions(size) == (size + REGION_SIZE - 1) \div REGION_SIZE

(* A byte array rounds what is stored, halves to even.                     *)
Rounded(a, b) ==
    LET floor == a \div b
        twice == 2 * (a % b)
    IN  IF twice > b \/ (twice = b /\ floor % 2 = 1) THEN floor + 1 ELSE floor

-----------------------------------------------------------------------------
(* The black point of each region.  A region may reach past the right edge,*)
(* into the next row of pixels, or past the last pixel: then it is 0, for  *)
(* it is computed from what is undefined.                                  *)

Pixels(image, h, v) ==
    [i \in 1..REGION_SIZE * REGION_SIZE |->
        (REGION_SIZE * v + (i - 1) \div REGION_SIZE) * image.width
        + REGION_SIZE * h + ((i - 1) % REGION_SIZE)]

Smaller(a, b) == IF a < b THEN a ELSE b
Larger(a, b)  == IF a > b THEN a ELSE b

(* A region of one colour takes after its neighbours above and to the left.*)
AroundOf(points, columns, h, v) ==
    LET Neighbour(x, y) == points[y * columns + x + 1]
    IN  IF v > 0 /\ h > 0
        THEN Neighbour(h, v - 1) + 2 * Neighbour(h - 1, v) + Neighbour(h - 1, v - 1) ELSE 0

PointOf(sum, min, max, around) ==
    IF max - min > MIN_DYNAMIC_RANGE THEN Rounded(sum, 64)
    ELSE IF 4 * min < around THEN Rounded(around, 4)
    ELSE Rounded(min, 2)

BlackPoint(grey, around) ==
    PointOf(Joined(+, grey), Joined(Smaller, grey), Joined(Larger, grey), around)

GreyOf(image, pixels) == Evaluated([i \in DOMAIN pixels |-> image.grey[pixels[i] + 1]])

NextPoint(image, points, columns, h, v) ==
    IF Pixels(image, h, v)[REGION_SIZE * REGION_SIZE] >= Len(image.grey) THEN 0
    ELSE BlackPoint(GreyOf(image, Pixels(image, h, v)), AroundOf(points, columns, h, v))

RECURSIVE BlackPointsFrom(_, _, _)
BlackPointsFrom(image, points, columns) ==
    IF Len(points) = columns * Regions(image.height) THEN points
    ELSE BlackPointsFrom(image,
             Append(points, NextPoint(image, points, columns,
                                      Len(points) % columns, Len(points) \div columns)),
             columns)

BlackPoints(image) == BlackPointsFrom(image, <<>>, Regions(image.width))

-----------------------------------------------------------------------------
(* The threshold of a region: 25 black points, of the 5 x 5 regions around.*)

NumBetween(value, min, max) == IF value < min THEN min ELSE IF value > max THEN max ELSE value

(* Without five regions a side, some are undefined and nothing is dark.    *)
SumAround(points, columns, left, top) ==
    LET Place(i) == (top + ((i - 1) % 5) - 2) * columns + left + ((i - 1) \div 5) - 2
    IN  IF \E i \in 1..25 : Place(i) < 0 \/ Place(i) >= Len(points) THEN -1
        ELSE Joined(+, [i \in 1..25 |-> points[Place(i) + 1]])

ThresholdSums(points, columns, rows) ==
    Evaluated([i \in DOMAIN points |->
        SumAround(points, columns, NumBetween((i - 1) % columns, 2, columns - 3),
                  NumBetween((i - 1) \div columns, 2, rows - 3))])

(* The region whose threshold a pixel gets: its own, or the last one of    *)
(* the row above, when that reaches past the right edge to the pixel.      *)
RegionOf(image, columns, x, y) ==
    columns * (y \div REGION_SIZE)
    + IF x + image.width < REGION_SIZE * columns /\ y % REGION_SIZE > 0 THEN columns - 1
      ELSE x \div REGION_SIZE

DarkPixels(image, sums, columns) ==
    [width |-> image.width, height |-> image.height,
     dark |-> {<<p[1], p[2]>> : p \in {q \in (0..image.width - 1) \X (0..image.height - 1) :
                  25 * image.grey[q[2] * image.width + q[1] + 1]
                  <= sums[RegionOf(image, columns, q[1], q[2]) + 1]}}]

Binarize(image) ==
    DarkPixels(image,
        ThresholdSums(BlackPoints(image), Regions(image.width), Regions(image.height)),
        Regions(image.width))

Inverted(matrix) ==
    [matrix EXCEPT !.dark = {<<p[1], p[2]>> :
        p \in ((0..matrix.width - 1) \X (0..matrix.height - 1)) \ matrix.dark}]
=============================================================================

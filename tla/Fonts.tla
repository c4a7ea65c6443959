-------------------------------- MODULE Fonts --------------------------------
(***************************************************************************)
(* The fonts of image.c: one character as an image (gff_create_font_rgba), *)
(* and all of them side by side on a sheet (gff_manager_font_load).  A     *)
(* pixel is the intensity its number has in the font's table of colours;   *)
(* how that mixes the two colours of the caller is left out.               *)
(***************************************************************************)
EXTENDS Integers, Sequences

CONSTANT None

(* A font: [height, chars, colors]; a character: [width, data], its rows   *)
(* from the top one after the other.  Intensity 0 is transparent, as is    *)
(* the memory of a new image.                                              *)
Clear == 0
Pixel(font, index) == IF font.colors[index] = 0 THEN Clear ELSE font.colors[index]

(* gff_create_font_rgba, of any character c.                               *)
CharImage(font, c) ==
    IF c < 0 \/ c >= Len(font.chars) THEN None
    ELSE LET char == font.chars[c + 1]
         IN  IF font.height <= 0 \/ char.width <= 0 THEN None
             ELSE [k \in 0 .. char.width * font.height - 1 |-> Pixel(font, char.data[k + 1])]

------------------------------------------------------------------------------
(* The widths of the first n characters together: total_width and, while   *)
(* the sheet is drawn, current_width.                                      *)
Widths(font) ==
    LET width[n \in 0 .. Len(font.chars)] ==
          IF n = 0 THEN 0 ELSE width[n - 1] + font.chars[n].width
    IN  width
TotalWidth(font) == Widths(font)[Len(font.chars)]

(* Where row x of a character begins whose left edge is at current_width:  *)
(* current_column starts in the last row and goes back by one row each.    *)
(* Mutant: it starts behind the sheet.                                     *)
RowBehind(font, current_width, x) ==
    current_width + TotalWidth(font) * (font.height - x)
CurrentColumn(font, current_width, x) ==
    current_width + TotalWidth(font) * (font.height - 1 - x)

(* Character n is drawn.                                                   *)
Drawn(font, pixels, n) ==
    LET char == font.chars[n]
        at(c) == CurrentColumn(font, Widths(font)[n - 1], c[1]) + c[2]
        cells == (0 .. font.height - 1) \X (0 .. char.width - 1)
    IN  [k \in DOMAIN pixels \cup {at(c) : c \in cells} |->
            IF \E c \in cells : k = at(c)
            THEN LET c == CHOOSE d \in cells : k = at(d)
                 IN  Pixel(font, char.data[c[1] * char.width + c[2] + 1])
            ELSE pixels[k]]

(* gff_manager_font_load: the sheet, its width w and its height h.         *)
Sheet(font) ==
    LET img[n \in 0 .. Len(font.chars)] ==
          IF n = 0 THEN [k \in 0 .. TotalWidth(font) * font.height - 1 |-> Clear]
          ELSE Drawn(font, img[n - 1], n)
    IN  [w |-> TotalWidth(font), h |-> font.height, pixels |-> img[Len(font.chars)]]
==============================================================================

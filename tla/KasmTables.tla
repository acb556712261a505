----------------------------- MODULE KasmTables -----------------------------
(***************************************************************************)
(* The tables of the assembler's parser, as bison made them of the grammar *)
(* in assembler.yy.  The first element of a sequence is the one of index 0.*)
(***************************************************************************)
EXTENDS Integers, Sequences

\* The element of an index.
Entry(table, i) == table[i + 1]

yypact_ninf == -83
yytable_ninf == -1
yyfinal == 2
yylast == 708
yyntokens == 99

\* A character that is a token of its own.
Comma == ","

\* The symbols' names: the tokens, in the order of their numbers, and what the rules
\* make of them.  A character that is in no rule has the third.
yytname ==
  <<"END_OF_FILE", "error", "$undefined", "END_OF_LINE", "IDENTIFIER", "LITERAL", "STRING",
    "REGISTER", "ARGUMENT_LIST", "TEXT", "DATA", "WORD", "BYTE", "ASCII", "ASCIIZ", "ALIGN",
    "SPACE", "INCLUDE", "ERROR", "MESSAGE", "MACRO", "DBG", "DEFINE", "DBGBP", "ADD", "ADDI",
    "ADDIU", "ADDU", "AND", "ANDI", "BEQ", "BGEZ", "BGEZAL", "BGTZ", "BLEZ", "BLTZ", "BLTZAL",
    "BNE", "DIV", "DIVU", "J", "JAL", "JR", "LB", "LUI", "LW", "MFHI", "MFLO", "MULT", "MULTU",
    "OR", "ORI", "SB", "SLL", "SLLV", "NOR", "SLT", "SLTI", "SLTIU", "SLTU", "SNE", "SEQ", "SRA",
    "SRL", "SRLV", "SUB", "SUBU", "SW", "SYS", "XOR", "XORI", "JALR", "COPY", "CLR", "B", "BAL",
    "BGT", "BLT", "BGE", "BLE", "BGTU", "BEQZ", "REM", "LI", "LA", "NOP", "NOT", "PUSHW", "POPW",
    "PUSHB", "POPB", "RET", "CALL", "ENTER", ":", "(", ")", Comma, "+", "$accept", "statement_list",
    "statement", "$@1", "$@2", "$@3", "$@4", "$@5", "$@6", "$@7", "$@8", "$@9", "$@10", "$@11",
    "$@12", "$@13", "literal_argument", "literal_list", "identifier_list",
    "identifier_list_not_empty", "direct_address", "address", "end_of_statement">>
yytranslate(type) ==
  LET numbers == {i \in 1 .. yyntokens : yytname[i] = type}
  IN  IF numbers = {} THEN 2 ELSE (CHOOSE i \in numbers : TRUE) - 1

yypact ==
  <<-83, 521, -83, 615, -72, 9, 9, 20, 20, 8, 26, 28, 29, 30, 31, 32, 4, 33, 24, 9, 34, 36, 37,
    38, 39, 40, 41, 42, 45, 46, 47, 48, 49, 50, 51, 52, 6, 6, 53, 54, 55, 56, 57, 58, 59, 60,
    62, 63, 64, 65, 66, 67, 68, 69, 70, 71, 72, 73, 74, 75, 76, 77, 78, 79, 9, 81, 82, 83, 84,
    85, 89, 89, 87, 88, 90, 95, 96, 98, 99, 100, 101, 9, 102, 104, 106, 107, 108, 9, 89, 9, -83,
    -83, -83, -83, -83, -83, -83, -83, -83, -59, -54, 9, -1, 9, 9, 9, 9, 9, 9, 9, 9, 21, 9, -83,
    -83, 25, 43, 44, 80, 86, 91, 93, 105, 115, 116, 117, 118, 119, 120, 121, 122, -82, 61, 110,
    -83, 9, 9, 9, 123, 124, 125, 9, 9, 126, 127, 129, 130, 131, 132, 133, 134, 135, 136, 137,
    138, 139, 140, 141, 142, 143, 144, 145, 146, -83, 147, 148, 1, 149, 9, -83, 9, 9, 150, 151,
    153, 154, 156, 157, 158, 159, 160, -83, 161, 9, 9, 9, 9, -83, 9, -83, 615, 111, 113, 152,
    -83, 22, -83, -83, -83, -83, -83, -83, -83, -83, 162, -83, 114, 615, 155, 163, 164, 165,
    166, 167, 10, 89, 89, 89, 89, 89, 89, 13, 168, 169, 171, 174, 173, 27, -83, -83, -83, 6,
    176, 6, -83, -83, 175, 177, 178, 179, 6, 185, 198, 252, 253, 254, 255, 256, 257, 258, 259,
    260, 261, 262, 263, 6, 264, 265, 266, -83, 267, -83, -83, -83, 268, 269, 270, 271, 272, 89,
    273, 276, 89, 278, -83, -83, -83, -83, -83, -83, -83, -83, -83, -83, -83, 615, 615, 615,
    -83, -66, -83, 615, -83, -83, 189, 190, 192, 193, 194, 195, 196, 197, 9, 9, 9, 9, 9, 9, 199,
    200, 2, 9, 202, 204, 205, -83, 9, 9, 9, 3, 9, 203, 206, 9, 207, 208, 209, 210, 211, 212,
    213, 214, 215, 216, 217, 218, 219, 220, 9, 221, 222, 9, 9, 223, 224, 225, 226, 227, 9, 234,
    9, 9, 9, 9, -83, -83, -83, 292, 298, -83, 9, 14, 327, 330, 329, 331, 332, 89, 89, -83, -83,
    -83, -83, -83, -83, 89, 89, 337, -83, -83, -83, 338, -83, -83, -83, -83, 342, -83, -83, 343,
    346, -83, 347, 350, 351, 352, 348, 349, 353, 355, 356, 361, 362, 363, 365, 370, -83, 371,
    364, -83, -83, 89, 89, 89, 89, 89, -83, 372, -83, -83, -83, -83, -83, -83, 615, 9, 9, 9, 9,
    9, 9, 9, 9, 9, 9, 9, 9, 284, 9, 9, 9, 9, 9, 9, 9, 9, 9, 9, 9, 9, 9, 9, 9, 9, 9, 9, 9, 9, 9,
    9, 9, 9, 9, 615, 128, -83, -83, -83, -83, -83, -83, -83, -83, -83, -83, -83, -83, -83, -83,
    -83, -83, -83, -83, -83, -83, -83, -83, -83, -83, -83, -83, -83, -83, -83, -83, -83, -83,
    -83, -83, -83, -83, -83, -83, -83, -83, -83, 9, 615, -83>>

yydefact ==
  <<3, 0, 7, 0, 0, 0, 0, 0, 0, 0, 0, 0, 0, 0, 0, 0, 0, 0, 0, 0, 0, 0, 0, 0, 0, 0, 0, 0, 0, 0, 0,
    0, 0, 0, 0, 0, 0, 0, 0, 0, 0, 0, 0, 0, 0, 0, 0, 0, 0, 0, 0, 0, 0, 0, 0, 0, 0, 0, 0, 0, 0, 0,
    0, 0, 0, 0, 0, 0, 0, 0, 0, 0, 0, 0, 0, 0, 0, 0, 0, 0, 0, 0, 0, 0, 0, 0, 0, 0, 0, 0, 2, 7, 6,
    4, 32, 131, 130, 8, 9, 116, 115, 0, 112, 0, 0, 0, 0, 0, 0, 0, 0, 0, 0, 26, 24, 0, 0, 0, 0,
    0, 0, 0, 0, 0, 0, 0, 0, 0, 0, 0, 0, 123, 0, 0, 124, 0, 0, 0, 0, 0, 0, 0, 0, 0, 0, 0, 0, 0,
    0, 0, 0, 0, 0, 0, 0, 0, 0, 0, 0, 0, 0, 0, 0, 79, 0, 0, 0, 0, 0, 123, 0, 0, 0, 0, 0, 0, 0, 0,
    0, 0, 0, 88, 0, 0, 0, 0, 0, 108, 0, 107, 0, 0, 0, 0, 10, 0, 11, 12, 13, 14, 15, 16, 18, 20,
    120, 22, 0, 0, 0, 0, 0, 0, 0, 0, 0, 0, 0, 0, 0, 0, 0, 0, 0, 0, 0, 0, 0, 0, 52, 53, 54, 0, 0,
    0, 58, 59, 0, 0, 0, 0, 0, 0, 0, 0, 0, 0, 0, 0, 0, 0, 0, 0, 0, 0, 0, 0, 0, 0, 0, 87, 0, 85,
    89, 90, 0, 0, 0, 0, 0, 0, 0, 0, 0, 0, 103, 104, 105, 106, 109, 5, 33, 114, 113, 118, 117, 0,
    0, 0, 121, 0, 119, 0, 27, 25, 0, 0, 0, 0, 0, 0, 0, 0, 0, 0, 0, 0, 0, 0, 0, 0, 0, 0, 0, 125,
    0, 126, 0, 0, 0, 0, 0, 0, 0, 0, 0, 0, 0, 0, 0, 0, 0, 0, 0, 0, 0, 0, 0, 0, 0, 0, 0, 0, 0, 0,
    0, 0, 0, 0, 0, 0, 0, 0, 0, 0, 17, 19, 21, 0, 0, 23, 0, 0, 0, 0, 0, 0, 0, 0, 0, 43, 44, 45,
    46, 47, 48, 0, 0, 0, 50, 51, 128, 0, 127, 55, 56, 57, 0, 60, 61, 0, 0, 64, 0, 0, 0, 0, 0, 0,
    0, 0, 0, 0, 0, 0, 0, 0, 78, 0, 0, 82, 84, 0, 0, 0, 0, 0, 96, 0, 110, 111, 102, 34, 29, 122,
    0, 0, 0, 0, 0, 0, 0, 0, 0, 0, 0, 0, 0, 0, 0, 0, 0, 0, 0, 0, 0, 0, 0, 0, 0, 0, 0, 0, 0, 0, 0,
    0, 0, 0, 0, 0, 0, 0, 0, 0, 0, 28, 86, 36, 37, 38, 39, 40, 41, 97, 42, 98, 49, 100, 129, 99,
    62, 63, 65, 66, 83, 67, 68, 69, 70, 71, 72, 73, 74, 75, 76, 77, 80, 81, 91, 92, 93, 94, 95,
    101, 35, 30, 0, 0, 31>>

yypgoto ==
  <<-83, -83, -3, -83, -83, -83, -83, -83, -83, -83, -83, -83, -83, -83, -83, -83, 360, -83,
    -83, -83, -20, -30, 23>>

yydefgoto ==
  <<-1, 1, 90, 190, 285, 286, 287, 291, 207, 206, 360, 464, 506, 191, 353, 463, 101, 102, 289,
    290, 134, 135, 97>>

yytable ==
  <<92, 95, 95, 95, 96, 96, 96, 136, 111, 95, 131, 132, 96, 224, 104, 300, 225, 301, 308, 425,
    309, 426, 93, 94, 99, 100, 283, 284, 113, 98, 357, 358, 105, 106, 107, 192, 108, 109, 110,
    112, 193, 115, 114, 116, 117, 118, 119, 120, 121, 122, 170, 171, 123, 124, 125, 126, 127,
    128, 129, 130, 137, 138, 139, 140, 141, 142, 143, 144, 188, 145, 146, 147, 148, 149, 150,
    151, 152, 153, 154, 155, 156, 157, 158, 159, 160, 161, 162, 163, 164, 165, 166, 167, 168,
    169, 172, 173, 195, 174, 258, 377, 386, 133, 175, 176, 181, 177, 178, 179, 180, 182, 187,
    183, 189, 184, 185, 186, 204, 227, 281, 280, 292, 0, 208, 315, 194, 0, 196, 197, 198, 199,
    200, 201, 202, 203, 505, 205, 0, 0, 0, 0, 209, 210, 0, 0, 0, 0, 0, 0, 0, 0, 0, 0, 0, 0, 0,
    0, 226, 282, 228, 229, 230, 0, 294, 0, 234, 235, 288, 0, 0, 0, 295, 296, 297, 298, 299, 310,
    311, 211, 312, 313, 314, 317, 319, 212, 320, 321, 322, 279, 213, 259, 214, 261, 324, 262,
    263, 302, 303, 304, 305, 306, 307, 316, 215, 318, 293, 325, 274, 275, 276, 277, 323, 278,
    216, 217, 218, 219, 220, 221, 222, 223, 231, 232, 233, 236, 237, 338, 238, 239, 240, 241,
    242, 243, 244, 245, 246, 247, 248, 249, 250, 251, 252, 253, 254, 255, 256, 257, 260, 264,
    265, 348, 266, 267, 351, 268, 269, 270, 271, 272, 273, 326, 327, 328, 329, 330, 331, 332,
    333, 334, 335, 336, 337, 339, 340, 341, 342, 343, 344, 345, 346, 347, 349, 350, 354, 355,
    356, 352, 361, 362, 359, 363, 364, 365, 366, 367, 368, 422, 375, 376, 380, 381, 389, 382,
    423, 390, 392, 393, 394, 395, 396, 397, 398, 399, 400, 401, 402, 403, 404, 405, 407, 408,
    411, 412, 413, 414, 415, 369, 370, 371, 372, 373, 374, 417, 427, 378, 379, 428, 429, 431,
    430, 383, 384, 385, 387, 388, 436, 437, 391, 432, 433, 438, 439, 440, 441, 445, 446, 434,
    435, 442, 443, 444, 447, 406, 448, 449, 409, 410, 450, 451, 103, 456, 452, 416, 453, 418,
    419, 420, 421, 454, 455, 462, 478, 0, 0, 424, 0, 0, 0, 0, 0, 0, 0, 457, 458, 459, 460, 461,
    0, 0, 0, 0, 0, 0, 0, 0, 0, 0, 0, 0, 0, 0, 0, 0, 0, 0, 0, 0, 0, 0, 0, 0, 0, 465, 0, 0, 0, 0,
    0, 0, 0, 0, 0, 0, 0, 0, 0, 0, 0, 0, 0, 0, 0, 0, 0, 0, 0, 0, 0, 0, 466, 467, 468, 469, 470,
    471, 472, 473, 474, 475, 476, 477, 504, 479, 480, 481, 482, 483, 484, 485, 486, 487, 488,
    489, 490, 491, 492, 493, 494, 495, 496, 497, 498, 499, 500, 501, 502, 503, 0, 0, 0, 0, 0, 0,
    0, 0, 0, 0, 0, 0, 0, 0, 0, 0, 0, 0, 508, 0, 0, 0, 0, 0, 0, 0, 0, 0, 0, 0, 0, 0, 0, 0, 0, 2,
    0, 0, 3, 4, 0, 0, 0, 507, 5, 6, 7, 8, 9, 10, 11, 12, 13, 14, 15, 16, 17, 18, 19, 20, 21, 22,
    23, 24, 25, 26, 27, 28, 29, 30, 31, 32, 33, 34, 35, 36, 37, 38, 39, 40, 41, 42, 43, 44, 45,
    46, 47, 48, 49, 50, 51, 52, 53, 54, 55, 56, 57, 58, 59, 60, 61, 62, 63, 64, 65, 66, 67, 68,
    69, 70, 71, 72, 73, 74, 75, 76, 77, 78, 79, 80, 81, 82, 83, 84, 85, 86, 87, 88, 89, 91, 0,
    0, 3, 4, 0, 0, 0, 0, 5, 6, 7, 8, 9, 10, 11, 12, 13, 14, 15, 16, 17, 18, 19, 20, 21, 22, 23,
    24, 25, 26, 27, 28, 29, 30, 31, 32, 33, 34, 35, 36, 37, 38, 39, 40, 41, 42, 43, 44, 45, 46,
    47, 48, 49, 50, 51, 52, 53, 54, 55, 56, 57, 58, 59, 60, 61, 62, 63, 64, 65, 66, 67, 68, 69,
    70, 71, 72, 73, 74, 75, 76, 77, 78, 79, 80, 81, 82, 83, 84, 85, 86, 87, 88, 89>>

yycheck ==
  <<3, 0, 0, 0, 3, 3, 3, 37, 4, 0, 4, 5, 3, 95, 6, 5, 98, 7, 5, 5, 7, 7, 94, 95, 4, 5, 4, 5, 4,
    6, 96, 97, 6, 5, 5, 94, 6, 6, 6, 6, 94, 7, 19, 7, 7, 7, 7, 7, 7, 7, 70, 71, 7, 7, 7, 7, 7,
    7, 7, 7, 7, 7, 7, 7, 7, 7, 7, 7, 88, 7, 7, 7, 7, 7, 7, 7, 7, 7, 7, 7, 7, 7, 7, 7, 7, 7, 7,
    64, 7, 7, 7, 7, 7, 4, 7, 7, 97, 7, 97, 97, 97, 95, 7, 7, 81, 7, 7, 7, 7, 7, 87, 7, 89, 7, 7,
    7, 95, 7, 5, 8, 6, -1, 97, 96, 101, -1, 103, 104, 105, 106, 107, 108, 109, 110, 6, 112, -1,
    -1, -1, -1, 97, 97, -1, -1, -1, -1, -1, -1, -1, -1, -1, -1, -1, -1, -1, -1, 95, 5, 135, 136,
    137, -1, 7, -1, 141, 142, 4, -1, -1, -1, 7, 7, 7, 7, 7, 7, 7, 97, 7, 5, 7, 5, 7, 97, 7, 7,
    7, 190, 97, 166, 97, 168, 7, 170, 171, 215, 216, 217, 218, 219, 220, 231, 97, 233, 207, 7,
    183, 184, 185, 186, 240, 188, 97, 97, 97, 97, 97, 97, 97, 97, 97, 97, 97, 97, 97, 255, 97,
    97, 97, 97, 97, 97, 97, 97, 97, 97, 97, 97, 97, 97, 97, 97, 97, 97, 97, 97, 97, 97, 97, 269,
    97, 97, 272, 97, 97, 97, 97, 97, 97, 7, 7, 7, 7, 7, 7, 7, 7, 7, 7, 7, 7, 7, 7, 7, 7, 7, 7,
    7, 7, 7, 7, 5, 285, 286, 287, 7, 97, 97, 291, 97, 97, 97, 97, 97, 97, 3, 97, 97, 96, 95, 97,
    96, 4, 97, 97, 97, 97, 97, 97, 97, 97, 97, 97, 97, 97, 97, 97, 97, 97, 97, 97, 97, 97, 97,
    97, 302, 303, 304, 305, 306, 307, 97, 5, 310, 311, 5, 7, 5, 7, 316, 317, 318, 319, 320, 7,
    7, 323, 367, 368, 7, 7, 5, 5, 5, 5, 375, 376, 7, 7, 7, 7, 338, 7, 7, 341, 342, 5, 5, 8, 5,
    7, 348, 7, 350, 351, 352, 353, 7, 7, 7, 96, -1, -1, 360, -1, -1, -1, -1, -1, -1, -1, 411,
    412, 413, 414, 415, -1, -1, -1, -1, -1, -1, -1, -1, -1, -1, -1, -1, -1, -1, -1, -1, -1, -1,
    -1, -1, -1, -1, -1, -1, -1, 424, -1, -1, -1, -1, -1, -1, -1, -1, -1, -1, -1, -1, -1, -1, -1,
    -1, -1, -1, -1, -1, -1, -1, -1, -1, -1, -1, 425, 426, 427, 428, 429, 430, 431, 432, 433,
    434, 435, 436, 463, 438, 439, 440, 441, 442, 443, 444, 445, 446, 447, 448, 449, 450, 451,
    452, 453, 454, 455, 456, 457, 458, 459, 460, 461, 462, -1, -1, -1, -1, -1, -1, -1, -1, -1,
    -1, -1, -1, -1, -1, -1, -1, -1, -1, 507, -1, -1, -1, -1, -1, -1, -1, -1, -1, -1, -1, -1, -1,
    -1, -1, -1, 0, -1, -1, 3, 4, -1, -1, -1, 506, 9, 10, 11, 12, 13, 14, 15, 16, 17, 18, 19, 20,
    21, 22, 23, 24, 25, 26, 27, 28, 29, 30, 31, 32, 33, 34, 35, 36, 37, 38, 39, 40, 41, 42, 43,
    44, 45, 46, 47, 48, 49, 50, 51, 52, 53, 54, 55, 56, 57, 58, 59, 60, 61, 62, 63, 64, 65, 66,
    67, 68, 69, 70, 71, 72, 73, 74, 75, 76, 77, 78, 79, 80, 81, 82, 83, 84, 85, 86, 87, 88, 89,
    90, 91, 92, 93, 0, -1, -1, 3, 4, -1, -1, -1, -1, 9, 10, 11, 12, 13, 14, 15, 16, 17, 18, 19,
    20, 21, 22, 23, 24, 25, 26, 27, 28, 29, 30, 31, 32, 33, 34, 35, 36, 37, 38, 39, 40, 41, 42,
    43, 44, 45, 46, 47, 48, 49, 50, 51, 52, 53, 54, 55, 56, 57, 58, 59, 60, 61, 62, 63, 64, 65,
    66, 67, 68, 69, 70, 71, 72, 73, 74, 75, 76, 77, 78, 79, 80, 81, 82, 83, 84, 85, 86, 87, 88,
    89, 90, 91, 92, 93>>

\* The symbol each state was reached by.
yystos ==
  <<0, 100, 0, 3, 4, 9, 10, 11, 12, 13, 14, 15, 16, 17, 18, 19, 20, 21, 22, 23, 24, 25, 26, 27,
    28, 29, 30, 31, 32, 33, 34, 35, 36, 37, 38, 39, 40, 41, 42, 43, 44, 45, 46, 47, 48, 49, 50,
    51, 52, 53, 54, 55, 56, 57, 58, 59, 60, 61, 62, 63, 64, 65, 66, 67, 68, 69, 70, 71, 72, 73,
    74, 75, 76, 77, 78, 79, 80, 81, 82, 83, 84, 85, 86, 87, 88, 89, 90, 91, 92, 93, 101, 0, 101,
    94, 95, 0, 3, 121, 121, 4, 5, 115, 116, 115, 6, 6, 5, 5, 6, 6, 6, 4, 6, 4, 121, 7, 7, 7, 7, 7,
    7, 7, 7, 7, 7, 7, 7, 7, 7, 7, 7, 4, 5, 95, 119, 120, 120, 7, 7, 7, 7, 7, 7, 7, 7, 7, 7, 7, 7,
    7, 7, 7, 7, 7, 7, 7, 7, 7, 7, 7, 7, 7, 7, 121, 7, 7, 7, 7, 7, 4, 119, 119, 7, 7, 7, 7, 7, 7,
    7, 7, 7, 121, 7, 7, 7, 7, 7, 121, 119, 121, 102, 112, 94, 94, 121, 97, 121, 121, 121, 121,
    121, 121, 121, 121, 95, 121, 108, 107, 97, 97, 97, 97, 97, 97, 97, 97, 97, 97, 97, 97, 97, 97,
    97, 97, 95, 98, 95, 7, 121, 121, 121, 97, 97, 97, 121, 121, 97, 97, 97, 97, 97, 97, 97, 97,
    97, 97, 97, 97, 97, 97, 97, 97, 97, 97, 97, 97, 97, 97, 97, 121, 97, 121, 121, 121, 97, 97,
    97, 97, 97, 97, 97, 97, 97, 97, 121, 121, 121, 121, 121, 101, 8, 5, 5, 4, 5, 103, 104, 105, 4,
    117, 118, 106, 6, 101, 7, 7, 7, 7, 7, 7, 5, 7, 119, 119, 119, 119, 119, 119, 5, 7, 7, 7, 7, 5,
    7, 96, 120, 5, 120, 7, 7, 7, 7, 120, 7, 7, 7, 7, 7, 7, 7, 7, 7, 7, 7, 7, 7, 7, 120, 7, 7, 7,
    7, 7, 7, 7, 7, 7, 119, 7, 5, 119, 7, 113, 101, 101, 101, 96, 97, 101, 109, 97, 97, 97, 97, 97,
    97, 97, 97, 121, 121, 121, 121, 121, 121, 97, 97, 97, 121, 121, 96, 95, 96, 121, 121, 121, 97,
    121, 121, 97, 97, 121, 97, 97, 97, 97, 97, 97, 97, 97, 97, 97, 97, 97, 97, 97, 121, 97, 97,
    121, 121, 97, 97, 97, 97, 97, 121, 97, 121, 121, 121, 121, 3, 4, 121, 5, 7, 5, 5, 7, 7, 5,
    119, 119, 119, 119, 7, 7, 7, 7, 5, 5, 7, 7, 7, 5, 5, 7, 7, 7, 5, 5, 7, 7, 7, 7, 5, 119, 119,
    119, 119, 119, 7, 114, 110, 101, 121, 121, 121, 121, 121, 121, 121, 121, 121, 121, 121, 121,
    96, 121, 121, 121, 121, 121, 121, 121, 121, 121, 121, 121, 121, 121, 121, 121, 121, 121, 121,
    121, 121, 121, 121, 121, 121, 121, 101, 6, 111, 121, 101>>

yyr1 ==
  <<0, 99, 100, 100, 102, 101, 101, 101, 101, 101, 101, 101, 101, 101, 101, 101, 103, 101, 104,
    101, 105, 101, 106, 101, 107, 101, 108, 109, 101, 110, 111, 101, 112, 113, 114, 101, 101,
    101, 101, 101, 101, 101, 101, 101, 101, 101, 101, 101, 101, 101, 101, 101, 101, 101, 101,
    101, 101, 101, 101, 101, 101, 101, 101, 101, 101, 101, 101, 101, 101, 101, 101, 101, 101,
    101, 101, 101, 101, 101, 101, 101, 101, 101, 101, 101, 101, 101, 101, 101, 101, 101, 101,
    101, 101, 101, 101, 101, 101, 101, 101, 101, 101, 101, 101, 101, 101, 101, 101, 101, 101,
    101, 101, 101, 115, 115, 115, 116, 116, 116, 116, 117, 117, 118, 118, 119, 120, 120, 120,
    120, 120, 120, 121, 121>>

yyr2 ==
  <<0, 2, 2, 0, 0, 4, 2, 1, 2, 2, 3, 3, 3, 3, 3, 3, 0, 5, 0, 5, 0, 5, 0, 5, 0, 4, 0, 0, 7, 0, 0,
    11, 0, 0, 0, 8, 7, 7, 7, 7, 7, 7, 7, 5, 5, 5, 5, 5, 5, 7, 5, 5, 3, 3, 3, 5, 5, 5, 3, 3, 5,
    5, 7, 7, 5, 7, 7, 7, 7, 7, 7, 7, 7, 7, 7, 7, 7, 7, 5, 2, 7, 7, 5, 7, 5, 3, 7, 3, 2, 3, 3, 7,
    7, 7, 7, 7, 5, 7, 7, 7, 7, 7, 5, 3, 3, 3, 3, 2, 2, 3, 5, 5, 1, 3, 3, 1, 1, 3, 3, 1, 0, 1, 3,
    1, 1, 3, 3, 4, 4, 6, 1, 1>>

=============================================================================

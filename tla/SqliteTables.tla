----------------------------- MODULE SqliteTables -----------------------------
(***************************************************************************)
(* The LALR(1) tables the package ships for SQLite 3.53.0, number for      *)
(* number as generated/3.53.0/parse.ts holds them.  Nothing here is        *)
(* rewritten or restricted to a sub-grammar: a model configured with this  *)
(* module runs the automaton the program runs.                             *)
(*                                                                         *)
(* JavaScript arrays count from 0 and sequences from 1: Lempar reads       *)
(* element i of an array as At(array, i).                                  *)
(***************************************************************************)
EXTENDS Integers, Sequences

----------------------------------------------------------------------------
(* export const constants *)

T_YY_MAX_SHIFT == 585
T_YY_MIN_SHIFTREDUCE == 858
T_YY_MAX_SHIFTREDUCE == 1270
T_YY_ERROR_ACTION == 1271
T_YY_ACCEPT_ACTION == 1272
T_YY_NO_ACTION == 1273
T_YY_MIN_REDUCE == 1274
T_YY_MAX_REDUCE == 1686
T_YY_ACTTAB_COUNT == 2353
T_YY_REDUCE_COUNT == 405
T_YYWILDCARD == 102
T_YYNTOKEN == 188
T_YYNSYMBOL == 314

----------------------------------------------------------------------------
(* The table arrays *)

T_yy_action == <<
  490, 230, 579, 133, 130, 188, 579, 1363, 391, 1337, 579, 382, 579, 402, 579, 383, 579, 1361,
  378, 406, 1396, 579, 48, 48, 274, 1317, 48, 48, 187, 538, 48, 48, 83, 83, 148, 148, 83, 83, 133,
  130, 188, 81, 81, 140, 141, 91, 1086, 1086, 1100, 1103, 1090, 1090, 138, 138, 139, 139, 139,
  139, 1320, 984, 335, 223, 1379, 406, 579, 133, 130, 188, 539, 133, 130, 188, 539, 378, 567,
  1015, 560, 533, 1314, 271, 186, 540, 1319, 1016, 83, 83, 1328, 140, 141, 91, 1086, 1086, 1100,
  1103, 1090, 1090, 138, 138, 139, 139, 139, 139, 384, 137, 137, 137, 137, 136, 136, 135, 135,
  135, 134, 131, 445, 1640, 381, 45, 984, 1642, 539, 380, 1624, 1640, 553, 570, 570, 570, 1302,
  433, 139, 139, 139, 139, 132, 445, 521, 1632, 406, 1300, 8, 187, 139, 139, 139, 139, 1549, 137,
  137, 137, 137, 136, 136, 135, 135, 135, 134, 131, 445, 133, 130, 188, 140, 141, 91, 1086, 1086,
  1100, 1103, 1090, 1090, 138, 138, 139, 139, 139, 139, 1623, 1592, 137, 137, 137, 137, 136, 136,
  135, 135, 135, 134, 131, 445, 137, 137, 137, 137, 136, 136, 135, 135, 135, 134, 131, 445, 1199,
  1681, 1230, 1681, 1228, 137, 137, 137, 137, 136, 136, 135, 135, 135, 134, 131, 445, 579, 282,
  137, 137, 137, 137, 136, 136, 135, 135, 135, 134, 131, 445, 1272, 1, 1, 585, 3, 1278, 21, 21,
  406, 218, 226, 376, 431, 890, 111, 573, 1632, 364, 1375, 8, 890, 417, 1585, 136, 136, 135, 135,
  135, 134, 131, 445, 1264, 140, 141, 91, 1086, 1086, 1100, 1103, 1090, 1090, 138, 138, 139, 139,
  139, 139, 426, 1302, 1197, 223, 1379, 244, 520, 223, 1379, 230, 581, 142, 581, 1354, 443, 442,
  567, 1558, 560, 579, 567, 405, 560, 1143, 890, 891, 890, 896, 1145, 157, 256, 890, 891, 890,
  460, 459, 1144, 486, 1472, 83, 83, 313, 512, 1355, 249, 137, 137, 137, 137, 136, 136, 135, 135,
  135, 134, 131, 445, 6, 478, 449, 428, 537, 1147, 1147, 579, 406, 281, 239, 372, 515, 367, 514,
  269, 376, 534, 545, 327, 561, 363, 298, 1633, 20, 20, 8, 83, 83, 896, 327, 561, 140, 141, 91,
  1086, 1086, 1100, 1103, 1090, 1090, 138, 138, 139, 139, 139, 139, 460, 437, 223, 1379, 488, 436,
  406, 223, 1379, 95, 331, 1662, 585, 3, 1278, 567, 539, 560, 1658, 226, 567, 1052, 560, 1199,
  1682, 535, 1682, 1375, 578, 157, 140, 141, 91, 1086, 1086, 1100, 1103, 1090, 1090, 138, 138,
  139, 139, 139, 139, 137, 137, 137, 137, 136, 136, 135, 135, 135, 134, 131, 445, 327, 561, 223,
  1379, 579, 577, 579, 443, 442, 264, 275, 1076, 509, 506, 505, 567, 526, 560, 300, 353, 479, 352,
  504, 544, 150, 150, 61, 61, 1063, 256, 327, 561, 1061, 137, 137, 137, 137, 136, 136, 135, 135,
  135, 134, 131, 445, 890, 1197, 488, 223, 1379, 444, 444, 444, 406, 890, 1147, 1147, 332, 449,
  1683, 399, 567, 527, 560, 1062, 1064, 1064, 159, 135, 135, 135, 134, 131, 445, 1367, 1367, 378,
  140, 141, 91, 1086, 1086, 1100, 1103, 1090, 1090, 138, 138, 139, 139, 139, 139, 1365, 1365,
  1244, 890, 536, 406, 967, 968, 425, 274, 96, 890, 891, 890, 264, 557, 161, 509, 506, 505, 890,
  891, 890, 401, 412, 890, 305, 504, 47, 140, 141, 91, 1086, 1086, 1100, 1103, 1090, 1090, 138,
  138, 139, 139, 139, 139, 984, 137, 137, 137, 137, 136, 136, 135, 135, 135, 134, 131, 445, 584,
  1149, 1278, 1472, 890, 891, 890, 226, 216, 1379, 1305, 412, 309, 127, 568, 1375, 4, 337, 982,
  928, 525, 567, 1373, 560, 577, 575, 890, 891, 890, 379, 571, 1623, 137, 137, 137, 137, 136, 136,
  135, 135, 135, 134, 131, 445, 223, 1379, 984, 223, 1379, 374, 513, 171, 406, 446, 223, 1379,
  378, 567, 929, 560, 567, 1298, 560, 1052, 157, 564, 25, 567, 890, 560, 474, 157, 569, 412, 256,
  157, 140, 141, 91, 1086, 1086, 1100, 1103, 1090, 1090, 138, 138, 139, 139, 139, 139, 244, 520,
  223, 1379, 1076, 488, 134, 131, 445, 44, 125, 125, 449, 461, 418, 567, 1630, 560, 126, 8, 446,
  580, 446, 890, 429, 1061, 890, 353, 479, 352, 528, 327, 561, 558, 209, 890, 891, 890, 327, 561,
  576, 1625, 327, 561, 484, 137, 137, 137, 137, 136, 136, 135, 135, 135, 134, 131, 445, 1062,
  1064, 1064, 1065, 36, 223, 1379, 1631, 223, 1379, 8, 579, 1623, 406, 890, 7, 255, 360, 567, 308,
  560, 567, 236, 560, 890, 891, 890, 890, 891, 890, 1244, 83, 83, 1155, 1154, 475, 234, 140, 141,
  91, 1086, 1086, 1100, 1103, 1090, 1090, 138, 138, 139, 139, 139, 139, 890, 1222, 1003, 1222,
  406, 413, 117, 98, 510, 1264, 1052, 1472, 549, 577, 1221, 323, 1221, 1223, 407, 1223, 890, 891,
  890, 579, 12, 378, 274, 2, 140, 141, 91, 1086, 1086, 1100, 1103, 1090, 1090, 138, 138, 139, 139,
  139, 139, 83, 83, 137, 137, 137, 137, 136, 136, 135, 135, 135, 134, 131, 445, 1222, 890, 891,
  890, 984, 224, 1379, 890, 353, 466, 338, 1264, 46, 1221, 548, 890, 1223, 575, 567, 406, 560,
  422, 439, 910, 210, 1087, 1087, 1101, 1104, 472, 246, 137, 137, 137, 137, 136, 136, 135, 135,
  135, 134, 131, 445, 140, 141, 91, 1086, 1086, 1100, 1103, 1090, 1090, 138, 138, 139, 139, 139,
  139, 406, 577, 579, 890, 902, 984, 1599, 890, 891, 890, 392, 879, 415, 251, 1623, 890, 891, 890,
  454, 462, 579, 41, 50, 50, 140, 141, 91, 1086, 1086, 1100, 1103, 1090, 1090, 138, 138, 139, 139,
  139, 139, 579, 51, 51, 1002, 1091, 579, 137, 137, 137, 137, 136, 136, 135, 135, 135, 134, 131,
  445, 579, 890, 21, 21, 890, 891, 890, 21, 21, 1626, 242, 1380, 1604, 469, 356, 406, 358, 420,
  1602, 1243, 83, 83, 427, 567, 456, 560, 163, 137, 137, 137, 137, 136, 136, 135, 135, 135, 134,
  131, 445, 140, 141, 91, 1086, 1086, 1100, 1103, 1090, 1090, 138, 138, 139, 139, 139, 139, 406,
  425, 440, 1124, 170, 890, 891, 890, 342, 897, 868, 869, 870, 267, 266, 265, 577, 1629, 577, 579,
  8, 1597, 579, 416, 140, 141, 91, 1086, 1086, 1100, 1103, 1090, 1090, 138, 138, 139, 139, 139,
  139, 83, 83, 1541, 21, 21, 1488, 137, 137, 137, 137, 136, 136, 135, 135, 135, 134, 131, 445,
  312, 1257, 488, 579, 577, 389, 425, 171, 1558, 1591, 301, 897, 339, 1628, 341, 406, 8, 237, 441,
  1077, 229, 373, 1655, 83, 83, 1554, 1556, 137, 137, 137, 137, 136, 136, 135, 135, 135, 134, 131,
  445, 140, 141, 91, 1086, 1086, 1100, 1103, 1090, 1090, 138, 138, 139, 139, 139, 139, 406, 291,
  579, 1000, 1057, 324, 1151, 1015, 577, 577, 1150, 371, 501, 1548, 1374, 1016, 398, 1269, 303,
  310, 144, 370, 66, 66, 140, 141, 91, 1086, 1086, 1100, 1103, 1090, 1090, 138, 138, 139, 139,
  139, 139, 268, 579, 1554, 473, 340, 406, 137, 137, 137, 137, 136, 136, 135, 135, 135, 134, 131,
  445, 905, 577, 577, 67, 67, 577, 1370, 468, 237, 1490, 471, 140, 141, 91, 1086, 1086, 1100,
  1103, 1090, 1090, 138, 138, 139, 139, 139, 139, 579, 137, 137, 137, 137, 136, 136, 135, 135,
  135, 134, 131, 445, 1270, 247, 555, 1076, 373, 1655, 1603, 21, 21, 241, 240, 398, 1198, 411,
  414, 190, 425, 1489, 1472, 905, 1063, 554, 432, 390, 1061, 171, 1001, 579, 425, 363, 1236, 1585,
  137, 137, 137, 137, 136, 136, 135, 135, 135, 134, 131, 445, 890, 1172, 579, 21, 21, 530, 579,
  373, 1655, 297, 1172, 1472, 1062, 1064, 1064, 425, 1173, 1222, 220, 223, 1379, 517, 21, 21, 124,
  1173, 23, 23, 572, 1491, 1221, 1174, 567, 1223, 560, 464, 579, 221, 304, 1235, 1174, 423, 1244,
  296, 90, 118, 579, 1270, 977, 486, 350, 114, 952, 976, 1341, 579, 21, 21, 890, 891, 890, 563,
  953, 373, 1655, 406, 52, 52, 457, 1171, 495, 556, 330, 287, 577, 68, 68, 577, 424, 355, 543,
  311, 289, 577, 1204, 406, 579, 547, 357, 140, 141, 91, 1086, 1086, 1100, 1103, 1090, 1090, 138,
  138, 139, 139, 139, 139, 579, 406, 53, 53, 541, 140, 141, 91, 1086, 1086, 1100, 1103, 1090,
  1090, 138, 138, 139, 139, 139, 139, 69, 69, 579, 293, 186, 140, 141, 91, 1086, 1086, 1100, 1103,
  1090, 1090, 138, 138, 139, 139, 139, 139, 579, 557, 70, 70, 268, 137, 137, 137, 137, 136, 136,
  135, 135, 135, 134, 131, 445, 579, 577, 579, 71, 71, 579, 328, 1600, 137, 137, 137, 137, 136,
  136, 135, 135, 135, 134, 131, 445, 72, 72, 73, 73, 1340, 54, 54, 579, 137, 137, 137, 137, 136,
  136, 135, 135, 135, 134, 131, 445, 579, 465, 579, 1611, 481, 542, 579, 55, 55, 579, 90, 470,
  579, 90, 579, 485, 579, 411, 579, 1580, 56, 56, 58, 58, 90, 122, 59, 59, 579, 60, 60, 326, 74,
  74, 146, 146, 147, 147, 75, 75, 90, 117, 579, 99, 233, 406, 492, 1414, 76, 76, 231, 1353, 977,
  940, 123, 1415, 120, 976, 1194, 494, 400, 242, 77, 77, 451, 406, 579, 453, 359, 140, 141, 91,
  1086, 1086, 1100, 1103, 1090, 1090, 138, 138, 139, 139, 139, 139, 1339, 406, 22, 22, 579, 140,
  129, 91, 1086, 1086, 1100, 1103, 1090, 1090, 138, 138, 139, 139, 139, 139, 165, 579, 17, 579,
  78, 78, 141, 91, 1086, 1086, 1100, 1103, 1090, 1090, 138, 138, 139, 139, 139, 139, 260, 62, 62,
  79, 79, 137, 137, 137, 137, 136, 136, 135, 135, 135, 134, 131, 445, 480, 579, 919, 493, 579,
  344, 579, 117, 137, 137, 137, 137, 136, 136, 135, 135, 135, 134, 131, 445, 579, 63, 63, 348, 80,
  80, 64, 64, 137, 137, 137, 137, 136, 136, 135, 135, 135, 134, 131, 445, 82, 82, 579, 913, 579,
  115, 579, 1357, 406, 579, 482, 579, 1000, 349, 1054, 117, 273, 1338, 487, 39, 273, 366, 174,
  174, 175, 175, 87, 87, 377, 65, 65, 149, 149, 306, 91, 1086, 1086, 1100, 1103, 1090, 1090, 138,
  138, 139, 139, 139, 139, 1248, 448, 579, 40, 295, 579, 489, 579, 273, 396, 396, 395, 284, 393,
  262, 913, 1251, 579, 502, 361, 270, 117, 84, 84, 294, 172, 172, 151, 151, 193, 1404, 334, 927,
  926, 934, 935, 166, 145, 145, 333, 579, 169, 579, 117, 1425, 137, 137, 137, 137, 136, 136, 135,
  135, 135, 134, 131, 445, 1471, 579, 247, 173, 173, 167, 167, 1131, 127, 568, 1399, 4, 195, 579,
  1127, 579, 270, 1018, 1019, 579, 179, 155, 155, 156, 1066, 571, 579, 1001, 127, 568, 579, 4,
  579, 154, 154, 152, 152, 10, 579, 153, 153, 194, 579, 1148, 1148, 571, 86, 86, 446, 322, 88, 88,
  85, 85, 1006, 975, 273, 124, 49, 49, 564, 1648, 57, 57, 562, 972, 1131, 124, 446, 974, 1411,
  124, 1146, 1146, 551, 894, 408, 162, 1476, 550, 564, 327, 561, 1066, 497, 1316, 1301, 1306,
  1290, 252, 1076, 1289, 1291, 1282, 551, 288, 125, 125, 318, 552, 319, 13, 518, 320, 126, 458,
  446, 580, 446, 397, 1076, 1061, 299, 250, 254, 1452, 125, 125, 463, 127, 568, 1457, 4, 302, 126,
  346, 446, 580, 446, 1445, 1462, 1061, 1461, 507, 491, 1583, 571, 243, 369, 1337, 1545, 347,
  1544, 1062, 1064, 1064, 1065, 36, 307, 351, 565, 388, 227, 228, 1292, 516, 1264, 1261, 1408,
  446, 1409, 1606, 1407, 1062, 1064, 1064, 1065, 36, 321, 295, 1406, 564, 238, 1244, 396, 396,
  395, 284, 393, 98, 1608, 1251, 1607, 207, 235, 551, 184, 1458, 197, 1550, 550, 14, 248, 1244,
  193, 94, 334, 97, 467, 500, 199, 1076, 203, 200, 333, 201, 202, 125, 125, 115, 204, 1464, 1463,
  127, 568, 126, 4, 446, 580, 446, 1539, 1584, 1061, 483, 15, 1582, 211, 1467, 100, 477, 571, 496,
  354, 217, 195, 213, 498, 214, 403, 1360, 1359, 1358, 179, 430, 106, 156, 1348, 404, 1331, 1330,
  919, 244, 1325, 446, 1062, 1064, 1064, 1065, 36, 1661, 1248, 448, 368, 194, 295, 564, 1323,
  1324, 1347, 396, 396, 395, 284, 393, 1322, 143, 1251, 434, 1654, 435, 1377, 529, 316, 375, 1244,
  317, 11, 1524, 276, 193, 438, 334, 1430, 1636, 1635, 1076, 119, 164, 408, 333, 1429, 125, 125,
  327, 561, 1386, 116, 325, 386, 126, 385, 446, 580, 446, 387, 546, 1061, 1378, 1376, 43, 582,
  127, 568, 1249, 4, 225, 283, 458, 285, 195, 286, 583, 160, 1287, 1279, 532, 176, 179, 571, 409,
  156, 191, 410, 177, 314, 861, 447, 232, 1062, 1064, 1064, 1065, 36, 178, 329, 450, 1189, 452,
  194, 92, 455, 446, 93, 253, 336, 192, 196, 1141, 1139, 180, 198, 1257, 955, 564, 257, 343, 24,
  258, 1244, 345, 1152, 273, 205, 1159, 1163, 206, 181, 182, 476, 419, 421, 208, 101, 408, 183,
  102, 1165, 259, 327, 561, 261, 1162, 5, 1076, 103, 212, 16, 878, 104, 125, 125, 981, 499, 89,
  568, 370, 4, 126, 263, 446, 580, 446, 458, 215, 1061, 503, 105, 26, 508, 362, 571, 27, 917, 127,
  568, 365, 4, 107, 930, 315, 185, 168, 28, 108, 519, 522, 1241, 511, 523, 110, 571, 109, 524,
  446, 1106, 1206, 1062, 1064, 1064, 1065, 36, 18, 1205, 112, 113, 564, 1122, 1107, 1105, 966,
  290, 245, 272, 446, 124, 292, 219, 1010, 1004, 1225, 29, 1227, 30, 1233, 31, 564, 1244, 32,
  1229, 117, 33, 1234, 1109, 34, 1110, 1076, 35, 559, 121, 9, 1170, 125, 125, 277, 37, 566, 19,
  278, 1067, 126, 895, 446, 580, 446, 128, 1076, 1061, 1211, 42, 574, 38, 125, 125, 222, 189, 158,
  279, 280, 1307, 126, 394, 446, 580, 446, 859, 531, 1061, 858, 1273, 1273, 1273, 1273, 1273,
  1273, 1273, 1273, 1273, 1273, 1062, 1064, 1064, 1065, 36, 1273, 1273, 1273, 1273, 1273, 1273,
  1273, 1273, 1273, 1273, 1273, 1273, 1273, 1273, 1273, 1062, 1064, 1064, 1065, 36, 1273, 1273,
  1273, 1273, 1273, 1244, 1273, 1273, 1273, 1273, 1273, 1273, 1273, 1273, 1273, 1273, 1273, 1273,
  1273, 1273, 1273, 1273, 1273, 1273, 1273, 1244
  >>

T_yy_lookahead == <<
  196, 196, 196, 273, 274, 275, 196, 223, 203, 225, 196, 219, 196, 208, 196, 219, 196, 233, 196,
  19, 255, 196, 216, 217, 24, 216, 216, 217, 196, 206, 216, 217, 216, 217, 216, 217, 216, 217,
  273, 274, 275, 216, 217, 43, 44, 45, 46, 47, 48, 49, 50, 51, 52, 53, 54, 55, 56, 57, 216, 59,
  196, 238, 239, 19, 196, 273, 274, 275, 252, 273, 274, 275, 252, 196, 251, 31, 253, 261, 215,
  256, 257, 261, 216, 39, 216, 217, 223, 43, 44, 45, 46, 47, 48, 49, 50, 51, 52, 53, 54, 55, 56,
  57, 277, 103, 104, 105, 106, 107, 108, 109, 110, 111, 112, 113, 114, 309, 310, 240, 118, 309,
  252, 311, 300, 309, 310, 212, 213, 214, 196, 261, 54, 55, 56, 57, 58, 114, 304, 305, 19, 207,
  308, 196, 54, 55, 56, 57, 282, 103, 104, 105, 106, 107, 108, 109, 110, 111, 112, 113, 114, 273,
  274, 275, 43, 44, 45, 46, 47, 48, 49, 50, 51, 52, 53, 54, 55, 56, 57, 300, 292, 103, 104, 105,
  106, 107, 108, 109, 110, 111, 112, 113, 114, 103, 104, 105, 106, 107, 108, 109, 110, 111, 112,
  113, 114, 22, 23, 86, 25, 88, 103, 104, 105, 106, 107, 108, 109, 110, 111, 112, 113, 114, 196,
  26, 103, 104, 105, 106, 107, 108, 109, 110, 111, 112, 113, 114, 188, 189, 190, 191, 192, 193,
  216, 217, 19, 25, 198, 196, 19, 59, 25, 304, 305, 24, 206, 308, 59, 231, 206, 107, 108, 109,
  110, 111, 112, 113, 114, 60, 43, 44, 45, 46, 47, 48, 49, 50, 51, 52, 53, 54, 55, 56, 57, 232,
  196, 102, 238, 239, 166, 167, 238, 239, 196, 205, 69, 207, 230, 107, 108, 251, 196, 253, 196,
  251, 208, 253, 116, 117, 118, 119, 59, 121, 81, 265, 117, 118, 119, 213, 214, 129, 268, 196,
  216, 217, 228, 96, 230, 120, 103, 104, 105, 106, 107, 108, 109, 110, 111, 112, 113, 114, 288,
  289, 294, 114, 196, 155, 156, 196, 19, 120, 121, 122, 123, 124, 125, 126, 196, 206, 252, 139,
  140, 132, 206, 305, 216, 217, 308, 216, 217, 118, 139, 140, 43, 44, 45, 46, 47, 48, 49, 50, 51,
  52, 53, 54, 55, 56, 57, 283, 263, 238, 239, 196, 232, 19, 238, 239, 67, 23, 190, 191, 192, 193,
  251, 252, 253, 196, 198, 251, 73, 253, 22, 23, 261, 25, 206, 196, 81, 43, 44, 45, 46, 47, 48,
  49, 50, 51, 52, 53, 54, 55, 56, 57, 103, 104, 105, 106, 107, 108, 109, 110, 111, 112, 113, 114,
  139, 140, 238, 239, 196, 196, 196, 107, 108, 120, 201, 101, 123, 124, 125, 251, 206, 253, 267,
  128, 129, 130, 133, 196, 216, 217, 216, 217, 118, 265, 139, 140, 122, 103, 104, 105, 106, 107,
  108, 109, 110, 111, 112, 113, 114, 59, 102, 196, 238, 239, 212, 213, 214, 19, 59, 155, 156, 23,
  294, 297, 298, 251, 252, 253, 154, 155, 156, 72, 109, 110, 111, 112, 113, 114, 235, 236, 196,
  43, 44, 45, 46, 47, 48, 49, 50, 51, 52, 53, 54, 55, 56, 57, 235, 236, 184, 59, 135, 19, 137,
  138, 196, 24, 24, 117, 118, 119, 120, 146, 72, 123, 124, 125, 117, 118, 119, 210, 211, 59, 267,
  133, 240, 43, 44, 45, 46, 47, 48, 49, 50, 51, 52, 53, 54, 55, 56, 57, 59, 103, 104, 105, 106,
  107, 108, 109, 110, 111, 112, 113, 114, 191, 11, 193, 196, 117, 118, 119, 198, 238, 239, 210,
  211, 206, 19, 20, 206, 22, 262, 109, 35, 95, 251, 206, 253, 196, 196, 117, 118, 119, 201, 36,
  300, 103, 104, 105, 106, 107, 108, 109, 110, 111, 112, 113, 114, 238, 239, 118, 238, 239, 241,
  66, 243, 19, 59, 238, 239, 196, 251, 74, 253, 251, 206, 253, 73, 81, 71, 22, 251, 59, 253, 263,
  81, 210, 211, 265, 81, 43, 44, 45, 46, 47, 48, 49, 50, 51, 52, 53, 54, 55, 56, 57, 166, 167,
  238, 239, 101, 196, 112, 113, 114, 240, 107, 108, 294, 121, 61, 251, 305, 253, 115, 308, 117,
  118, 119, 59, 131, 122, 59, 128, 129, 130, 206, 139, 140, 206, 22, 117, 118, 119, 139, 140, 302,
  303, 139, 140, 116, 103, 104, 105, 106, 107, 108, 109, 110, 111, 112, 113, 114, 154, 155, 156,
  157, 158, 238, 239, 305, 238, 239, 308, 196, 300, 19, 59, 22, 15, 23, 251, 267, 253, 251, 151,
  253, 117, 118, 119, 117, 118, 119, 184, 216, 217, 128, 129, 130, 151, 43, 44, 45, 46, 47, 48,
  49, 50, 51, 52, 53, 54, 55, 56, 57, 59, 76, 144, 76, 19, 199, 25, 152, 23, 60, 73, 196, 87, 196,
  89, 252, 89, 92, 201, 92, 117, 118, 119, 196, 22, 196, 24, 22, 43, 44, 45, 46, 47, 48, 49, 50,
  51, 52, 53, 54, 55, 56, 57, 216, 217, 103, 104, 105, 106, 107, 108, 109, 110, 111, 112, 113,
  114, 76, 117, 118, 119, 59, 238, 239, 59, 128, 129, 130, 60, 240, 89, 146, 59, 92, 196, 251, 19,
  253, 263, 252, 23, 22, 46, 47, 48, 49, 280, 196, 103, 104, 105, 106, 107, 108, 109, 110, 111,
  112, 113, 114, 43, 44, 45, 46, 47, 48, 49, 50, 51, 52, 53, 54, 55, 56, 57, 19, 196, 196, 59, 23,
  118, 201, 117, 118, 119, 16, 21, 196, 120, 300, 117, 118, 119, 125, 268, 196, 22, 216, 217, 43,
  44, 45, 46, 47, 48, 49, 50, 51, 52, 53, 54, 55, 56, 57, 196, 216, 217, 144, 122, 196, 103, 104,
  105, 106, 107, 108, 109, 110, 111, 112, 113, 114, 196, 59, 216, 217, 117, 118, 119, 216, 217,
  303, 25, 239, 196, 80, 77, 19, 79, 231, 196, 23, 216, 217, 231, 251, 196, 253, 22, 103, 104,
  105, 106, 107, 108, 109, 110, 111, 112, 113, 114, 43, 44, 45, 46, 47, 48, 49, 50, 51, 52, 53,
  54, 55, 56, 57, 19, 196, 252, 124, 23, 117, 118, 119, 16, 59, 7, 8, 9, 128, 129, 130, 196, 305,
  196, 196, 308, 201, 196, 201, 43, 44, 45, 46, 47, 48, 49, 50, 51, 52, 53, 54, 55, 56, 57, 216,
  217, 162, 216, 217, 272, 103, 104, 105, 106, 107, 108, 109, 110, 111, 112, 113, 114, 231, 25,
  196, 196, 196, 241, 196, 243, 196, 201, 262, 118, 77, 305, 79, 19, 308, 143, 252, 23, 196, 306,
  307, 216, 217, 213, 214, 103, 104, 105, 106, 107, 108, 109, 110, 111, 112, 113, 114, 43, 44, 45,
  46, 47, 48, 49, 50, 51, 52, 53, 54, 55, 56, 57, 19, 23, 196, 25, 23, 252, 29, 31, 196, 196, 33,
  122, 19, 201, 201, 39, 22, 23, 262, 267, 22, 132, 216, 217, 43, 44, 45, 46, 47, 48, 49, 50, 51,
  52, 53, 54, 55, 56, 57, 46, 196, 283, 65, 162, 19, 103, 104, 105, 106, 107, 108, 109, 110, 111,
  112, 113, 114, 59, 196, 196, 216, 217, 196, 201, 201, 143, 272, 201, 43, 44, 45, 46, 47, 48, 49,
  50, 51, 52, 53, 54, 55, 56, 57, 196, 103, 104, 105, 106, 107, 108, 109, 110, 111, 112, 113, 114,
  102, 119, 66, 101, 306, 307, 196, 216, 217, 107, 108, 22, 23, 116, 295, 296, 196, 272, 196, 117,
  118, 85, 231, 241, 122, 243, 144, 196, 196, 132, 94, 206, 103, 104, 105, 106, 107, 108, 109,
  110, 111, 112, 113, 114, 59, 12, 196, 216, 217, 19, 196, 306, 307, 100, 12, 196, 154, 155, 156,
  196, 27, 76, 231, 238, 239, 109, 216, 217, 25, 27, 216, 217, 87, 272, 89, 42, 251, 92, 253, 245,
  196, 231, 262, 147, 42, 263, 184, 134, 254, 160, 196, 102, 136, 268, 262, 116, 63, 141, 226,
  196, 216, 217, 117, 118, 119, 63, 73, 306, 307, 19, 216, 217, 196, 23, 289, 231, 163, 164, 196,
  216, 217, 196, 263, 201, 145, 262, 201, 196, 98, 19, 196, 146, 201, 43, 44, 45, 46, 47, 48, 49,
  50, 51, 52, 53, 54, 55, 56, 57, 196, 19, 216, 217, 19, 43, 44, 45, 46, 47, 48, 49, 50, 51, 52,
  53, 54, 55, 56, 57, 216, 217, 196, 256, 257, 43, 44, 45, 46, 47, 48, 49, 50, 51, 52, 53, 54, 55,
  56, 57, 196, 146, 216, 217, 46, 103, 104, 105, 106, 107, 108, 109, 110, 111, 112, 113, 114, 196,
  196, 196, 216, 217, 196, 201, 196, 103, 104, 105, 106, 107, 108, 109, 110, 111, 112, 113, 114,
  216, 217, 216, 217, 226, 216, 217, 196, 103, 104, 105, 106, 107, 108, 109, 110, 111, 112, 113,
  114, 196, 245, 196, 196, 245, 117, 196, 216, 217, 196, 254, 196, 196, 254, 196, 245, 196, 116,
  196, 196, 216, 217, 216, 217, 254, 160, 216, 217, 196, 216, 217, 245, 216, 217, 216, 217, 216,
  217, 216, 217, 254, 25, 196, 150, 151, 19, 19, 196, 216, 217, 24, 23, 136, 25, 159, 196, 161,
  141, 23, 196, 25, 25, 216, 217, 131, 19, 196, 134, 196, 43, 44, 45, 46, 47, 48, 49, 50, 51, 52,
  53, 54, 55, 56, 57, 226, 19, 216, 217, 196, 43, 44, 45, 46, 47, 48, 49, 50, 51, 52, 53, 54, 55,
  56, 57, 22, 196, 24, 196, 216, 217, 44, 45, 46, 47, 48, 49, 50, 51, 52, 53, 54, 55, 56, 57, 24,
  216, 217, 216, 217, 103, 104, 105, 106, 107, 108, 109, 110, 111, 112, 113, 114, 130, 196, 127,
  117, 196, 23, 196, 25, 103, 104, 105, 106, 107, 108, 109, 110, 111, 112, 113, 114, 196, 216,
  217, 153, 216, 217, 216, 217, 103, 104, 105, 106, 107, 108, 109, 110, 111, 112, 113, 114, 216,
  217, 196, 59, 196, 150, 196, 196, 19, 196, 130, 196, 25, 23, 23, 25, 25, 196, 23, 22, 25, 196,
  216, 217, 216, 217, 216, 217, 196, 216, 217, 216, 217, 153, 45, 46, 47, 48, 49, 50, 51, 52, 53,
  54, 55, 56, 57, 1, 2, 196, 53, 5, 196, 23, 196, 25, 10, 11, 12, 13, 14, 142, 118, 17, 196, 23,
  23, 25, 25, 216, 217, 22, 216, 217, 216, 217, 30, 258, 32, 121, 122, 7, 8, 23, 216, 217, 40,
  196, 23, 196, 25, 196, 103, 104, 105, 106, 107, 108, 109, 110, 111, 112, 113, 114, 196, 196,
  119, 216, 217, 216, 217, 59, 19, 20, 196, 22, 70, 196, 23, 196, 25, 83, 84, 196, 78, 216, 217,
  81, 59, 36, 196, 144, 19, 20, 196, 22, 196, 216, 217, 216, 217, 48, 196, 216, 217, 99, 196, 155,
  156, 36, 216, 217, 59, 255, 216, 217, 216, 217, 23, 23, 25, 25, 216, 217, 71, 313, 216, 217,
  236, 23, 118, 25, 59, 23, 196, 25, 155, 156, 85, 23, 134, 25, 196, 90, 71, 139, 140, 118, 285,
  196, 196, 142, 196, 293, 101, 196, 196, 196, 85, 284, 107, 108, 255, 90, 255, 244, 146, 255,
  115, 163, 117, 118, 119, 194, 101, 122, 246, 293, 293, 266, 107, 108, 259, 19, 20, 270, 22, 259,
  115, 290, 117, 118, 119, 266, 270, 122, 270, 220, 290, 270, 36, 229, 219, 225, 219, 247, 219,
  154, 155, 156, 157, 158, 247, 246, 279, 246, 241, 241, 202, 116, 60, 38, 260, 59, 260, 218, 260,
  154, 155, 156, 157, 158, 259, 5, 260, 71, 244, 184, 10, 11, 12, 13, 14, 152, 218, 17, 218, 22,
  151, 85, 43, 271, 234, 282, 90, 269, 293, 184, 30, 291, 32, 291, 18, 18, 237, 101, 200, 237, 40,
  237, 237, 107, 108, 150, 200, 271, 271, 19, 20, 115, 22, 117, 118, 119, 247, 247, 122, 247, 269,
  247, 234, 234, 159, 62, 36, 287, 286, 22, 70, 200, 221, 200, 221, 218, 218, 218, 78, 64, 22, 81,
  227, 221, 224, 224, 127, 166, 218, 59, 154, 155, 156, 157, 158, 0, 1, 2, 218, 99, 5, 71, 218,
  220, 227, 10, 11, 12, 13, 14, 218, 149, 17, 24, 307, 114, 242, 301, 281, 221, 184, 281, 22, 276,
  91, 30, 82, 32, 264, 312, 312, 101, 159, 165, 134, 40, 264, 107, 108, 139, 140, 250, 148, 278,
  248, 115, 249, 117, 118, 119, 247, 147, 122, 242, 242, 25, 204, 19, 20, 13, 22, 200, 197, 163,
  197, 70, 6, 195, 222, 195, 195, 141, 209, 78, 36, 299, 81, 296, 299, 209, 222, 4, 3, 22, 154,
  155, 156, 157, 158, 209, 122, 19, 122, 19, 99, 22, 125, 59, 22, 15, 140, 16, 152, 23, 23, 131,
  143, 25, 20, 71, 145, 16, 22, 116, 184, 162, 68, 25, 68, 75, 1, 143, 131, 131, 41, 61, 37, 152,
  53, 134, 131, 53, 117, 34, 139, 140, 24, 1, 5, 101, 53, 116, 24, 20, 53, 107, 108, 109, 19, 19,
  20, 132, 22, 115, 126, 117, 118, 119, 163, 22, 122, 67, 22, 22, 67, 23, 36, 22, 59, 19, 20, 24,
  22, 22, 28, 67, 37, 23, 34, 150, 22, 146, 23, 97, 22, 25, 36, 34, 147, 59, 23, 23, 154, 155,
  156, 157, 158, 22, 98, 143, 143, 71, 23, 23, 23, 136, 23, 142, 34, 59, 25, 23, 22, 117, 144, 88,
  34, 86, 34, 93, 34, 71, 184, 34, 75, 25, 34, 75, 23, 22, 11, 101, 22, 25, 25, 44, 23, 107, 108,
  22, 22, 25, 22, 142, 23, 115, 23, 117, 118, 119, 22, 101, 122, 23, 22, 24, 34, 107, 108, 25, 25,
  23, 142, 142, 142, 115, 15, 117, 118, 119, 1, 141, 122, 1, 314, 314, 314, 314, 314, 314, 314,
  314, 314, 314, 154, 155, 156, 157, 158, 314, 314, 314, 314, 314, 314, 314, 314, 314, 314, 314,
  314, 314, 314, 314, 154, 155, 156, 157, 158, 314, 314, 314, 314, 314, 184, 314, 314, 314, 314,
  314, 314, 314, 314, 314, 314, 314, 314, 314, 314, 314, 314, 314, 314, 314, 184, 314, 314, 314,
  314, 314, 314, 314, 314, 314, 314, 314, 314, 314, 314, 314, 314, 314, 314, 314, 314, 314, 314,
  314, 314, 314, 314, 314, 314, 314, 314, 314, 314, 314, 314, 314, 314, 314, 314, 314, 314, 314,
  314, 314, 314, 314, 314, 314, 314, 314, 314, 314, 314, 314, 314, 314, 314, 314, 314, 314, 314,
  314, 314, 314, 314, 314, 314, 314, 314, 314, 314, 314, 314, 314, 314, 314, 314, 314, 314, 314,
  314, 314, 314, 314, 314, 314, 314, 314, 314, 314, 314, 314, 314, 314, 314, 314, 314, 314, 314,
  314, 314, 314, 314, 314, 314, 314, 314, 314, 314, 314, 314, 314, 314, 314, 314, 314, 314, 314,
  314, 314, 314, 314, 314, 314, 314, 314, 314, 314, 188, 188, 188, 188, 188, 188, 188, 188, 188,
  188, 188, 188, 188, 188, 188, 188, 188, 188, 188, 188, 188, 188, 188, 188, 188, 188, 188, 188,
  188, 188, 188, 188, 188, 188, 188, 188, 188, 188, 188, 188, 188, 188, 188, 188, 188, 188, 188,
  188, 188, 188, 188, 188, 188, 188, 188, 188, 188, 188, 188, 188, 188
  >>

T_yy_shift_ofst == <<
  1696, 2013, 585, 1918, 585, 333, 581, 229, 1743, 1763, 1854, 2168, 2168, 2168, 574, 229, 229,
  229, 229, 229, 0, 44, 44, 327, 2168, 2168, 2168, 2168, 2168, 2168, 2168, 2168, 2168, 2168, 2168,
  2168, 2168, 2168, 2168, 188, 188, 1209, 1209, 428, 218, 218, 218, 218, 119, 223, 372, 476, 520,
  624, 733, 776, 848, 887, 959, 998, 1070, 1109, 1153, 1314, 1334, 1495, 1354, 1354, 1354, 1354,
  1354, 1354, 1354, 1354, 1354, 1354, 1354, 1354, 1354, 1354, 1354, 1354, 1354, 1354, 1515, 1354,
  1535, 1639, 1639, 1948, 2056, 2148, 2168, 2168, 2168, 2168, 2168, 2168, 2168, 2168, 2168, 2168,
  2168, 2168, 2168, 2168, 2168, 2168, 2168, 2168, 2168, 2168, 2168, 2168, 2168, 2168, 2168, 2168,
  2168, 2168, 2168, 2168, 2168, 2168, 2168, 2168, 2168, 2168, 2168, 2168, 2168, 2168, 2168, 2168,
  2168, 2168, 2168, 2168, 2168, 2168, 2168, 2168, 2168, 2168, 2168, 76, 88, 88, 88, 88, 88, 88,
  88, 105, 150, 401, 437, 478, 195, 600, 1121, 600, 342, 342, 600, 600, 516, 576, 120, 120, 120,
  303, 21, 21, 2353, 2353, 227, 227, 227, 646, 694, 694, 694, 694, 1257, 1257, 732, 716, 796, 195,
  181, 386, 600, 600, 600, 600, 600, 600, 600, 600, 600, 600, 600, 600, 600, 600, 600, 600, 600,
  600, 600, 600, 600, 600, 600, 600, 403, 600, 600, 600, 772, 772, 600, 403, 403, 600, 896, 718,
  718, 249, 249, 249, 2353, 2353, 2353, 2353, 2353, 2353, 2353, 1126, 352, 352, 850, 331, 905,
  500, 649, 804, 600, 600, 600, 600, 600, 600, 600, 600, 728, 600, 600, 600, 600, 600, 600, 600,
  600, 575, 575, 575, 600, 600, 600, 1106, 600, 600, 600, 793, 1160, 1266, 600, 600, 600, 600,
  600, 600, 600, 600, 600, 799, 644, 1105, 519, 519, 519, 1637, 1180, 1020, 205, 740, 610, 1362,
  948, 1357, 1362, 1357, 1496, 1505, 610, 610, 1505, 610, 948, 1496, 1485, 1497, 1370, 1104, 1104,
  1104, 1203, 1203, 1203, 1203, 1357, 1267, 1267, 1364, 1050, 1385, 1551, 1793, 1850, 1793, 1793,
  1873, 1873, 1781, 1787, 1915, 1897, 1934, 1934, 1934, 1934, 1935, 1813, 1935, 1813, 1787, 1787,
  1813, 1915, 1813, 1897, 1897, 1823, 1921, 1935, 1965, 1935, 1965, 1793, 1793, 1793, 1933, 1976,
  1976, 1965, 1793, 1877, 1793, 1933, 1793, 1793, 1839, 1880, 2007, 1919, 1919, 1965, 2018, 1951,
  1951, 1962, 1962, 1891, 1886, 1912, 1922, 1813, 1880, 1880, 2048, 1935, 2064, 2064, 2078, 2078,
  2078, 2353, 2353, 2353, 2353, 2353, 2353, 2353, 2353, 827, 1177, 1009, 1122, 1213, 902, 967,
  900, 1504, 1402, 1647, 1592, 1480, 1530, 1640, 635, 1641, 1645, 1680, 1569, 1692, 1693, 1594,
  1608, 1724, 1017, 1715, 1710, 1254, 1702, 1745, 1785, 1688, 1786, 1796, 1800, 1642, 1671, 1806,
  1719, 1699, 2095, 2097, 2079, 1986, 2090, 1988, 2092, 2091, 2094, 1989, 2102, 2103, 2098, 2099,
  1978, 1968, 1992, 2100, 2100, 1981, 2106, 1983, 2113, 2108, 2015, 1971, 2066, 2110, 2068, 2062,
  2101, 2137, 1996, 2009, 2100, 2010, 2082, 2107, 2100, 1993, 2093, 2096, 2105, 2109, 2017, 2033,
  2117, 2130, 2154, 2151, 2043, 2136, 2141, 2147, 2037, 2046, 2155, 2112, 2158, 2159, 2160, 2163,
  2115, 2127, 2165, 2104, 2164, 2169, 2126, 2157, 2172, 2162, 2047, 2176, 2177, 2171, 2053, 2180,
  2059, 2185, 2178, 2186, 2193, 2118, 2074, 2075, 2197, 2198, 2199, 2087, 2083, 2201, 2203, 2206,
  2114, 2192, 2208, 2088, 2203, 2200, 2202, 2204, 2207, 2145, 2167, 2149, 2209, 2170, 2144, 2218,
  2210, 2223, 2225, 2226, 2228, 2227, 2231, 2235, 2237, 2236, 2234, 2238, 2239, 2241, 2246, 2240,
  2248, 2250, 2249, 2252, 2119, 2138, 2139, 2140, 2253, 2256, 2269, 2287, 2290
  >>

T_yy_reduce_ofst == <<
  46, 206, 149, 400, 252, 50, 1049, -177, -194, -190, -186, -184, -180, -132, 154, 397, 407, 446,
  506, 509, -235, -208, -204, -114, 24, 749, 754, 843, 1015, 104, 1055, 1074, 554, 1108, 618, 767,
  -175, 840, 881, 102, 886, -168, -55, 94, 361, 615, 361, 615, -270, -270, -270, -270, -270, -270,
  -270, -270, -270, -270, -270, -270, -270, -270, -270, -270, -270, -270, -270, -270, -270, -270,
  -270, -270, -270, -270, -270, -270, -270, -270, -270, -270, -270, -270, -270, -270, -270, -270,
  -270, -270, -270, -182, 146, 250, 712, 730, 934, 972, 1078, 1118, 1127, 1158, 1176, 1198, 1216,
  1233, 1235, 1238, 1260, 1273, 1275, 1279, 1282, 1285, 1287, 1289, 1291, 1301, 1315, 1339, 1361,
  1378, 1380, 1415, 1418, 1420, 1434, 1456, 1458, 1460, 1463, 1465, 1503, 1506, 1508, 1518, 1541,
  1543, 1559, 1571, 1573, 1577, 1584, 1588, 1590, 1596, 1600, -270, -270, -270, -270, -270, -270,
  -270, -270, -270, -270, -270, -123, 322, 86, 451, -216, 620, -87, 280, 420, -195, 789, -270,
  922, 969, 1025, 735, -270, -270, -270, -270, -137, -137, -137, -136, 193, 293, 491, 880, 281,
  299, 251, 56, 419, -68, 204, 204, 608, 711, 837, 839, 346, 822, 884, 882, 940, 941, 990, 991,
  994, 398, 1044, 606, 1056, 1046, 1083, 1087, 1146, 1149, 1155, 49, 399, 158, -178, 123, 393,
  441, 669, 838, 1006, 1234, 597, 729, 782, 347, 391, 453, 943, 1058, 1225, 1228, 1239, 1139,
  1255, -191, -158, -134, -196, 64, 207, 217, 269, 682, 722, 779, 785, 791, 898, 1034, 1140, 1240,
  657, 1276, 1284, 1292, 1320, 1328, 1332, 1341, 1461, 1096, 1227, 1327, 1471, 1475, 1482, 1469,
  1545, 1558, 1568, 1548, 1502, 1582, 1628, 1636, 217, 1643, 1644, 1646, 1649, 1650, 1651, 1550,
  1553, 1565, 1597, 1599, 1602, 1469, 1611, 1669, 1574, 1575, 1605, 1603, 1620, 1613, 1617, 1618,
  1589, 1648, 1614, 1616, 1655, 1619, 1657, 1598, 1667, 1662, 1668, 1673, 1675, 1677, 1652, 1654,
  1656, 1664, 1663, 1665, 1666, 1625, 1659, 1682, 1706, 1697, 1653, 1716, 1718, 1658, 1660, 1661,
  1670, 1676, 1708, 1717, 1720, 1722, 1723, 1756, 1727, 1764, 1728, 1694, 1695, 1730, 1709, 1732,
  1746, 1747, 1698, 1700, 1789, 1769, 1791, 1771, 1775, 1776, 1777, 1773, 1778, 1779, 1780, 1788,
  1801, 1798, 1795, 1802, 1810, 1725, 1792, 1734, 1755, 1758, 1816, 1765, 1735, 1736, 1782, 1790,
  1783, 1809, 1815, 1814, 1821, 1829, 1830, 1870, 1879, 1883, 1885, 1890, 1892, 1893, 1794, 1797,
  1799, 1881, 1888, 1864, 1876, 1898
  >>

T_yy_default == <<
  1616, 1616, 1534, 1616, 1271, 1271, 1271, 1405, 1271, 1271, 1271, 1534, 1534, 1534, 1271, 1271,
  1271, 1271, 1271, 1271, 1401, 1433, 1433, 1594, 1271, 1271, 1271, 1271, 1271, 1271, 1271, 1271,
  1271, 1271, 1271, 1271, 1532, 1271, 1271, 1271, 1271, 1634, 1634, 1271, 1618, 1617, 1271, 1271,
  1271, 1442, 1271, 1271, 1271, 1449, 1271, 1271, 1271, 1271, 1271, 1271, 1535, 1536, 1271, 1271,
  1271, 1271, 1593, 1595, 1551, 1577, 1456, 1455, 1454, 1453, 1444, 1421, 1447, 1440, 1528, 1529,
  1527, 1531, 1535, 1536, 1271, 1443, 1495, 1512, 1494, 1271, 1271, 1271, 1271, 1271, 1271, 1271,
  1271, 1271, 1271, 1271, 1271, 1271, 1271, 1271, 1271, 1271, 1271, 1271, 1271, 1271, 1271, 1271,
  1271, 1271, 1271, 1271, 1271, 1271, 1271, 1271, 1271, 1271, 1271, 1271, 1271, 1271, 1271, 1271,
  1271, 1271, 1271, 1271, 1271, 1271, 1271, 1271, 1271, 1271, 1271, 1271, 1271, 1271, 1271, 1271,
  1271, 1504, 1511, 1510, 1509, 1518, 1508, 1505, 1497, 1496, 1498, 1499, 1271, 1271, 1299, 1271,
  1362, 1271, 1271, 1271, 1271, 1271, 1484, 1500, 1486, 1485, 1487, 1271, 1515, 1501, 1514, 1513,
  1601, 1304, 1303, 1552, 1271, 1271, 1271, 1271, 1271, 1271, 1271, 1634, 1271, 1271, 1271, 1271,
  1271, 1598, 1596, 1271, 1271, 1271, 1271, 1271, 1271, 1271, 1271, 1271, 1271, 1271, 1271, 1271,
  1271, 1271, 1271, 1271, 1271, 1271, 1271, 1271, 1427, 1271, 1271, 1271, 1634, 1634, 1271, 1427,
  1427, 1271, 1296, 1634, 1634, 1308, 1308, 1308, 1612, 1395, 1395, 1395, 1395, 1405, 1395, 1271,
  1271, 1271, 1271, 1271, 1271, 1271, 1271, 1271, 1271, 1271, 1271, 1271, 1271, 1271, 1271, 1271,
  1271, 1271, 1271, 1271, 1271, 1271, 1271, 1271, 1271, 1271, 1271, 1271, 1271, 1271, 1271, 1271,
  1271, 1271, 1271, 1401, 1271, 1271, 1271, 1271, 1271, 1271, 1271, 1271, 1271, 1271, 1281, 1679,
  1271, 1569, 1401, 1401, 1401, 1403, 1394, 1283, 1679, 1679, 1459, 1448, 1402, 1424, 1448, 1424,
  1676, 1446, 1459, 1459, 1446, 1459, 1402, 1676, 1334, 1671, 1327, 1433, 1433, 1433, 1423, 1423,
  1423, 1423, 1424, 1427, 1427, 1530, 1402, 1394, 1271, 1364, 1679, 1364, 1364, 1678, 1678, 1552,
  1466, 1469, 1366, 1372, 1372, 1372, 1372, 1293, 1446, 1293, 1446, 1466, 1466, 1446, 1469, 1446,
  1366, 1366, 1576, 1574, 1293, 1542, 1293, 1542, 1364, 1364, 1364, 1349, 1271, 1271, 1542, 1364,
  1334, 1364, 1349, 1364, 1364, 1656, 1441, 1271, 1546, 1546, 1542, 1537, 1647, 1647, 1436, 1436,
  1271, 1385, 1439, 1437, 1446, 1441, 1441, 1352, 1293, 1666, 1666, 1280, 1280, 1280, 1684, 1684,
  1612, 1315, 1315, 1336, 1336, 1315, 1271, 1271, 1271, 1271, 1271, 1271, 1309, 1271, 1271, 1271,
  1553, 1271, 1271, 1271, 1271, 1271, 1271, 1271, 1271, 1412, 1271, 1271, 1271, 1271, 1271, 1271,
  1271, 1271, 1619, 1271, 1271, 1271, 1271, 1271, 1271, 1271, 1271, 1271, 1271, 1271, 1474, 1271,
  1276, 1609, 1271, 1271, 1271, 1271, 1271, 1271, 1271, 1271, 1271, 1271, 1271, 1271, 1271, 1271,
  1450, 1451, 1271, 1271, 1271, 1271, 1271, 1271, 1271, 1271, 1573, 1572, 1271, 1271, 1271, 1271,
  1271, 1465, 1271, 1271, 1271, 1460, 1271, 1271, 1271, 1271, 1271, 1271, 1271, 1271, 1413, 1271,
  1271, 1271, 1271, 1271, 1271, 1271, 1271, 1271, 1271, 1271, 1271, 1271, 1271, 1271, 1332, 1271,
  1271, 1271, 1271, 1271, 1271, 1271, 1271, 1271, 1271, 1271, 1271, 1271, 1271, 1271, 1271, 1271,
  1271, 1271, 1271, 1271, 1271, 1271, 1271, 1271, 1381, 1271, 1271, 1533, 1271, 1271, 1271, 1271,
  1271, 1438, 1271, 1271, 1271, 1271, 1271, 1271, 1271, 1271, 1271, 1271, 1428, 1271, 1271, 1271,
  1389, 1271, 1271, 1271, 1271, 1271, 1271, 1387, 1271, 1271, 1271, 1271, 1271, 1271, 1271, 1271,
  1653, 1410, 1475, 1271, 1479, 1297, 1271, 1288, 1271, 1271
  >>

T_yyFallback == <<
  0, 0, 59, 59, 59, 59, 0, 59, 59, 59, 0, 59, 59, 59, 59, 0, 0, 0, 59, 0, 0, 59, 0, 0, 0, 0, 59,
  59, 59, 59, 59, 59, 59, 59, 59, 59, 59, 59, 59, 59, 59, 59, 59, 0, 0, 0, 59, 59, 0, 0, 0, 0, 0,
  0, 0, 0, 0, 0, 0, 0, 59, 59, 59, 59, 59, 59, 59, 59, 59, 59, 59, 59, 59, 59, 59, 59, 59, 59, 59,
  59, 59, 59, 59, 59, 59, 59, 59, 59, 59, 59, 59, 59, 59, 59, 59, 59, 59, 59, 59, 59, 59, 59, 0,
  0, 0, 0, 0, 0, 0, 0, 0, 0, 0, 0, 0, 0, 0, 0, 0, 0, 0, 0, 0, 0, 0, 0, 0, 0, 0, 0, 0, 0, 0, 0, 0,
  0, 0, 0, 0, 0, 0, 0, 0, 0, 0, 0, 0, 0, 0, 0, 0, 0, 0, 0, 0, 0, 0, 0, 0, 0, 0, 0, 0, 0, 0, 0, 0,
  0, 0, 0, 0, 0, 0, 0, 0, 0, 0, 0, 0, 0, 0, 0, 0, 0, 0, 0, 0, 0
  >>

T_yyRuleInfoLhs == <<
  190, 190, 192, 192, 191, 193, 195, 195, 195, 194, 194, 194, 194, 193, 193, 193, 193, 193, 193,
  200, 200, 199, 199, 202, 202, 205, 205, 207, 207, 203, 203, 208, 196, 196, 210, 210, 210, 210,
  211, 211, 209, 209, 215, 215, 215, 215, 215, 215, 215, 215, 215, 215, 215, 215, 215, 215, 215,
  215, 224, 224, 220, 220, 222, 222, 225, 225, 225, 225, 226, 226, 226, 226, 226, 223, 223, 227,
  227, 227, 204, 204, 228, 228, 229, 230, 230, 230, 230, 230, 233, 233, 218, 218, 234, 234, 235,
  235, 193, 237, 237, 193, 193, 193, 206, 206, 206, 238, 238, 243, 243, 243, 243, 239, 239, 239,
  251, 239, 253, 253, 244, 244, 244, 254, 245, 245, 245, 255, 255, 255, 246, 246, 257, 257, 256,
  256, 256, 256, 201, 201, 262, 262, 262, 262, 258, 258, 258, 258, 258, 260, 260, 260, 259, 259,
  259, 241, 241, 231, 231, 219, 219, 219, 264, 264, 264, 248, 248, 249, 249, 242, 242, 242, 242,
  193, 247, 247, 266, 266, 266, 266, 193, 267, 267, 267, 267, 193, 193, 270, 270, 270, 270, 270,
  270, 271, 271, 268, 268, 269, 269, 263, 263, 217, 217, 217, 217, 216, 216, 216, 216, 217, 217,
  217, 217, 217, 217, 217, 217, 217, 217, 217, 216, 217, 217, 217, 217, 217, 217, 217, 217, 217,
  273, 273, 217, 217, 217, 217, 217, 217, 217, 217, 217, 217, 217, 217, 274, 274, 217, 275, 275,
  217, 217, 217, 217, 217, 217, 278, 278, 279, 279, 277, 277, 261, 261, 252, 252, 276, 276, 193,
  280, 280, 221, 221, 232, 232, 281, 281, 193, 193, 193, 282, 282, 193, 193, 193, 193, 193, 283,
  283, 283, 283, 213, 213, 214, 193, 284, 284, 284, 284, 285, 285, 285, 285, 286, 286, 287, 287,
  288, 288, 290, 290, 289, 289, 289, 289, 217, 217, 236, 236, 236, 193, 193, 193, 292, 292, 193,
  193, 193, 193, 193, 193, 193, 193, 193, 193, 193, 193, 193, 193, 193, 294, 296, 297, 297, 298,
  265, 265, 265, 301, 301, 301, 300, 240, 240, 302, 302, 303, 304, 304, 304, 304, 304, 304, 305,
  305, 305, 308, 308, 308, 310, 310, 311, 311, 309, 309, 309, 312, 312, 313, 313, 313, 313, 250,
  272, 272, 272, 307, 307, 306, 216, 188, 189, 189, 190, 197, 197, 198, 205, 212, 212, 229, 235,
  254, 217, 283, 290, 291, 291, 293, 293, 295, 295, 296, 299, 299, 299
  >>

T_yyRuleInfoNRhs == <<
  2, 3, 1, 3, 1, 3, 0, 1, 2, 0, 1, 1, 1, 2, 2, 2, 3, 5, 6, 0, 3, 1, 0, 5, 2, 0, 3, 2, 1, 4, 2, 2,
  1, 1, 0, 1, 4, 6, 1, 2, 2, 0, 2, 2, 4, 3, 3, 2, 2, 3, 5, 2, 4, 4, 1, 2, 4, 2, 3, 4, 0, 1, 0, 2,
  2, 3, 3, 3, 2, 2, 1, 1, 2, 3, 2, 0, 2, 2, 0, 2, 3, 1, 1, 2, 7, 5, 5, 10, 0, 1, 0, 3, 0, 2, 1, 1,
  4, 2, 0, 8, 4, 1, 5, 6, 3, 1, 3, 1, 2, 1, 1, 7, 8, 1, 4, 1, 5, 5, 1, 1, 0, 0, 3, 2, 4, 2, 1, 0,
  0, 2, 2, 0, 5, 7, 6, 6, 1, 3, 1, 3, 3, 5, 1, 1, 2, 3, 4, 2, 4, 0, 0, 3, 2, 0, 3, 5, 3, 1, 1, 0,
  2, 2, 0, 0, 3, 0, 2, 0, 2, 4, 4, 6, 0, 2, 0, 2, 2, 4, 9, 5, 7, 3, 5, 7, 8, 0, 2, 12, 9, 5, 8, 2,
  0, 2, 1, 0, 3, 3, 1, 3, 1, 3, 5, 1, 1, 1, 1, 1, 3, 6, 5, 8, 4, 12, 6, 9, 5, 13, 1, 5, 3, 3, 3,
  3, 3, 3, 3, 3, 1, 2, 3, 5, 2, 3, 3, 4, 6, 5, 2, 2, 2, 3, 1, 2, 5, 1, 2, 5, 3, 5, 4, 4, 5, 5, 4,
  2, 0, 1, 0, 1, 0, 3, 1, 0, 3, 11, 1, 0, 0, 3, 5, 3, 0, 2, 4, 2, 3, 2, 0, 2, 4, 5, 4, 5, 1, 1, 1,
  1, 2, 1, 2, 14, 1, 1, 2, 0, 1, 1, 1, 3, 0, 3, 0, 2, 3, 2, 3, 2, 8, 6, 5, 1, 4, 6, 1, 1, 1, 4, 6,
  3, 0, 2, 1, 2, 1, 2, 6, 8, 6, 8, 6, 9, 10, 11, 9, 1, 4, 7, 0, 1, 3, 1, 0, 2, 3, 1, 2, 3, 6, 1,
  3, 1, 3, 5, 5, 6, 4, 5, 1, 2, 0, 3, 6, 1, 1, 1, 1, 2, 1, 2, 2, 2, 2, 0, 2, 2, 2, 1, 1, 2, 2, 1,
  1, 4, 2, 5, 1, 1, 2, 1, 1, 1, 0, 1, 1, 1, 1, 0, 1, 2, 1, 1, 0, 1, 0, 0, 1, 1, 3, 2, 0, 4, 2
  >>

(* The terminals listed for a state, as sets *)

T_yy_expected == <<
  {1, 2, 5, 10, 11, 12, 13, 14, 17, 30, 32, 40, 70, 78, 81, 99, 134, 139, 140, 163}, {0, 1, 2, 5,
  10, 11, 12, 13, 14, 17, 30, 32, 40, 70, 78, 81, 99, 134, 139, 140, 163}, {19, 20, 22, 36, 59,
  71, 81, 101, 107, 108, 115, 117, 118, 119, 122, 139, 140, 154, 155, 156, 157, 158, 184}, {5,
  10, 11, 12, 13, 14, 17, 30, 32, 40, 70, 78, 81, 99, 134, 139, 140, 163}, {19, 20, 22, 36, 59,
  71, 81, 101, 107, 108, 115, 117, 118, 119, 122, 139, 140, 154, 155, 156, 157, 158, 184}, {73,
  81, 128, 129, 130, 139, 140}, {11, 73, 81, 128, 129, 130, 139, 140}, {81, 139, 140}, {19, 20,
  22, 36, 48, 59, 71, 85, 90, 101, 107, 108, 115, 117, 118, 119, 122, 154, 155, 156, 157, 158,
  184}, {19, 20, 22, 36, 59, 71, 85, 90, 101, 107, 108, 115, 117, 118, 119, 122, 154, 155, 156,
  157, 158, 184}, {19, 20, 22, 36, 59, 71, 85, 90, 101, 107, 108, 115, 117, 118, 119, 122, 154,
  155, 156, 157, 158, 184}, {19, 20, 22, 36, 59, 71, 101, 107, 108, 115, 117, 118, 119, 122, 154,
  155, 156, 157, 158, 184}, {19, 20, 22, 36, 59, 71, 101, 107, 108, 115, 117, 118, 119, 122, 154,
  155, 156, 157, 158, 184}, {19, 20, 22, 36, 59, 71, 101, 107, 108, 115, 117, 118, 119, 122, 154,
  155, 156, 157, 158, 184}, {81, 121, 139, 140}, {81, 139, 140}, {81, 139, 140}, {81, 139, 140},
  {81, 139, 140}, {81, 139, 140}, {19, 24, 43, 44, 45, 46, 47, 48, 49, 50, 51, 52, 53, 54, 55,
  56, 57, 59, 103, 104, 105, 106, 107, 108, 109, 110, 111, 112, 113, 114, 118}, {19, 31, 39, 43,
  44, 45, 46, 47, 48, 49, 50, 51, 52, 53, 54, 55, 56, 57, 103, 104, 105, 106, 107, 108, 109, 110,
  111, 112, 113, 114}, {19, 31, 39, 43, 44, 45, 46, 47, 48, 49, 50, 51, 52, 53, 54, 55, 56, 57,
  103, 104, 105, 106, 107, 108, 109, 110, 111, 112, 113, 114}, {19, 43, 44, 45, 46, 47, 48, 49,
  50, 51, 52, 53, 54, 55, 56, 57, 67, 103, 104, 105, 106, 107, 108, 109, 110, 111, 112, 113,
  114}, {19, 20, 22, 36, 59, 71, 101, 107, 108, 115, 117, 118, 119, 122, 154, 155, 156, 157, 158,
  184}, {19, 20, 22, 36, 59, 71, 101, 107, 108, 115, 117, 118, 119, 122, 154, 155, 156, 157, 158,
  184}, {19, 20, 22, 36, 59, 71, 101, 107, 108, 115, 117, 118, 119, 122, 154, 155, 156, 157, 158,
  184}, {19, 20, 22, 36, 59, 71, 101, 107, 108, 115, 117, 118, 119, 122, 154, 155, 156, 157, 158,
  184}, {19, 20, 22, 36, 59, 71, 101, 107, 108, 115, 117, 118, 119, 122, 154, 155, 156, 157, 158,
  184}, {19, 20, 22, 36, 59, 71, 101, 107, 108, 115, 117, 118, 119, 122, 154, 155, 156, 157, 158,
  184}, {19, 20, 22, 36, 59, 71, 101, 107, 108, 115, 117, 118, 119, 122, 154, 155, 156, 157, 158,
  184}, {19, 20, 22, 36, 59, 71, 101, 107, 108, 115, 117, 118, 119, 122, 154, 155, 156, 157, 158,
  184}, {19, 20, 22, 36, 59, 71, 101, 107, 108, 115, 117, 118, 119, 122, 154, 155, 156, 157, 158,
  184}, {19, 20, 22, 36, 59, 71, 101, 107, 108, 115, 117, 118, 119, 122, 154, 155, 156, 157, 158,
  184}, {19, 20, 22, 36, 59, 71, 101, 107, 108, 115, 117, 118, 119, 122, 154, 155, 156, 157, 158,
  184}, {19, 20, 22, 36, 59, 71, 101, 107, 108, 115, 117, 118, 119, 122, 154, 155, 156, 157, 158,
  184}, {19, 20, 22, 36, 59, 71, 101, 107, 108, 115, 117, 118, 119, 122, 154, 155, 156, 157, 158,
  184}, {19, 20, 22, 36, 59, 71, 101, 107, 108, 115, 117, 118, 119, 122, 154, 155, 156, 157, 158,
  184}, {19, 20, 22, 36, 59, 71, 101, 107, 108, 115, 117, 118, 119, 122, 154, 155, 156, 157, 158,
  184}, {59, 107, 108, 116, 117, 118, 119, 121, 129, 155, 156}, {59, 107, 108, 116, 117, 118,
  119, 121, 129, 155, 156}, {59, 76, 87, 89, 92, 117, 118, 119, 146}, {59, 76, 87, 89, 92, 117,
  118, 119, 146}, {59, 117, 118, 119, 120, 123, 124, 125, 133}, {25, 139, 140}, {25, 139, 140},
  {25, 139, 140}, {25, 139, 140}, {19, 43, 44, 45, 46, 47, 48, 49, 50, 51, 52, 53, 54, 55, 56,
  57, 86, 88, 103, 104, 105, 106, 107, 108, 109, 110, 111, 112, 113, 114}, {19, 25, 43, 44, 45,
  46, 47, 48, 49, 50, 51, 52, 53, 54, 55, 56, 57, 69, 103, 104, 105, 106, 107, 108, 109, 110,
  111, 112, 113, 114}, {19, 23, 43, 44, 45, 46, 47, 48, 49, 50, 51, 52, 53, 54, 55, 56, 57, 103,
  104, 105, 106, 107, 108, 109, 110, 111, 112, 113, 114}, {19, 23, 43, 44, 45, 46, 47, 48, 49,
  50, 51, 52, 53, 54, 55, 56, 57, 103, 104, 105, 106, 107, 108, 109, 110, 111, 112, 113, 114},
  {19, 24, 43, 44, 45, 46, 47, 48, 49, 50, 51, 52, 53, 54, 55, 56, 57, 103, 104, 105, 106, 107,
  108, 109, 110, 111, 112, 113, 114}, {19, 43, 44, 45, 46, 47, 48, 49, 50, 51, 52, 53, 54, 55,
  56, 57, 103, 104, 105, 106, 107, 108, 109, 110, 111, 112, 113, 114, 151}, {19, 23, 43, 44, 45,
  46, 47, 48, 49, 50, 51, 52, 53, 54, 55, 56, 57, 103, 104, 105, 106, 107, 108, 109, 110, 111,
  112, 113, 114}, {19, 23, 43, 44, 45, 46, 47, 48, 49, 50, 51, 52, 53, 54, 55, 56, 57, 103, 104,
  105, 106, 107, 108, 109, 110, 111, 112, 113, 114}, {19, 23, 43, 44, 45, 46, 47, 48, 49, 50, 51,
  52, 53, 54, 55, 56, 57, 103, 104, 105, 106, 107, 108, 109, 110, 111, 112, 113, 114}, {19, 23,
  43, 44, 45, 46, 47, 48, 49, 50, 51, 52, 53, 54, 55, 56, 57, 103, 104, 105, 106, 107, 108, 109,
  110, 111, 112, 113, 114}, {19, 23, 43, 44, 45, 46, 47, 48, 49, 50, 51, 52, 53, 54, 55, 56, 57,
  103, 104, 105, 106, 107, 108, 109, 110, 111, 112, 113, 114}, {19, 23, 43, 44, 45, 46, 47, 48,
  49, 50, 51, 52, 53, 54, 55, 56, 57, 103, 104, 105, 106, 107, 108, 109, 110, 111, 112, 113,
  114}, {19, 23, 43, 44, 45, 46, 47, 48, 49, 50, 51, 52, 53, 54, 55, 56, 57, 103, 104, 105, 106,
  107, 108, 109, 110, 111, 112, 113, 114}, {19, 23, 43, 44, 45, 46, 47, 48, 49, 50, 51, 52, 53,
  54, 55, 56, 57, 103, 104, 105, 106, 107, 108, 109, 110, 111, 112, 113, 114}, {19, 43, 44, 45,
  46, 47, 48, 49, 50, 51, 52, 53, 54, 55, 56, 57, 103, 104, 105, 106, 107, 108, 109, 110, 111,
  112, 113, 114, 160}, {19, 23, 43, 44, 45, 46, 47, 48, 49, 50, 51, 52, 53, 54, 55, 56, 57, 103,
  104, 105, 106, 107, 108, 109, 110, 111, 112, 113, 114}, {19, 43, 44, 45, 46, 47, 48, 49, 50,
  51, 52, 53, 54, 55, 56, 57, 103, 104, 105, 106, 107, 108, 109, 110, 111, 112, 113, 114, 160},
  {19, 24, 43, 44, 45, 46, 47, 48, 49, 50, 51, 52, 53, 54, 55, 56, 57, 103, 104, 105, 106, 107,
  108, 109, 110, 111, 112, 113, 114}, {19, 43, 44, 45, 46, 47, 48, 49, 50, 51, 52, 53, 54, 55,
  56, 57, 103, 104, 105, 106, 107, 108, 109, 110, 111, 112, 113, 114}, {19, 43, 44, 45, 46, 47,
  48, 49, 50, 51, 52, 53, 54, 55, 56, 57, 103, 104, 105, 106, 107, 108, 109, 110, 111, 112, 113,
  114}, {19, 43, 44, 45, 46, 47, 48, 49, 50, 51, 52, 53, 54, 55, 56, 57, 103, 104, 105, 106, 107,
  108, 109, 110, 111, 112, 113, 114}, {19, 43, 44, 45, 46, 47, 48, 49, 50, 51, 52, 53, 54, 55,
  56, 57, 103, 104, 105, 106, 107, 108, 109, 110, 111, 112, 113, 114}, {19, 43, 44, 45, 46, 47,
  48, 49, 50, 51, 52, 53, 54, 55, 56, 57, 103, 104, 105, 106, 107, 108, 109, 110, 111, 112, 113,
  114}, {19, 43, 44, 45, 46, 47, 48, 49, 50, 51, 52, 53, 54, 55, 56, 57, 103, 104, 105, 106, 107,
  108, 109, 110, 111, 112, 113, 114}, {19, 43, 44, 45, 46, 47, 48, 49, 50, 51, 52, 53, 54, 55,
  56, 57, 103, 104, 105, 106, 107, 108, 109, 110, 111, 112, 113, 114}, {19, 43, 44, 45, 46, 47,
  48, 49, 50, 51, 52, 53, 54, 55, 56, 57, 103, 104, 105, 106, 107, 108, 109, 110, 111, 112, 113,
  114}, {19, 43, 44, 45, 46, 47, 48, 49, 50, 51, 52, 53, 54, 55, 56, 57, 103, 104, 105, 106, 107,
  108, 109, 110, 111, 112, 113, 114}, {19, 43, 44, 45, 46, 47, 48, 49, 50, 51, 52, 53, 54, 55,
  56, 57, 103, 104, 105, 106, 107, 108, 109, 110, 111, 112, 113, 114}, {19, 43, 44, 45, 46, 47,
  48, 49, 50, 51, 52, 53, 54, 55, 56, 57, 103, 104, 105, 106, 107, 108, 109, 110, 111, 112, 113,
  114}, {19, 43, 44, 45, 46, 47, 48, 49, 50, 51, 52, 53, 54, 55, 56, 57, 103, 104, 105, 106, 107,
  108, 109, 110, 111, 112, 113, 114}, {19, 43, 44, 45, 46, 47, 48, 49, 50, 51, 52, 53, 54, 55,
  56, 57, 103, 104, 105, 106, 107, 108, 109, 110, 111, 112, 113, 114}, {19, 43, 44, 45, 46, 47,
  48, 49, 50, 51, 52, 53, 54, 55, 56, 57, 103, 104, 105, 106, 107, 108, 109, 110, 111, 112, 113,
  114}, {19, 43, 44, 45, 46, 47, 48, 49, 50, 51, 52, 53, 54, 55, 56, 57, 103, 104, 105, 106, 107,
  108, 109, 110, 111, 112, 113, 114}, {19, 43, 44, 45, 46, 47, 48, 49, 50, 51, 52, 53, 54, 55,
  56, 57, 103, 104, 105, 106, 107, 108, 109, 110, 111, 112, 113, 114}, {19, 43, 44, 45, 46, 47,
  48, 49, 50, 51, 52, 53, 54, 55, 56, 57, 103, 104, 105, 106, 107, 108, 109, 110, 111, 112, 113,
  114}, {19, 43, 44, 45, 46, 47, 48, 49, 50, 51, 52, 53, 54, 55, 56, 57, 103, 104, 105, 106, 107,
  108, 109, 110, 111, 112, 113, 114}, {19, 43, 44, 45, 46, 47, 48, 49, 50, 51, 52, 53, 54, 55,
  56, 57, 103, 104, 105, 106, 107, 108, 109, 110, 111, 112, 113, 114}, {19, 43, 44, 45, 46, 47,
  48, 49, 50, 51, 52, 53, 54, 55, 56, 57, 103, 104, 105, 106, 107, 108, 109, 110, 111, 112, 113,
  114}, {19, 44, 45, 46, 47, 48, 49, 50, 51, 52, 53, 54, 55, 56, 57, 103, 104, 105, 106, 107,
  108, 109, 110, 111, 112, 113, 114}, {19, 45, 46, 47, 48, 49, 50, 51, 52, 53, 54, 55, 56, 57,
  103, 104, 105, 106, 107, 108, 109, 110, 111, 112, 113, 114}, {19, 45, 46, 47, 48, 49, 50, 51,
  52, 53, 54, 55, 56, 57, 103, 104, 105, 106, 107, 108, 109, 110, 111, 112, 113, 114}, {19, 20,
  22, 36, 59, 71, 101, 107, 108, 115, 117, 118, 119, 122, 141, 154, 155, 156, 157, 158, 184},
  {19, 20, 22, 36, 59, 71, 101, 107, 108, 109, 115, 117, 118, 119, 122, 154, 155, 156, 157, 158,
  184}, {19, 20, 22, 36, 59, 71, 101, 107, 108, 115, 117, 118, 119, 122, 141, 154, 155, 156, 157,
  158, 184}, {19, 20, 22, 36, 59, 71, 101, 107, 108, 115, 117, 118, 119, 122, 154, 155, 156, 157,
  158, 184}, {19, 20, 22, 36, 59, 71, 101, 107, 108, 115, 117, 118, 119, 122, 154, 155, 156, 157,
  158, 184}, {19, 20, 22, 36, 59, 71, 101, 107, 108, 115, 117, 118, 119, 122, 154, 155, 156, 157,
  158, 184}, {19, 20, 22, 36, 59, 71, 101, 107, 108, 115, 117, 118, 119, 122, 154, 155, 156, 157,
  158, 184}, {19, 20, 22, 36, 59, 71, 101, 107, 108, 115, 117, 118, 119, 122, 154, 155, 156, 157,
  158, 184}, {19, 20, 22, 36, 59, 71, 101, 107, 108, 115, 117, 118, 119, 122, 154, 155, 156, 157,
  158, 184}, {19, 20, 22, 36, 59, 71, 101, 107, 108, 115, 117, 118, 119, 122, 154, 155, 156, 157,
  158, 184}, {19, 20, 22, 36, 59, 71, 101, 107, 108, 115, 117, 118, 119, 122, 154, 155, 156, 157,
  158, 184}, {19, 20, 22, 36, 59, 71, 101, 107, 108, 115, 117, 118, 119, 122, 154, 155, 156, 157,
  158, 184}, {19, 20, 22, 36, 59, 71, 101, 107, 108, 115, 117, 118, 119, 122, 154, 155, 156, 157,
  158, 184}, {19, 20, 22, 36, 59, 71, 101, 107, 108, 115, 117, 118, 119, 122, 154, 155, 156, 157,
  158, 184}, {19, 20, 22, 36, 59, 71, 101, 107, 108, 115, 117, 118, 119, 122, 154, 155, 156, 157,
  158, 184}, {19, 20, 22, 36, 59, 71, 101, 107, 108, 115, 117, 118, 119, 122, 154, 155, 156, 157,
  158, 184}, {19, 20, 22, 36, 59, 71, 101, 107, 108, 115, 117, 118, 119, 122, 154, 155, 156, 157,
  158, 184}, {19, 20, 22, 36, 59, 71, 101, 107, 108, 115, 117, 118, 119, 122, 154, 155, 156, 157,
  158, 184}, {19, 20, 22, 36, 59, 71, 101, 107, 108, 115, 117, 118, 119, 122, 154, 155, 156, 157,
  158, 184}, {19, 20, 22, 36, 59, 71, 101, 107, 108, 115, 117, 118, 119, 122, 154, 155, 156, 157,
  158, 184}, {19, 20, 22, 36, 59, 71, 101, 107, 108, 115, 117, 118, 119, 122, 154, 155, 156, 157,
  158, 184}, {19, 20, 22, 36, 59, 71, 101, 107, 108, 115, 117, 118, 119, 122, 154, 155, 156, 157,
  158, 184}, {19, 20, 22, 36, 59, 71, 101, 107, 108, 115, 117, 118, 119, 122, 154, 155, 156, 157,
  158, 184}, {19, 20, 22, 36, 59, 71, 101, 107, 108, 115, 117, 118, 119, 122, 154, 155, 156, 157,
  158, 184}, {19, 20, 22, 36, 59, 71, 101, 107, 108, 115, 117, 118, 119, 122, 154, 155, 156, 157,
  158, 184}, {19, 20, 22, 36, 59, 71, 101, 107, 108, 115, 117, 118, 119, 122, 154, 155, 156, 157,
  158, 184}, {19, 20, 22, 36, 59, 71, 101, 107, 108, 115, 117, 118, 119, 122, 154, 155, 156, 157,
  158, 184}, {19, 20, 22, 36, 59, 71, 101, 107, 108, 115, 117, 118, 119, 122, 154, 155, 156, 157,
  158, 184}, {19, 20, 22, 36, 59, 71, 101, 107, 108, 115, 117, 118, 119, 122, 154, 155, 156, 157,
  158, 184}, {19, 20, 22, 36, 59, 71, 101, 107, 108, 115, 117, 118, 119, 122, 154, 155, 156, 157,
  158, 184}, {19, 20, 22, 36, 59, 71, 101, 107, 108, 115, 117, 118, 119, 122, 154, 155, 156, 157,
  158, 184}, {19, 20, 22, 36, 59, 71, 101, 107, 108, 115, 117, 118, 119, 122, 154, 155, 156, 157,
  158, 184}, {19, 20, 22, 36, 59, 71, 101, 107, 108, 115, 117, 118, 119, 122, 154, 155, 156, 157,
  158, 184}, {19, 20, 22, 36, 59, 71, 101, 107, 108, 115, 117, 118, 119, 122, 154, 155, 156, 157,
  158, 184}, {19, 20, 22, 36, 59, 71, 101, 107, 108, 115, 117, 118, 119, 122, 154, 155, 156, 157,
  158, 184}, {19, 20, 22, 36, 59, 71, 101, 107, 108, 115, 117, 118, 119, 122, 154, 155, 156, 157,
  158, 184}, {19, 20, 22, 36, 59, 71, 101, 107, 108, 115, 117, 118, 119, 122, 154, 155, 156, 157,
  158, 184}, {19, 20, 22, 36, 59, 71, 101, 107, 108, 115, 117, 118, 119, 122, 154, 155, 156, 157,
  158, 184}, {19, 20, 22, 36, 59, 71, 101, 107, 108, 115, 117, 118, 119, 122, 154, 155, 156, 157,
  158, 184}, {19, 20, 22, 36, 59, 71, 101, 107, 108, 115, 117, 118, 119, 122, 154, 155, 156, 157,
  158, 184}, {19, 20, 22, 36, 59, 71, 101, 107, 108, 115, 117, 118, 119, 122, 154, 155, 156, 157,
  158, 184}, {19, 20, 22, 36, 59, 71, 101, 107, 108, 115, 117, 118, 119, 122, 154, 155, 156, 157,
  158, 184}, {19, 20, 22, 36, 59, 71, 101, 107, 108, 115, 117, 118, 119, 122, 154, 155, 156, 157,
  158, 184}, {19, 20, 22, 36, 59, 71, 101, 107, 108, 115, 117, 118, 119, 122, 154, 155, 156, 157,
  158, 184}, {19, 20, 22, 36, 59, 71, 101, 107, 108, 115, 117, 118, 119, 122, 154, 155, 156, 157,
  158, 184}, {19, 20, 22, 36, 59, 71, 101, 107, 108, 115, 117, 118, 119, 122, 154, 155, 156, 157,
  158, 184}, {19, 20, 22, 36, 59, 71, 101, 107, 108, 115, 117, 118, 119, 122, 154, 155, 156, 157,
  158, 184}, {19, 20, 22, 36, 59, 71, 101, 107, 108, 115, 117, 118, 119, 122, 154, 155, 156, 157,
  158, 184}, {19, 20, 22, 36, 59, 71, 101, 107, 108, 115, 117, 118, 119, 122, 154, 155, 156, 157,
  158, 184}, {19, 20, 22, 36, 59, 71, 101, 107, 108, 115, 117, 118, 119, 122, 154, 155, 156, 157,
  158, 184}, {19, 20, 22, 36, 59, 71, 101, 107, 108, 115, 117, 118, 119, 122, 154, 155, 156, 157,
  158, 184}, {19, 20, 22, 36, 59, 71, 101, 107, 108, 115, 117, 118, 119, 122, 154, 155, 156, 157,
  158, 184}, {19, 20, 22, 36, 59, 71, 101, 107, 108, 115, 117, 118, 119, 122, 154, 155, 156, 157,
  158, 184}, {19, 20, 22, 36, 59, 71, 101, 107, 108, 115, 117, 118, 119, 122, 154, 155, 156, 157,
  158, 184}, {19, 20, 22, 36, 59, 71, 101, 107, 108, 115, 117, 118, 119, 122, 154, 155, 156, 157,
  158, 184}, {19, 20, 22, 36, 59, 71, 101, 107, 108, 115, 117, 118, 119, 122, 154, 155, 156, 157,
  158, 184}, {54, 55, 56, 57, 58, 103, 104, 105, 106, 107, 108, 109, 110, 111, 112, 113, 114},
  {54, 55, 56, 57, 103, 104, 105, 106, 107, 108, 109, 110, 111, 112, 113, 114}, {54, 55, 56, 57,
  103, 104, 105, 106, 107, 108, 109, 110, 111, 112, 113, 114}, {54, 55, 56, 57, 103, 104, 105,
  106, 107, 108, 109, 110, 111, 112, 113, 114}, {54, 55, 56, 57, 103, 104, 105, 106, 107, 108,
  109, 110, 111, 112, 113, 114}, {54, 55, 56, 57, 103, 104, 105, 106, 107, 108, 109, 110, 111,
  112, 113, 114}, {54, 55, 56, 57, 103, 104, 105, 106, 107, 108, 109, 110, 111, 112, 113, 114},
  {54, 55, 56, 57, 103, 104, 105, 106, 107, 108, 109, 110, 111, 112, 113, 114}, {103, 104, 105,
  106, 107, 108, 109, 110, 111, 112, 113, 114}, {107, 108, 109, 110, 111, 112, 113, 114}, {109,
  110, 111, 112, 113, 114}, {59, 72, 117, 118, 119}, {59, 72, 117, 118, 119}, {26, 59, 117, 118,
  119}, {59, 117, 118, 119}, {19, 46, 116, 132}, {59, 117, 118, 119}, {107, 108, 155, 156}, {107,
  108, 155, 156}, {59, 117, 118, 119}, {59, 117, 118, 119}, {95, 166, 167}, {112, 113, 114},
  {166, 167}, {166, 167}, {166, 167}, {139, 140}, {114}, {114}, {}, {}, {19, 24, 96, 114, 120,
  121, 122, 123, 124, 125, 126, 132}, {19, 24, 96, 114, 120, 121, 122, 123, 124, 125, 126, 132},
  {19, 24, 96, 114, 120, 121, 122, 123, 124, 125, 126, 132}, {59, 117, 118, 119, 152}, {22, 59,
  117, 118, 119}, {22, 59, 117, 118, 119}, {22, 59, 117, 118, 119}, {22, 59, 117, 118, 119}, {12,
  27, 42, 63, 73}, {12, 27, 42, 63, 73}, {22, 59, 117, 118, 119}, {76, 87, 89, 92, 146}, {22, 59,
  117, 118, 119}, {26, 59, 117, 118, 119}, {22, 23, 25, 102}, {22, 23, 25, 102}, {59, 117, 118,
  119}, {59, 117, 118, 119}, {59, 117, 118, 119}, {59, 117, 118, 119}, {59, 117, 118, 119}, {59,
  117, 118, 119}, {59, 117, 118, 119}, {59, 117, 118, 119}, {59, 117, 118, 119}, {59, 117, 118,
  119}, {59, 117, 118, 119}, {59, 117, 118, 119}, {59, 117, 118, 119}, {59, 117, 118, 119}, {59,
  117, 118, 119}, {59, 117, 118, 119}, {59, 117, 118, 119}, {59, 117, 118, 119}, {59, 117, 118,
  119}, {59, 117, 118, 119}, {59, 117, 118, 119}, {59, 117, 118, 119}, {59, 117, 118, 119}, {59,
  117, 118, 119}, {135, 137, 138, 146}, {59, 117, 118, 119}, {59, 117, 118, 119}, {59, 117, 118,
  119}, {25, 76, 89, 92}, {25, 76, 89, 92}, {59, 117, 118, 119}, {135, 137, 138, 146}, {135, 137,
  138, 146}, {59, 117, 118, 119}, {21, 80, 124, 162}, {76, 89, 92}, {76, 89, 92}, {59, 118}, {59,
  118}, {59, 118}, {}, {}, {}, {}, {}, {}, {}, {22, 59, 101, 107, 108, 117, 118, 122, 154, 155,
  156, 184}, {101, 118, 122, 154, 155, 156, 184}, {101, 118, 122, 154, 155, 156, 184}, {22, 59,
  117, 118, 119}, {120, 123, 124, 125, 133}, {22, 59, 117, 118, 119}, {59, 109, 117, 118, 119},
  {59, 117, 118, 119, 144}, {59, 117, 118, 119, 144}, {59, 117, 118, 119}, {59, 117, 118, 119},
  {59, 117, 118, 119}, {59, 117, 118, 119}, {59, 117, 118, 119}, {59, 117, 118, 119}, {59, 117,
  118, 119}, {59, 117, 118, 119}, {73, 128, 129, 130}, {59, 117, 118, 119}, {59, 117, 118, 119},
  {59, 117, 118, 119}, {59, 117, 118, 119}, {59, 117, 118, 119}, {59, 117, 118, 119}, {59, 117,
  118, 119}, {59, 117, 118, 119}, {35, 66, 74, 131}, {35, 66, 74, 131}, {35, 66, 74, 131}, {59,
  117, 118, 119}, {59, 117, 118, 119}, {59, 117, 118, 119}, {23, 25, 119, 144}, {59, 117, 118,
  119}, {59, 117, 118, 119}, {59, 117, 118, 119}, {22, 24, 59, 118}, {66, 85, 94, 147}, {12, 27,
  42, 63}, {59, 117, 118, 119}, {59, 117, 118, 119}, {59, 117, 118, 119}, {59, 117, 118, 119},
  {59, 117, 118, 119}, {59, 117, 118, 119}, {59, 117, 118, 119}, {59, 117, 118, 119}, {59, 117,
  118, 119}, {60, 120, 125}, {128, 129, 130}, {29, 33, 65}, {24, 59, 118}, {24, 59, 118}, {24,
  59, 118}, {25, 119, 144}, {109, 136, 141}, {7, 8, 9}, {60, 120}, {15, 60}, {116, 151}, {150,
  151}, {25, 143}, {19, 117}, {150, 151}, {19, 117}, {19, 117}, {25, 150}, {116, 151}, {116,
  151}, {25, 150}, {116, 151}, {25, 143}, {19, 117}, {25, 127}, {23, 25}, {46, 116}, {31, 39},
  {31, 39}, {31, 39}, {116, 145}, {116, 145}, {116, 145}, {116, 145}, {19, 117}, {25, 146}, {25,
  146}, {159, 161}, {25, 143}, {136, 141}, {22, 24}, {116}, {60}, {116}, {116}, {38}, {38},
  {152}, {151}, {22}, {43}, {18}, {18}, {18}, {18}, {18}, {150}, {18}, {150}, {151}, {151},
  {150}, {22}, {150}, {43}, {43}, {159}, {62}, {18}, {22}, {18}, {22}, {116}, {116}, {116}, {64},
  {22}, {22}, {22}, {116}, {127}, {116}, {64}, {116}, {116}, {166}, {149}, {24}, {114}, {114},
  {22}, {22}, {91}, {91}, {82}, {82}, {159}, {165}, {148}, {147}, {150}, {149}, {149}, {25},
  {18}, {13}, {13}, {6}, {6}, {6}, {}, {}, {}, {}, {}, {}, {}, {}, {46, 47, 48, 49, 122}, {100,
  134, 163, 164}, {16, 77, 79, 162}, {22, 23, 102}, {22, 23, 102}, {128, 129, 130}, {22, 59,
  118}, {16, 77, 79}, {23, 25}, {131, 134}, {22, 53}, {23, 25}, {130, 153}, {130, 153}, {23, 25},
  {22, 61}, {23, 25}, {23, 25}, {23, 25}, {24, 142}, {23, 25}, {23, 25}, {59, 118}, {121, 122},
  {7, 8}, {122, 132}, {23, 25}, {23, 146}, {19, 98}, {59, 118}, {23, 25}, {23, 25}, {83, 84},
  {23, 25}, {23, 25}, {23, 25}, {155, 156}, {155, 156}, {23, 25}, {59, 118}, {22, 142}, {4}, {3},
  {22}, {122}, {19}, {122}, {19}, {22}, {22}, {125}, {15}, {16}, {23}, {23}, {140}, {152}, {131},
  {25}, {25}, {143}, {20}, {145}, {16}, {22}, {116}, {162}, {68}, {25}, {68}, {75}, {41}, {1},
  {143}, {131}, {25}, {131}, {61}, {37}, {25}, {152}, {53}, {53}, {53}, {53}, {131}, {117}, {34},
  {24}, {1}, {5}, {116}, {24}, {20}, {19}, {132}, {126}, {22}, {67}, {22}, {22}, {23}, {22},
  {67}, {59}, {24}, {97}, {28}, {22}, {67}, {37}, {23}, {34}, {150}, {22}, {23}, {34}, {146},
  {22}, {147}, {23}, {25}, {23}, {22}, {98}, {143}, {143}, {23}, {23}, {23}, {136}, {142}, {23},
  {25}, {23}, {117}, {34}, {22}, {144}, {25}, {34}, {34}, {34}, {34}, {88}, {75}, {86}, {44},
  {75}, {93}, {25}, {34}, {23}, {22}, {25}, {22}, {25}, {23}, {22}, {11}, {22}, {25}, {22}, {23},
  {23}, {22}, {34}, {23}, {22}, {24}, {25}, {142}, {142}, {142}, {142}, {25}, {23}, {15}, {1},
  {1}
  >>

----------------------------------------------------------------------------
(* export const tokens, by name *)

T_tokens == [
  TK_SEMI |-> 1, TK_EXPLAIN |-> 2, TK_QUERY |-> 3, TK_PLAN |-> 4, TK_BEGIN |-> 5,
  TK_TRANSACTION |-> 6, TK_DEFERRED |-> 7, TK_IMMEDIATE |-> 8, TK_EXCLUSIVE |-> 9,
  TK_COMMIT |-> 10, TK_END |-> 11, TK_ROLLBACK |-> 12, TK_SAVEPOINT |-> 13, TK_RELEASE |-> 14,
  TK_TO |-> 15, TK_TABLE |-> 16, TK_CREATE |-> 17, TK_IF |-> 18, TK_NOT |-> 19, TK_EXISTS |-> 20,
  TK_TEMP |-> 21, TK_LP |-> 22, TK_RP |-> 23, TK_AS |-> 24, TK_COMMA |-> 25, TK_WITHOUT |-> 26,
  TK_ABORT |-> 27, TK_ACTION |-> 28, TK_AFTER |-> 29, TK_ANALYZE |-> 30, TK_ASC |-> 31,
  TK_ATTACH |-> 32, TK_BEFORE |-> 33, TK_BY |-> 34, TK_CASCADE |-> 35, TK_CAST |-> 36,
  TK_CONFLICT |-> 37, TK_DATABASE |-> 38, TK_DESC |-> 39, TK_DETACH |-> 40, TK_EACH |-> 41,
  TK_FAIL |-> 42, TK_OR |-> 43, TK_AND |-> 44, TK_IS |-> 45, TK_MATCH |-> 46, TK_LIKE_KW |-> 47,
  TK_BETWEEN |-> 48, TK_IN |-> 49, TK_ISNULL |-> 50, TK_NOTNULL |-> 51, TK_NE |-> 52,
  TK_EQ |-> 53, TK_GT |-> 54, TK_LE |-> 55, TK_LT |-> 56, TK_GE |-> 57, TK_ESCAPE |-> 58,
  TK_ID |-> 59, TK_COLUMNKW |-> 60, TK_DO |-> 61, TK_FOR |-> 62, TK_IGNORE |-> 63,
  TK_INITIALLY |-> 64, TK_INSTEAD |-> 65, TK_NO |-> 66, TK_KEY |-> 67, TK_OF |-> 68,
  TK_OFFSET |-> 69, TK_PRAGMA |-> 70, TK_RAISE |-> 71, TK_RECURSIVE |-> 72, TK_REPLACE |-> 73,
  TK_RESTRICT |-> 74, TK_ROW |-> 75, TK_ROWS |-> 76, TK_TRIGGER |-> 77, TK_VACUUM |-> 78,
  TK_VIEW |-> 79, TK_VIRTUAL |-> 80, TK_WITH |-> 81, TK_NULLS |-> 82, TK_FIRST |-> 83,
  TK_LAST |-> 84, TK_CURRENT |-> 85, TK_FOLLOWING |-> 86, TK_PARTITION |-> 87,
  TK_PRECEDING |-> 88, TK_RANGE |-> 89, TK_UNBOUNDED |-> 90, TK_EXCLUDE |-> 91, TK_GROUPS |-> 92,
  TK_OTHERS |-> 93, TK_TIES |-> 94, TK_WITHIN |-> 95, TK_GENERATED |-> 96, TK_ALWAYS |-> 97,
  TK_MATERIALIZED |-> 98, TK_REINDEX |-> 99, TK_RENAME |-> 100, TK_CTIME_KW |-> 101,
  TK_ANY |-> 102, TK_BITAND |-> 103, TK_BITOR |-> 104, TK_LSHIFT |-> 105, TK_RSHIFT |-> 106,
  TK_PLUS |-> 107, TK_MINUS |-> 108, TK_STAR |-> 109, TK_SLASH |-> 110, TK_REM |-> 111,
  TK_CONCAT |-> 112, TK_PTR |-> 113, TK_COLLATE |-> 114, TK_BITNOT |-> 115, TK_ON |-> 116,
  TK_INDEXED |-> 117, TK_STRING |-> 118, TK_JOIN_KW |-> 119, TK_CONSTRAINT |-> 120,
  TK_DEFAULT |-> 121, TK_NULL |-> 122, TK_PRIMARY |-> 123, TK_UNIQUE |-> 124, TK_CHECK |-> 125,
  TK_REFERENCES |-> 126, TK_AUTOINCR |-> 127, TK_INSERT |-> 128, TK_DELETE |-> 129,
  TK_UPDATE |-> 130, TK_SET |-> 131, TK_DEFERRABLE |-> 132, TK_FOREIGN |-> 133, TK_DROP |-> 134,
  TK_UNION |-> 135, TK_ALL |-> 136, TK_EXCEPT |-> 137, TK_INTERSECT |-> 138, TK_SELECT |-> 139,
  TK_VALUES |-> 140, TK_DISTINCT |-> 141, TK_DOT |-> 142, TK_FROM |-> 143, TK_JOIN |-> 144,
  TK_USING |-> 145, TK_ORDER |-> 146, TK_GROUP |-> 147, TK_HAVING |-> 148, TK_LIMIT |-> 149,
  TK_WHERE |-> 150, TK_RETURNING |-> 151, TK_INTO |-> 152, TK_NOTHING |-> 153, TK_BLOB |-> 154,
  TK_FLOAT |-> 155, TK_INTEGER |-> 156, TK_VARIABLE |-> 157, TK_CASE |-> 158, TK_WHEN |-> 159,
  TK_THEN |-> 160, TK_ELSE |-> 161, TK_INDEX |-> 162, TK_ALTER |-> 163, TK_ADD |-> 164,
  TK_WINDOW |-> 165, TK_OVER |-> 166, TK_FILTER |-> 167, TK_COLUMN |-> 168,
  TK_AGG_FUNCTION |-> 169, TK_AGG_COLUMN |-> 170, TK_TRUEFALSE |-> 171, TK_ISNOT |-> 172,
  TK_FUNCTION |-> 173, TK_UPLUS |-> 174, TK_UMINUS |-> 175, TK_TRUTH |-> 176, TK_REGISTER |-> 177,
  TK_VECTOR |-> 178, TK_SELECT_COLUMN |-> 179, TK_IF_NULL_ROW |-> 180, TK_ASTERISK |-> 181,
  TK_SPAN |-> 182, TK_ERROR |-> 183, TK_QNUMBER |-> 184, TK_SPACE |-> 185, TK_COMMENT |-> 186,
  TK_ILLEGAL |-> 187]

(* export const symbols *)

T_symbols == <<
  "$", "SEMI", "EXPLAIN", "QUERY", "PLAN", "BEGIN", "TRANSACTION", "DEFERRED", "IMMEDIATE",
  "EXCLUSIVE", "COMMIT", "END", "ROLLBACK", "SAVEPOINT", "RELEASE", "TO", "TABLE", "CREATE", "IF",
  "NOT", "EXISTS", "TEMP", "LP", "RP", "AS", "COMMA", "WITHOUT", "ABORT", "ACTION", "AFTER",
  "ANALYZE", "ASC", "ATTACH", "BEFORE", "BY", "CASCADE", "CAST", "CONFLICT", "DATABASE", "DESC",
  "DETACH", "EACH", "FAIL", "OR", "AND", "IS", "MATCH", "LIKE_KW", "BETWEEN", "IN", "ISNULL",
  "NOTNULL", "NE", "EQ", "GT", "LE", "LT", "GE", "ESCAPE", "ID", "COLUMNKW", "DO", "FOR",
  "IGNORE", "INITIALLY", "INSTEAD", "NO", "KEY", "OF", "OFFSET", "PRAGMA", "RAISE", "RECURSIVE",
  "REPLACE", "RESTRICT", "ROW", "ROWS", "TRIGGER", "VACUUM", "VIEW", "VIRTUAL", "WITH", "NULLS",
  "FIRST", "LAST", "CURRENT", "FOLLOWING", "PARTITION", "PRECEDING", "RANGE", "UNBOUNDED",
  "EXCLUDE", "GROUPS", "OTHERS", "TIES", "WITHIN", "GENERATED", "ALWAYS", "MATERIALIZED",
  "REINDEX", "RENAME", "CTIME_KW", "ANY", "BITAND", "BITOR", "LSHIFT", "RSHIFT", "PLUS", "MINUS",
  "STAR", "SLASH", "REM", "CONCAT", "PTR", "COLLATE", "BITNOT", "ON", "INDEXED", "STRING",
  "JOIN_KW", "CONSTRAINT", "DEFAULT", "NULL", "PRIMARY", "UNIQUE", "CHECK", "REFERENCES",
  "AUTOINCR", "INSERT", "DELETE", "UPDATE", "SET", "DEFERRABLE", "FOREIGN", "DROP", "UNION",
  "ALL", "EXCEPT", "INTERSECT", "SELECT", "VALUES", "DISTINCT", "DOT", "FROM", "JOIN", "USING",
  "ORDER", "GROUP", "HAVING", "LIMIT", "WHERE", "RETURNING", "INTO", "NOTHING", "BLOB", "FLOAT",
  "INTEGER", "VARIABLE", "CASE", "WHEN", "THEN", "ELSE", "INDEX", "ALTER", "ADD", "WINDOW",
  "OVER", "FILTER", "COLUMN", "AGG_FUNCTION", "AGG_COLUMN", "TRUEFALSE", "ISNOT", "FUNCTION",
  "UPLUS", "UMINUS", "TRUTH", "REGISTER", "VECTOR", "SELECT_COLUMN", "IF_NULL_ROW", "ASTERISK",
  "SPAN", "ERROR", "QNUMBER", "SPACE", "COMMENT", "ILLEGAL", "input", "cmdlist", "ecmd", "cmdx",
  "explain", "cmd", "transtype", "trans_opt", "nm", "savepoint_opt", "createkw", "temp",
  "ifnotexists", "fullname", "create_table_args", "columnlist", "conslist_opt",
  "table_option_set", "select", "table_option", "columnname", "carglist", "typetoken", "typename",
  "signed", "plus_num", "minus_num", "ccons", "term", "expr", "onconf", "sortorder", "autoinc",
  "eidlist_opt", "refargs", "defer_subclause", "generated", "refarg", "refact",
  "init_deferred_pred_opt", "conslist", "tconscomma", "tcons", "sortlist", "eidlist",
  "defer_subclause_opt", "orconf", "resolvetype", "raisetype", "ifexists", "selectnowith",
  "oneselect", "wqlist", "orderby_opt", "limit_opt", "multiselect_op", "distinct", "selcollist",
  "from", "where_opt", "groupby_opt", "having_opt", "window_clause", "values", "nexprlist",
  "mvalues", "sclp", "as", "seltablist", "stl_prefix", "joinop", "indexed_opt", "on_using",
  "exprlist", "xfullname", "idlist", "nulls", "with", "where_opt_ret", "setlist", "insert_cmd",
  "idlist_opt", "upsert", "returning", "filter_over", "likeop", "between_op", "in_op",
  "paren_exprlist", "case_operand", "case_exprlist", "case_else", "uniqueflag", "collate",
  "vinto", "nmnum", "trigger_time", "trigger_event", "foreach_clause", "when_clause",
  "trigger_cmd_list", "trigger_cmd", "tridxby", "database_kw_opt", "key_opt", "kwcolumn_opt",
  "create_vtab", "vtabarglist", "vtabarg", "vtabargtoken", "lp", "anylist", "wqitem", "wqas",
  "windowdefn_list", "windowdefn", "window", "frame_opt", "filter_clause", "over_clause",
  "range_or_rows", "frame_bound", "frame_bound_s", "frame_bound_e", "frame_exclude_opt",
  "frame_exclude"
  >>

=============================================================================
